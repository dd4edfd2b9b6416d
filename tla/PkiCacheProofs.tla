--------------------------- MODULE PkiCacheProofs ---------------------------
(***************************************************************************)
(* Proofs about PkiCache for any number of getters and epochs, any size of *)
(* the cache and any backlog.  LruConsistent, NoRefetch and OpQueuedOnce   *)
(* hold each other up: a document is inserted once because it is not in    *)
(* the map while it is fetched, the epoch that is fetched stays the one    *)
(* asked for because its getter waits, and it waits because its op is      *)
(* queued once.  The inductive invariant CacheInv adds what the worker has *)
(* in hand (WorkerInv).  That no op is lost rests on it and on StopInv.    *)
(***************************************************************************)
EXTENDS PkiCache, TLAPS, SequenceTheorems

\* A leaf that names no prover is tried with each of these in turn.
USE SMTT(30), Z3T(30), ZenonT(60)

\* The worker has an op while it serves one, and a reply for it at the end.
WorkerInv ==
    /\ wop # None <=> wpc \in {"recheck", "fetch", "reply"}
    /\ wpc = "reply" => wres \in {None, gepoch[wop]}
    /\ wpc # "reply" => wres = None

\* A getter that is inside a call has an epoch.
GetterInv == \A g \in Getter : gpc[g] # "idle" => gepoch[g] \in Epoch

CacheInv == LruConsistent /\ NoRefetch /\ OpQueuedOnce /\ WorkerInv /\ GetterInv

\* LruConsistent, of a map and a list.
Consistent(d, l) ==
    /\ d \subseteq Epoch /\ l \in Seq(Epoch)
    /\ d = {l[i] : i \in 1 .. Len(l)} /\ Len(l) <= LruMaxSize
    /\ \A i, j \in 1 .. Len(l) : l[i] = l[j] => i = j

(* MoveToFront, after a hit, reorders the list and neither adds nor drops  *)
(* nor repeats an entry.                                                   *)
LEMMA MoveConsistent ==
    ASSUME NEW e \in docs, Consistent(docs, lru)
    PROVE  Consistent(docs, MoveToFront(e))
<1> DEFINE n == Len(lru)
           pos == CHOOSE i \in 1 .. n : lru[i] = e
           l == [i \in 1 .. n |-> IF i = 1 THEN e
                                  ELSE IF i <= pos THEN lru[i - 1] ELSE lru[i]]
<1>1. n \in Nat /\ \A i \in 1 .. n : lru[i] \in Epoch
  BY LenProperties DEF Consistent
<1>2. pos \in 1 .. n /\ lru[pos] = e
  <2>1. \E i \in 1 .. n : lru[i] = e
    BY DEF Consistent
  <2> QED BY <2>1
<1> HIDE DEF pos
<1>3. \A i \in 1 .. n : l[i] \in Epoch
  BY <1>1, <1>2, SMT
<1>4. l \in Seq(Epoch) /\ Len(l) = n
  BY <1>1, <1>3, SMT
<1>5. \A i \in 1 .. n : l[i] \in docs
  BY <1>1, <1>2, SMT DEF Consistent
<1>6. ASSUME NEW i \in 1 .. n PROVE \E j \in 1 .. n : l[j] = lru[i]
  <2>1. CASE i = pos
    BY <1>1, <1>2, <2>1, SMT
  <2>2. CASE i < pos
    <3>1. i + 1 \in 1 .. n /\ l[i + 1] = lru[i]
      BY <1>1, <1>2, <2>2, SMT
    <3> QED BY <3>1
  <2>3. CASE i > pos
    <3>1. l[i] = lru[i]
      BY <1>1, <1>2, <2>3, SMT
    <3> QED BY <3>1
  <2> QED BY <1>1, <1>2, <2>1, <2>2, <2>3, SMT
<1>7. ASSUME NEW i \in 1 .. n, NEW j \in 1 .. n, l[i] = l[j] PROVE i = j
  <2>1. \A a, b \in 1 .. n : lru[a] = lru[b] => a = b
    BY DEF Consistent
  <2> QED BY <1>1, <1>2, <1>7, <2>1, SMT
<1>8. docs = {l[i] : i \in 1 .. n}
  <2>1. \A x \in docs : \E i \in 1 .. n : x = lru[i]
    BY DEF Consistent
  <2> HIDE DEF l
  <2> QED BY <1>5, <1>6, <2>1
<1>9. MoveToFront(e) = l
  BY DEF MoveToFront, pos
<1> HIDE DEF l
<1> QED BY <1>4, <1>7, <1>8, <1>9 DEF Consistent

(* insertLRU of a document that is not in the map: it is in the list once, *)
(* and the entry that is dropped from a full list leaves the map.          *)
LEMMA InsertConsistent ==
    ASSUME NEW e \in Epoch \ docs, Consistent(docs, lru), insertLRU(e)
    PROVE  Consistent(docs, lru)'
<1> DEFINE n == Len(lru)
           pushed == <<e>> \o lru
           size == IF n + 1 > LruMaxSize THEN LruMaxSize ELSE n + 1
<1>1. n \in Nat /\ n <= LruMaxSize /\ LruMaxSize \in Nat \ {0}
  BY LenProperties, CacheAssumption DEF Consistent
<1>2. /\ pushed \in Seq(Epoch) /\ Len(pushed) = n + 1
      /\ pushed[1] = e /\ \A i \in 1 .. n : pushed[i + 1] = lru[i]
  <2>1. <<e>> \in Seq(Epoch) /\ Len(<<e>>) = 1 /\ <<e>>[1] = e
    OBVIOUS
  <2>2. lru \in Seq(Epoch)
    BY DEF Consistent
  <2> QED BY <1>1, <2>1, <2>2, ConcatProperties, SMT
<1>3. lru' = SubSeq(pushed, 1, size) /\ docs' = Purge(pushed)
  BY Zenon, <1>2 DEF insertLRU
<1> HIDE DEF pushed
<1>4. size \in 1 .. n + 1 /\ size <= LruMaxSize
  BY <1>1
<1>5. \A i \in 1 .. n + 1 : pushed[i] \in Epoch
  BY <1>2, LenProperties
<1> HIDE DEF size
<1>6. /\ lru' \in Seq(Epoch) /\ Len(lru') = size
      /\ \A i \in 1 .. size : lru'[i] = pushed[i]
  <2>1. \A i \in 1 .. size : pushed[i] \in Epoch
    BY <1>1, <1>4, <1>5, SMT
  <2>2. /\ SubSeq(pushed, 1, size) \in Seq(Epoch)
        /\ Len(SubSeq(pushed, 1, size)) = size
        /\ \A i \in 1 .. size : SubSeq(pushed, 1, size)[i] = pushed[i]
    BY <1>1, <1>4, <2>1, SubSeqProperties, SMT
  <2> QED BY <1>3, <2>2
<1>7. \A i, j \in 1 .. n + 1 : pushed[i] = pushed[j] => i = j
  <2>1. \A i \in 1 .. n : lru[i] # e
    BY DEF Consistent
  <2>2. \A i, j \in 1 .. n : lru[i] = lru[j] => i = j
    BY DEF Consistent
  <2>3. \A i \in 2 .. n + 1 : i - 1 \in 1 .. n /\ pushed[i] = lru[i - 1]
    BY <1>1, <1>2, SMT
  <2>4. ASSUME NEW i \in 1 .. n + 1, NEW j \in 1 .. n + 1, pushed[i] = pushed[j]
        PROVE  i = j
    <3>1. i = 1 \/ i \in 2 .. n + 1
      BY <1>1
    <3>2. j = 1 \/ j \in 2 .. n + 1
      BY <1>1
    <3>3. CASE i = 1 \/ j = 1
      BY <1>2, <2>1, <2>3, <2>4, <3>1, <3>2, <3>3
    <3>4. CASE i \in 2 .. n + 1 /\ j \in 2 .. n + 1
      <4>1. i - 1 = j - 1
        BY <2>2, <2>3, <2>4, <3>4
      <4> QED BY <1>1, <4>1
    <3> QED BY <3>1, <3>2, <3>3, <3>4
  <2> QED BY <2>4
<1>8. docs \cup {e} = {pushed[i] : i \in 1 .. n + 1}
  <2>1. \A i \in 2 .. n + 1 : i - 1 \in 1 .. n /\ pushed[i] = lru[i - 1]
    BY <1>1, <1>2, SMT
  <2>2. \A i \in 1 .. n : i + 1 \in 1 .. n + 1
    BY <1>1
  <2>3. docs = {lru[i] : i \in 1 .. n}
    BY DEF Consistent
  <2>4. \A i \in 1 .. n + 1 : i = 1 \/ i \in 2 .. n + 1
    BY <1>1
  <2>5. 1 \in 1 .. n + 1
    BY <1>1
  <2> HIDE DEF n
  <2> QED BY <1>2, <2>1, <2>2, <2>3, <2>4, <2>5
<1>9. docs' = {pushed[i] : i \in 1 .. size}
  <2>1. Head(pushed) = e
    BY <1>1, <1>2, SMT
  <2>2. docs' = {pushed[i] : i \in 1 .. n + 1} \ {pushed[i] : i \in LruMaxSize + 1 .. n + 1}
    BY <1>2, <1>3, <1>8, <2>1 DEF Purge
  <2>3. \A i \in 1 .. n + 1 : i \in 1 .. size <=> i \notin LruMaxSize + 1 .. n + 1
    BY <1>1 DEF size
  <2>4. \A i \in 1 .. size : i \in 1 .. n + 1
    BY <1>1, <1>4
  <2>5. \A i \in LruMaxSize + 1 .. n + 1 : i \in 1 .. n + 1
    BY <1>1
  <2> HIDE DEF n
  <2> QED BY <1>7, <2>2, <2>3, <2>4, <2>5
<1>10. docs' = {lru'[i] : i \in 1 .. Len(lru')}
  BY <1>6, <1>9
<1>11. \A i, j \in 1 .. Len(lru') : lru'[i] = lru'[j] => i = j
  BY <1>1, <1>4, <1>6, <1>7, SMT
<1>12. docs' \subseteq Epoch
  BY <1>1, <1>4, <1>5, <1>9, SMT
<1> QED BY <1>4, <1>6, <1>10, <1>11, <1>12 DEF Consistent

(* Initially the cache and the queue are empty.                            *)
LEMMA InitInv == Init => CacheInv
<1> SUFFICES ASSUME Init PROVE CacheInv
  OBVIOUS
<1>1. LruConsistent
  BY CacheAssumption DEF Init, LruConsistent, TypeOK
<1> QED BY <1>1 DEF Init, CacheInv, NoRefetch, OpQueuedOnce, WorkerInv, GetterInv

(* The cached documents and the list agree as LruConsistent says.          *)
LEMMA LruAsConsistent == LruConsistent <=> TypeOK /\ Consistent(docs, lru)
BY DEF LruConsistent, TypeOK, Consistent

(* cacheGet keeps map and list consistent, hit or miss.                    *)
LEMMA GetConsistent ==
    ASSUME NEW e, NEW hit \in BOOLEAN, Consistent(docs, lru), cacheGet(e, hit)
    PROVE  Consistent(docs, lru)' /\ docs' = docs
<1>1. CASE hit
  <2>1. e \in docs /\ docs' = docs /\ lru' = MoveToFront(e)
    BY <1>1 DEF cacheGet
  <2>2. Consistent(docs, MoveToFront(e))
    BY <2>1, MoveConsistent
  <2> QED BY <2>1, <2>2 DEF Consistent
<1>2. CASE ~hit
  BY <1>2 DEF cacheGet, Consistent
<1> QED BY <1>1, <1>2

\* The part of the invariant that is not about map and list.
OpInv == NoRefetch /\ OpQueuedOnce /\ WorkerInv /\ GetterInv

(* What a getter does on its own keeps the invariant: it joins the queue   *)
(* only when it has no op there.                                           *)
LEMMA GetterStep ==
    ASSUME CacheInv, NEW g \in Getter,
           Enqueue(g) \/ Return(g) \/ \E e \in Epoch : GetDoc(g, e)
    PROVE  CacheInv'
<1> USE DEF CacheInv
<1>0. TypeOK /\ Consistent(docs, lru) /\ OpInv
  BY LruAsConsistent DEF OpInv
<1>1. CASE Enqueue(g)
  <2>1. /\ fetchQueue' \in Seq(Getter) /\ Len(fetchQueue') = Len(fetchQueue) + 1
        /\ \A i \in 1 .. Len(fetchQueue) : fetchQueue'[i] = fetchQueue[i]
        /\ fetchQueue'[Len(fetchQueue) + 1] = g
    BY <1>0, <1>1, AppendProperties DEF Enqueue, TypeOK
  <2>2. Len(fetchQueue) \in Nat /\ \A i \in 1 .. Len(fetchQueue) : fetchQueue[i] \in Getter
    BY <1>0, LenProperties DEF TypeOK
  <2>3. \A i \in 1 .. Len(fetchQueue) : fetchQueue[i] # g
    BY <1>0, <1>1 DEF OpInv, OpQueuedOnce, Enqueue, GetterAt
  <2>4. TypeOK'
    BY <1>0, <1>1, <2>1 DEF TypeOK, Enqueue, GetterAt, workVars, cacheVars
  <2>5. Consistent(docs, lru)'
    BY <1>0, <1>1 DEF Consistent, Enqueue, cacheVars
  <2>6. gpc[g] = "enqueue" /\ gpc' = [gpc EXCEPT ![g] = "wait"] /\ wop # g
    BY <1>0, <1>1, CacheAssumption DEF Enqueue, GetterAt, OpInv, OpQueuedOnce
  <2>7. OpQueuedOnce'
    <3>1. \A h \in Getter : gpc'[h] = "doc" => gdoc'[h] = gepoch'[h]
      BY <1>0, <1>1, <2>6 DEF OpInv, OpQueuedOnce, Enqueue, TypeOK
    <3>2. ASSUME NEW i \in 1 .. Len(fetchQueue') PROVE gpc'[fetchQueue'[i]] = "wait"
      <4>1. i \in 1 .. Len(fetchQueue) \/ i = Len(fetchQueue) + 1
        BY <2>1, <2>2
      <4> QED BY <1>0, <2>1, <2>2, <2>6, <4>1 DEF OpInv, OpQueuedOnce, TypeOK
    <3>3. ASSUME NEW i \in 1 .. Len(fetchQueue'), NEW j \in 1 .. Len(fetchQueue'),
                 fetchQueue'[i] = fetchQueue'[j]
          PROVE  i = j
      <4>1. i \in 1 .. Len(fetchQueue) \/ i = Len(fetchQueue) + 1
        BY <2>1, <2>2
      <4>2. j \in 1 .. Len(fetchQueue) \/ j = Len(fetchQueue) + 1
        BY <2>1, <2>2
      <4> QED BY <1>0, <2>1, <2>3, <3>3, <4>1, <4>2 DEF OpInv, OpQueuedOnce
    <3>4. wop' = wop
      BY <1>1 DEF Enqueue, workVars
    <3>5. ASSUME wop # None
          PROVE  gpc'[wop] = "wait" /\ \A i \in 1 .. Len(fetchQueue') : fetchQueue'[i] # wop
      <4>1. ASSUME NEW i \in 1 .. Len(fetchQueue') PROVE fetchQueue'[i] # wop
        <5>1. i \in 1 .. Len(fetchQueue) \/ i = Len(fetchQueue) + 1
          BY <2>1, <2>2
        <5> QED BY <1>0, <2>1, <2>6, <3>5, <5>1 DEF OpInv, OpQueuedOnce
      <4> QED BY <1>0, <2>6, <3>5, <4>1 DEF OpInv, OpQueuedOnce, TypeOK
    <3> QED BY <3>1, <3>2, <3>3, <3>4, <3>5 DEF OpQueuedOnce
  <2>8. (NoRefetch /\ WorkerInv /\ GetterInv)'
    BY <1>0, <1>1, <2>6
       DEF OpInv, NoRefetch, WorkerInv, GetterInv, Enqueue, cacheVars, workVars, TypeOK
  <2> QED BY <2>4, <2>5, <2>7, <2>8, LruAsConsistent, PTL
<1>2. CASE Return(g)
  <2>1. /\ gpc[g] \in {"doc", "error", "halted"} /\ gpc' = [gpc EXCEPT ![g] = "idle"]
        /\ wop # None => wop # g
    BY <1>0, <1>2 DEF Return, OpInv, OpQueuedOnce, TypeOK
  <2>2. TypeOK'
    BY <1>0, <1>2 DEF TypeOK, Return, cacheVars, workVars
  <2>3. Consistent(docs, lru)'
    BY <1>0, <1>2 DEF Consistent, Return, cacheVars
  <2>4. OpQueuedOnce'
    BY <1>0, <1>2, <2>1, LenProperties DEF OpInv, OpQueuedOnce, Return, TypeOK, workVars
  <2>5. (NoRefetch /\ WorkerInv /\ GetterInv)'
    BY <1>0, <1>2, <2>1
       DEF OpInv, NoRefetch, WorkerInv, GetterInv, Return, cacheVars, workVars, TypeOK
  <2> QED BY <2>2, <2>3, <2>4, <2>5, LruAsConsistent, PTL
<1>3. ASSUME NEW e \in Epoch, GetDoc(g, e) PROVE CacheInv'
  <2>1. /\ gpc[g] = "idle" /\ gepoch' = [gepoch EXCEPT ![g] = e]
        /\ \/ gpc' = [gpc EXCEPT ![g] = "doc"] /\ gdoc' = [gdoc EXCEPT ![g] = e]
           \/ gpc' = [gpc EXCEPT ![g] = "enqueue"] /\ gdoc' = gdoc
        /\ wop # None => wop # g
    BY Zenon, <1>0, <1>3 DEF GetDoc, GetterAt, OpInv, OpQueuedOnce
  <2>2. Consistent(docs, lru)' /\ docs' = docs
    BY Zenon, <1>0, <1>3, GetConsistent DEF GetDoc
  <2>3. TypeOK'
    <3>1. docs' \subseteq Epoch /\ lru' \in Seq(Epoch)
      BY <2>2 DEF Consistent
    <3>2. fetchQueue' = fetchQueue /\ wpc' = wpc /\ wop' = wop /\ wres' = wres /\ hpc' = hpc
      BY <1>3 DEF GetDoc, workVars
    <3> QED BY ZenonT(60), <1>0, <2>1, <3>1, <3>2 DEF TypeOK
  <2>4. OpQueuedOnce'
    BY <1>0, <1>3, <2>1, LenProperties DEF OpInv, OpQueuedOnce, GetDoc, TypeOK, workVars
  <2>5. (NoRefetch /\ WorkerInv /\ GetterInv)'
    BY <1>0, <1>3, <2>1, <2>2
       DEF OpInv, NoRefetch, WorkerInv, GetterInv, GetDoc, workVars, TypeOK
  <2> QED BY <2>2, <2>3, <2>4, <2>5, LruAsConsistent, PTL
<1> QED BY <1>1, <1>2, <1>3

\* The queue without its first op, as the worker and Halt take it.
Dequeued == fetchQueue # <<>> /\ fetchQueue' = Tail(fetchQueue)

(* Taking the first op: its getter waits, and has no other op in the rest. *)
LEMMA TakeFirst ==
    ASSUME TypeOK, OpQueuedOnce, Dequeued
    PROVE  /\ Head(fetchQueue) \in Getter /\ gpc[Head(fetchQueue)] = "wait"
           /\ fetchQueue' \in Seq(Getter)
           /\ \A i \in 1 .. Len(fetchQueue') :
                 /\ fetchQueue'[i] \in Getter /\ gpc[fetchQueue'[i]] = "wait"
                 /\ fetchQueue'[i] # Head(fetchQueue)
                 /\ wop # None => fetchQueue'[i] # wop
           /\ \A i, j \in 1 .. Len(fetchQueue') : fetchQueue'[i] = fetchQueue'[j] => i = j
           /\ wop # None => Head(fetchQueue) # wop
<1> DEFINE n == Len(fetchQueue)
<1>1. /\ n \in Nat \ {0} /\ Head(fetchQueue) = fetchQueue[1]
      /\ \A i \in 1 .. n : fetchQueue[i] \in Getter
  BY EmptySeq, LenProperties DEF TypeOK, Dequeued
<1>2. /\ fetchQueue' \in Seq(Getter) /\ Len(fetchQueue') = n - 1
      /\ \A i \in 1 .. n - 1 : fetchQueue'[i] = fetchQueue[i + 1]
  BY HeadTailProperties DEF TypeOK, Dequeued
<1>3. \A i \in 1 .. n - 1 : i + 1 \in 1 .. n /\ i + 1 # 1
  BY <1>1
<1>4. 1 \in 1 .. n
  BY <1>1
<1>5. /\ \A i \in 1 .. n : gpc[fetchQueue[i]] = "wait"
      /\ \A i \in 1 .. n, j \in 1 .. n : fetchQueue[i] = fetchQueue[j] => i = j
      /\ wop # None => \A i \in 1 .. n : fetchQueue[i] # wop
  BY DEF OpQueuedOnce
<1>6. ASSUME NEW i \in 1 .. n - 1, NEW j \in 1 .. n - 1, fetchQueue'[i] = fetchQueue'[j]
      PROVE  i = j
  <2>1. i + 1 = j + 1
    BY <1>2, <1>3, <1>5, <1>6
  <2> QED BY <1>1, <2>1
<1> HIDE DEF n
<1> QED BY <1>1, <1>2, <1>3, <1>4, <1>5, <1>6

(* The worker serves the op it took and no other: its getter waits for the *)
(* answer, and a document is inserted only if it is not cached.            *)
LEMMA WorkerStepInv == ASSUME CacheInv, WorkerStep PROVE CacheInv'
<1> USE DEF CacheInv
<1>0. TypeOK /\ Consistent(docs, lru) /\ OpInv
  BY LruAsConsistent DEF OpInv
<1>1. CASE TakeOp
  <2>1. /\ Dequeued /\ wpc = "recv" /\ wpc' = "recheck" /\ wop = None
        /\ wop' = Head(fetchQueue) /\ wres' = wres
        /\ UNCHANGED <<docs, lru, gpc, gepoch, gdoc, hpc>>
    BY <1>0, <1>1 DEF TakeOp, RestOfQueue, Dequeued, cacheVars, getVars, OpInv, WorkerInv
  <2>2. wop' \in Getter /\ wop' # None
    BY <1>0, <2>1, TakeFirst, CacheAssumption DEF OpInv
  <2>3. TypeOK'
    BY <1>0, <2>1, <2>2, TakeFirst DEF TypeOK, OpInv
  <2>4. Consistent(docs, lru)'
    BY <1>0, <2>1 DEF Consistent
  <2>5. OpQueuedOnce'
    <3>1. \A h \in Getter : gpc'[h] = "doc" => gdoc'[h] = gepoch'[h]
      BY <1>0, <2>1 DEF OpInv, OpQueuedOnce
    <3> QED BY <1>0, <2>1, <3>1, TakeFirst DEF OpInv, OpQueuedOnce
  <2>6. (NoRefetch /\ WorkerInv /\ GetterInv)'
    BY <1>0, <2>1, <2>2 DEF OpInv, NoRefetch, WorkerInv, GetterInv
  <2> QED BY <2>3, <2>4, <2>5, <2>6, LruAsConsistent, PTL
<1>2. CASE RecheckCache
  <2>1. wop \in Getter /\ gpc[wop] = "wait" /\ gepoch[wop] \in Epoch
    BY <1>0, <1>2 DEF RecheckCache, OpInv, WorkerInv, OpQueuedOnce, GetterInv, TypeOK
  <2>2. UNCHANGED <<fetchQueue, gpc, gepoch, gdoc, wop, hpc>>
    BY <1>2 DEF RecheckCache, getVars
  <2>3. PICK hit \in BOOLEAN :
           /\ cacheGet(gepoch[wop], hit)
           /\ hit => wpc' = "reply" /\ wres' = gepoch[wop]
           /\ ~hit => wpc' = "fetch" /\ wres' = wres
    BY Zenon, <1>2 DEF RecheckCache, Recheck
  <2>4. PICK x \in Epoch : x = gepoch[wop]
    BY <2>1
  <2>5. Consistent(docs, lru)' /\ docs' = docs
    BY <1>0, <2>3, <2>4, GetConsistent
  <2>6. wres = None /\ (~hit => gepoch[wop] \notin docs)
    BY <1>0, <1>2, <2>3 DEF RecheckCache, OpInv, WorkerInv, cacheGet
  <2>7. TypeOK'
    <3>1. docs' \subseteq Epoch /\ lru' \in Seq(Epoch)
      BY <2>5 DEF Consistent
    <3> QED BY <1>0, <2>1, <2>2, <2>3, <3>1 DEF TypeOK
  <2>8. OpQueuedOnce'
    BY <1>0, <2>2 DEF OpInv, OpQueuedOnce
  <2>9. (NoRefetch /\ WorkerInv /\ GetterInv)'
    BY <1>0, <1>2, <2>1, <2>2, <2>3, <2>5, <2>6, CacheAssumption
       DEF OpInv, NoRefetch, WorkerInv, GetterInv, RecheckCache
  <2> QED BY <2>5, <2>7, <2>8, <2>9, LruAsConsistent, PTL
<1>3. CASE FetchDoc
  <2>1. wop \in Getter /\ wop # None /\ gepoch[wop] \in Epoch \ docs
    BY <1>0, <1>3 DEF FetchDoc, OpInv, WorkerInv, OpQueuedOnce, GetterInv, NoRefetch, TypeOK
  <2>2. wpc' = "reply" /\ UNCHANGED <<fetchQueue, gpc, gepoch, gdoc, wop, hpc>>
    BY <1>3 DEF FetchDoc, getVars
  <2>3. PICK x \in Epoch \ docs : x = gepoch[wop]
    BY <2>1
  <2>4. \/ wres' = None /\ UNCHANGED <<docs, lru>>
        \/ wres' = gepoch[wop] /\ insertLRU(x)
    BY <1>3, <2>3 DEF FetchDoc, cacheVars
  <2>5. Consistent(docs, lru)'
    <3>1. CASE UNCHANGED <<docs, lru>>
      BY <1>0, <3>1 DEF Consistent
    <3>2. CASE insertLRU(x)
      BY <1>0, <3>2, InsertConsistent
    <3> QED BY <2>4, <3>1, <3>2
  <2>6. TypeOK'
    <3>1. docs' \subseteq Epoch /\ lru' \in Seq(Epoch)
      BY <2>5 DEF Consistent
    <3> QED BY <1>0, <2>1, <2>2, <2>4, <3>1 DEF TypeOK
  <2>7. OpQueuedOnce'
    BY <1>0, <2>2 DEF OpInv, OpQueuedOnce
  <2>8. (NoRefetch /\ WorkerInv /\ GetterInv)'
    BY <1>0, <2>1, <2>2, <2>4 DEF OpInv, NoRefetch, WorkerInv, GetterInv
  <2> QED BY <2>5, <2>6, <2>7, <2>8, LruAsConsistent, PTL
<1>4. CASE Reply
  <2>1. /\ wop \in Getter /\ gpc[wop] = "wait" /\ wres \in {None, gepoch[wop]}
        /\ gepoch[wop] \in Epoch
    BY <1>0, <1>4 DEF Reply, OpInv, WorkerInv, OpQueuedOnce, GetterInv, TypeOK
  <2>2. /\ wpc' = "recv" /\ wop' = None /\ wres' = None
        /\ gpc' = [gpc EXCEPT ![wop] = IF wres = None THEN "error" ELSE "doc"]
        /\ gdoc' = [gdoc EXCEPT ![wop] = wres]
        /\ UNCHANGED <<docs, lru, fetchQueue, gepoch, hpc>>
    BY <1>4 DEF Reply, ReplyTo, ReplyDoc, cacheVars
  <2>3. \A i \in 1 .. Len(fetchQueue) : fetchQueue[i] # wop /\ fetchQueue[i] \in Getter
    BY <1>0, <2>1, LenProperties, CacheAssumption DEF OpInv, OpQueuedOnce, TypeOK
  <2>4. TypeOK'
    BY <1>0, <2>1, <2>2 DEF TypeOK
  <2>5. Consistent(docs, lru)'
    BY <1>0, <2>2 DEF Consistent
  <2>6. OpQueuedOnce'
    <3>1. \A h \in Getter : gpc'[h] = "doc" => gdoc'[h] = gepoch'[h]
      BY <1>0, <2>1, <2>2 DEF OpInv, OpQueuedOnce, TypeOK
    <3> QED BY <1>0, <2>1, <2>2, <2>3, <3>1 DEF OpInv, OpQueuedOnce, TypeOK
  <2>7. (NoRefetch /\ WorkerInv /\ GetterInv)'
    BY <1>0, <2>1, <2>2 DEF OpInv, NoRefetch, WorkerInv, GetterInv, TypeOK
  <2> QED BY <2>4, <2>5, <2>6, <2>7, LruAsConsistent, PTL
<1> QED BY <1>1, <1>2, <1>3, <1>4 DEF WorkerStep

(* Halt, its wait and its drain touch neither the cache nor the op in the  *)
(* worker's hand.                                                          *)
LEMMA HaltStepInv == ASSUME CacheInv, Halt \/ HaltStep PROVE CacheInv'
<1> USE DEF CacheInv
<1>0. TypeOK /\ Consistent(docs, lru) /\ OpInv
  BY LruAsConsistent DEF OpInv
<1>1. UNCHANGED <<docs, lru, gepoch, gdoc, wop, wres>>
  BY DEF Halt, HaltStep, StopWorker, HaltWaited, Drain, cacheVars, getVars, workVars
<1>2. Consistent(docs, lru)'
  BY <1>0, <1>1 DEF Consistent
<1>3. CASE Halt \/ StopWorker \/ HaltWaited
  <2>1. /\ UNCHANGED <<fetchQueue, gpc>>
        /\ wpc' = wpc \/ (wpc = "recv" /\ wpc' = "stopped")
        /\ hpc' \in {"no", "halting", "draining", "done"}
    BY <1>0, <1>3
       DEF Halt, StopWorker, HaltWaited, getVars, workVars, TypeOK
  <2>2. TypeOK'
    BY <1>0, <1>1, <2>1 DEF TypeOK
  <2>3. (NoRefetch /\ OpQueuedOnce /\ WorkerInv /\ GetterInv)'
    BY <1>0, <1>1, <2>1 DEF OpInv, NoRefetch, OpQueuedOnce, WorkerInv, GetterInv
  <2> QED BY <1>2, <2>2, <2>3, LruAsConsistent, PTL
<1>4. CASE Drain
  <2>1. wpc' = wpc
    BY <1>4 DEF Drain, workVars
  <2>2. CASE fetchQueue # <<>>
    <3>1. /\ Dequeued /\ gpc' = [gpc EXCEPT ![Head(fetchQueue)] = "halted"]
          /\ hpc' = hpc
      BY <1>4, <2>2 DEF Drain, Dequeued
    <3>2. TypeOK'
      BY <1>0, <1>1, <2>1, <3>1, TakeFirst DEF TypeOK, OpInv
    <3>3. OpQueuedOnce'
      <4>1. \A h \in Getter : gpc'[h] = "doc" => gdoc'[h] = gepoch'[h]
        BY <1>0, <1>1, <3>1 DEF OpInv, OpQueuedOnce, TypeOK
      <4>2. \A i \in 1 .. Len(fetchQueue') : gpc'[fetchQueue'[i]] = "wait"
        BY <1>0, <3>1, TakeFirst DEF OpInv, TypeOK
      <4>3. ASSUME wop # None
            PROVE  gpc'[wop] = "wait" /\ \A i \in 1 .. Len(fetchQueue') : fetchQueue'[i] # wop
        BY <1>0, <3>1, <4>3, TakeFirst DEF OpInv, OpQueuedOnce, TypeOK
      <4> QED BY <1>0, <1>1, <3>1, <4>1, <4>2, <4>3, TakeFirst DEF OpInv, OpQueuedOnce
    <3>4. (NoRefetch /\ WorkerInv /\ GetterInv)'
      BY <1>0, <1>1, <2>1, <3>1, TakeFirst
         DEF OpInv, NoRefetch, WorkerInv, GetterInv, TypeOK
    <3> QED BY <1>2, <3>2, <3>3, <3>4, LruAsConsistent, PTL
  <2>3. CASE fetchQueue = <<>>
    <3>1. UNCHANGED <<fetchQueue, gpc>> /\ hpc' = "done"
      BY <1>4, <2>3 DEF Drain
    <3>2. TypeOK'
      BY <1>0, <1>1, <2>1, <3>1 DEF TypeOK
    <3>3. (NoRefetch /\ OpQueuedOnce /\ WorkerInv /\ GetterInv)'
      BY <1>0, <1>1, <2>1, <3>1 DEF OpInv, NoRefetch, OpQueuedOnce, WorkerInv, GetterInv
    <3> QED BY <1>2, <3>2, <3>3, LruAsConsistent, PTL
  <2> QED BY <2>2, <2>3
<1> QED BY <1>3, <1>4 DEF HaltStep

(* CacheInv is inductive.                                                  *)
THEOREM CacheInvariant == Spec => []CacheInv
<1>1. CacheInv /\ [Next]_vars => CacheInv'
  <2> SUFFICES ASSUME CacheInv, [Next]_vars PROVE CacheInv'
    OBVIOUS
  <2>1. CASE Next
    BY <2>1, GetterStep, WorkerStepInv, HaltStepInv DEF Next
  <2>2. CASE UNCHANGED vars
    BY <2>2
       DEF vars, cacheVars, getVars, workVars, CacheInv, LruConsistent, TypeOK,
           NoRefetch, OpQueuedOnce, WorkerInv, GetterInv
  <2> QED BY <2>1, <2>2
<1> QED BY InitInv, <1>1, PTL DEF Spec

(* Map and list of the cache describe the same documents, each once and    *)
(* within the limit, for every size of the cache (pkiclient/cache.go,      *)
(* cacheGet and insertLRU).                                                *)
THEOREM LruCorrect == Spec => []LruConsistent
<1>1. CacheInv => LruConsistent
  BY DEF CacheInv
<1> QED BY <1>1, CacheInvariant, PTL

(* The worker never fetches a document that is in the cache, however many  *)
(* getters have asked for it meanwhile.                                    *)
THEOREM NeverRefetched == Spec => []NoRefetch
<1>1. CacheInv => NoRefetch
  BY DEF CacheInv
<1> QED BY <1>1, CacheInvariant, PTL

-----------------------------------------------------------------------------
(* No op is lost.                                                          *)

\* Halt empties the queue only once the worker is gone.
StopInv == (wpc = "stopped" => hpc # "no") /\ (hpc \in {"draining", "done"} => wpc = "stopped")

(* Taking the head of a queue leaves the other ops in it.                  *)
LEMMA TailHolds ==
    ASSUME NEW q \in Seq(Getter), q # <<>>
    PROVE  \A h : Holds(q, h) => h = Head(q) \/ Holds(Tail(q), h)
<1> SUFFICES ASSUME NEW h, NEW i \in 1 .. Len(q), q[i] = h
             PROVE  h = Head(q) \/ \E j \in 1 .. Len(Tail(q)) : Tail(q)[j] = h
  BY DEF Holds
<1>1. /\ Head(q) = q[1] /\ Len(q) \in Nat /\ Len(Tail(q)) = Len(q) - 1
      /\ \A j \in 1 .. Len(Tail(q)) : Tail(q)[j] = q[j + 1]
  BY HeadTailProperties, LenProperties
<1>2. CASE i = 1
  BY <1>1, <1>2
<1>3. CASE i # 1
  <2>1. i - 1 \in 1 .. Len(Tail(q)) /\ Tail(q)[i - 1] = q[i]
    BY <1>1, <1>3
  <2> QED BY <2>1
<1> QED BY <1>2, <1>3

(* Adding an op to a queue leaves the others in it.                        *)
LEMMA AppendHolds ==
    ASSUME NEW q \in Seq(Getter), NEW g \in Getter
    PROVE  \A h : Holds(q, h) \/ h = g => Holds(Append(q, g), h)
<1>1. /\ Len(q) \in Nat /\ Len(Append(q, g)) = Len(q) + 1
      /\ \A i \in 1 .. Len(q) : Append(q, g)[i] = q[i]
      /\ Append(q, g)[Len(q) + 1] = g
  BY AppendProperties, LenProperties
<1>2. 1 .. Len(q) \subseteq 1 .. Len(q) + 1 /\ Len(q) + 1 \in 1 .. Len(q) + 1
  BY <1>1
<1> QED BY Zenon, <1>1, <1>2 DEF Holds

(* A getter that waits keeps its op, whoever takes the next step: the      *)
(* worker answers the op that it drops, and so does Halt.                  *)
LEMMA OpKept ==
    ASSUME CacheInv, OpNotLost, StopInv, [Next]_vars
    PROVE  OpNotLost' /\ StopInv'
<1> DEFINE Kept == OpNotLost' /\ StopInv'
<1> USE DEF OpNotLost, StopInv
<1>0. TypeOK /\ WorkerInv /\ None \notin Getter
  BY CacheAssumption, LruAsConsistent DEF CacheInv
<1>1. ASSUME NEW g \in Getter, Enqueue(g) PROVE Kept
  <2>1. /\ gpc' = [gpc EXCEPT ![g] = "wait"] /\ fetchQueue' = Append(fetchQueue, g)
        /\ UNCHANGED <<wop, wpc, hpc>>
    BY <1>1 DEF Enqueue, GetterAt, workVars
  <2>2. \A h : Holds(fetchQueue, h) \/ h = g => Holds(fetchQueue', h)
    BY <1>0, <2>1, AppendHolds DEF TypeOK
  <2> QED BY <1>0, <2>1, <2>2 DEF TypeOK
<1>2. ASSUME NEW g \in Getter, Return(g) \/ (\E e \in Epoch : GetDoc(g, e))
      PROVE  Kept
  <2>1. /\ \E to : to # "wait" /\ gpc' = [gpc EXCEPT ![g] = to]
        /\ UNCHANGED <<fetchQueue, wop, wpc, hpc>>
    BY Zenon, <1>2 DEF Return, GetDoc, GetterAt, workVars
  <2> QED BY <1>0, <2>1 DEF TypeOK
<1>3. CASE TakeOp
  <2>1. /\ fetchQueue # <<>> /\ fetchQueue' = Tail(fetchQueue) /\ wop' = Head(fetchQueue)
        /\ wpc = "recv" /\ wpc' = "recheck" /\ UNCHANGED <<gpc, hpc>>
    BY <1>3 DEF TakeOp, RestOfQueue, getVars
  <2>2. wop = None
    BY <1>0, <2>1 DEF WorkerInv
  <2>3. \A h : Holds(fetchQueue, h) => h = wop' \/ Holds(fetchQueue', h)
    BY <1>0, <2>1, TailHolds DEF TypeOK
  <2> QED BY <1>0, <2>1, <2>2, <2>3
<1>4. CASE RecheckCache \/ FetchDoc
  <2>1. UNCHANGED <<fetchQueue, gpc, wop, hpc>> /\ wpc \in {"recheck", "fetch"}
        /\ wpc' \in {"fetch", "reply"}
    BY Zenon, <1>4 DEF RecheckCache, Recheck, FetchDoc, getVars
  <2> QED BY <2>1
<1>5. CASE Reply
  <2>1. /\ gpc' = [gpc EXCEPT ![wop] = "error"] \/ gpc' = [gpc EXCEPT ![wop] = "doc"]
        /\ wop' = None /\ UNCHANGED <<fetchQueue, hpc>> /\ wpc = "reply" /\ wpc' = "recv"
    BY Zenon, <1>5 DEF Reply, ReplyTo
  <2> QED BY <1>0, <2>1 DEF TypeOK
<1>6. CASE StopWorker \/ HaltWaited \/ Halt
  <2>1. /\ UNCHANGED <<fetchQueue, gpc, wop>>
        /\ \/ hpc = "halting" /\ wpc' = "stopped" /\ hpc' = hpc
           \/ hpc = "halting" /\ wpc = "stopped" /\ wpc' = wpc /\ hpc' = "draining"
           \/ hpc = "no" /\ wpc' = wpc /\ hpc' = "halting"
    BY Zenon, <1>6 DEF StopWorker, HaltWaited, WorkerStopped, Halt, getVars, workVars
  <2> QED BY <2>1
<1>7. CASE Drain
  <2>1. UNCHANGED <<wop, wpc>> /\ hpc = "draining" /\ hpc' \in {"draining", "done"}
    BY <1>7 DEF Drain, workVars
  <2>2. CASE fetchQueue = <<>>
    BY <1>7, <2>1, <2>2 DEF Drain
  <2>3. CASE fetchQueue # <<>>
    <3>1. /\ fetchQueue' = Tail(fetchQueue)
          /\ gpc' = [gpc EXCEPT ![Head(fetchQueue)] = "halted"]
      BY <1>7, <2>3 DEF Drain
    <3>2. \A h : Holds(fetchQueue, h) => h = Head(fetchQueue) \/ Holds(fetchQueue', h)
      BY <1>0, <2>3, <3>1, TailHolds DEF TypeOK
    <3> QED BY <1>0, <2>1, <3>1, <3>2 DEF TypeOK
  <2> QED BY <2>2, <2>3
<1>8. CASE UNCHANGED vars
  BY <1>8 DEF vars, getVars, workVars
<1> QED BY <1>1, <1>2, <1>3, <1>4, <1>5, <1>6, <1>7, <1>8 DEF Next, WorkerStep, HaltStep

(* OpNotLost and StopInv are kept along with CacheInv.                     *)
THEOREM OpInvariant == Spec => []OpNotLost /\ []StopInv
<1>1. Init => OpNotLost /\ StopInv
  BY DEF Init, OpNotLost, StopInv
<1>2. CacheInv /\ OpNotLost /\ StopInv /\ [Next]_vars => OpNotLost' /\ StopInv'
  BY OpKept
<1> QED BY <1>1, <1>2, CacheInvariant, PTL DEF Spec

(* Every op is queued once, its getter waits until the worker or Halt has  *)
(* answered, a document goes only to a getter that asked for it, and no op *)
(* is lost while its getter waits.                                         *)
THEOREM OpsAwaited == Spec => []OpAwaited
<1>1. CacheInv /\ OpNotLost => OpAwaited
  BY DEF CacheInv, OpAwaited
<1> QED BY <1>1, CacheInvariant, OpInvariant, PTL

\* The worker is serving an op, or there is one for it to take.
WorkerCan == wpc \in {"recheck", "fetch", "reply"} \/ (wpc = "recv" /\ fetchQueue # <<>>)

\* The worker is gone and Halt, which waited for it, empties the queue.
HaltCan == wpc = "stopped" /\ hpc \in {"halting", "draining"}

\* Until Halt has returned, a getter that waits for its answer, or for room
\* in the queue, has somebody who can go on.
GettersServed ==
    hpc # "done" =>
        \A g \in Getter :
            /\ gpc[g] = "wait" => WorkerCan \/ HaltCan
            /\ gpc[g] = "enqueue" =>
                  Len(fetchQueue) < FetchBacklog \/ WorkerCan \/ HaltCan

(* No GetDoc is stranded before Halt has returned, for any number of       *)
(* getters and every backlog: a call that waits for its answer, or for     *)
(* room in fetchQueue, has the worker or Halt at work (pkiclient/cache.go, *)
(* GetDoc, worker and Halt).                                               *)
THEOREM NobodyStranded == Spec => []GettersServed
<1>1. CacheInv /\ OpNotLost /\ StopInv => GettersServed
  <2> SUFFICES ASSUME CacheInv, OpNotLost, StopInv, hpc # "done", NEW g \in Getter
               PROVE  /\ gpc[g] = "wait" => WorkerCan \/ HaltCan
                      /\ gpc[g] = "enqueue" =>
                            Len(fetchQueue) < FetchBacklog \/ WorkerCan \/ HaltCan
    BY Zenon DEF GettersServed
  <2>0. TypeOK /\ WorkerInv /\ None \notin Getter /\ FetchBacklog \in Nat \ {0}
    BY CacheAssumption, LruAsConsistent DEF CacheInv
  <2>1. wpc = "stopped" => HaltCan
    BY <2>0 DEF StopInv, HaltCan, TypeOK
  <2>2. fetchQueue # <<>> => WorkerCan \/ HaltCan
    BY <2>0, <2>1 DEF WorkerCan, TypeOK
  <2>3. gpc[g] = "wait" => fetchQueue # <<>> \/ wop # None
    BY <2>0 DEF OpNotLost, Holds, TypeOK
  <2>4. wop # None => WorkerCan
    BY <2>0 DEF WorkerInv, WorkerCan
  <2>5. fetchQueue = <<>> => Len(fetchQueue) < FetchBacklog
    BY <2>0
  <2> QED BY <2>2, <2>3, <2>4, <2>5
<1> QED BY <1>1, CacheInvariant, OpInvariant, PTL
=============================================================================
