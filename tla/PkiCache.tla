------------------------------ MODULE PkiCache ------------------------------
(***************************************************************************)
(* pkiclient/cache.go, the documents: the callers of GetDoc, the worker    *)
(* that fetches for them one at a time, and Halt.  cacheGet and insertLRU  *)
(* are one step each, under the mutex.  PKIClient.GetDoc returns only a    *)
(* document of the epoch asked for, so a document is its epoch.            *)
(***************************************************************************)
EXTENDS Naturals, Sequences

CONSTANTS
    Getter,         \* the goroutines that call GetDoc
    Epoch,
    None,
    LruMaxSize, FetchBacklog,
    MayHalt

ASSUME CacheAssumption ==
    /\ None \notin Getter \cup Epoch /\ MayHalt \in BOOLEAN
    /\ LruMaxSize \in Nat \ {0} /\ FetchBacklog \in Nat \ {0}

VARIABLES
    docs,           \* the epochs in the map
    lru,            \* the list, most recently used first
    fetchQueue,     \* the getters whose fetchOp is in the channel
    gpc, gepoch,    \* each getter: where it is, the epoch it asked for
    gdoc,           \* each getter: the document it was given
    wpc, wop, wres, \* the worker: where it is, its op, the reply for it
    hpc             \* Halt

cacheVars == <<docs, lru>>
getVars == <<gpc, gepoch, gdoc>>
workVars == <<wpc, wop, wres>>
vars == <<cacheVars, fetchQueue, getVars, workVars, hpc>>

Init ==
    /\ docs = {} /\ lru = <<>> /\ fetchQueue = <<>>
    /\ gpc = [g \in Getter |-> "idle"] /\ gepoch = [g \in Getter |-> None]
    /\ gdoc = [g \in Getter |-> None]
    /\ wpc = "recv" /\ wop = None /\ wres = None /\ hpc = "no"

MoveToFront(e) ==
    LET pos == CHOOSE i \in 1 .. Len(lru) : lru[i] = e
    IN [i \in 1 .. Len(lru) |-> IF i = 1 THEN e
                                ELSE IF i <= pos THEN lru[i - 1] ELSE lru[i]]

\* cacheGet: hit says whether e is in the map.
cacheGet(e, hit) ==
    /\ hit <=> e \in docs
    /\ lru' = IF hit THEN MoveToFront(e) ELSE lru
    /\ UNCHANGED docs

\* Mutant: what the list drops stays in the map.
PurgeKeeps(pushed) == docs \cup {Head(pushed)}

\* The map once the entries past the limit are purged.
Purge(pushed) ==
    (docs \cup {Head(pushed)})
        \ {pushed[i] : i \in LruMaxSize + 1 .. Len(pushed)}

insertLRU(e) ==
    LET pushed == <<e>> \o lru
        size == IF Len(pushed) > LruMaxSize THEN LruMaxSize ELSE Len(pushed)
    IN lru' = SubSeq(pushed, 1, size) /\ docs' = Purge(pushed)
-----------------------------------------------------------------------------
(* GetDoc.                                                                 *)

GetterAt(g, from, to) == gpc[g] = from /\ gpc' = [gpc EXCEPT ![g] = to]

GetDoc(g, e) ==
    /\ \/ GetterAt(g, "idle", "doc") /\ cacheGet(e, TRUE)
          /\ gdoc' = [gdoc EXCEPT ![g] = e]
       \/ GetterAt(g, "idle", "enqueue") /\ cacheGet(e, FALSE)
          /\ UNCHANGED gdoc
    /\ gepoch' = [gepoch EXCEPT ![g] = e]
    /\ UNCHANGED <<fetchQueue, workVars, hpc>>

\* c.fetchQueue <- op
Enqueue(g) ==
    /\ GetterAt(g, "enqueue", "wait") /\ Len(fetchQueue) < FetchBacklog
    /\ fetchQueue' = Append(fetchQueue, g)
    /\ UNCHANGED <<cacheVars, gepoch, gdoc, workVars, hpc>>

\* The result goes to the caller.
Return(g) ==
    /\ gpc[g] \in {"doc", "error", "halted"} /\ gpc' = [gpc EXCEPT ![g] = "idle"]
    /\ gepoch' = [gepoch EXCEPT ![g] = None] /\ gdoc' = [gdoc EXCEPT ![g] = None]
    /\ UNCHANGED <<cacheVars, fetchQueue, workVars, hpc>>
-----------------------------------------------------------------------------
(* The worker.                                                             *)

RestOfQueue == Tail(fetchQueue)

TakeOp ==
    /\ wpc = "recv" /\ fetchQueue # <<>>
    /\ wpc' = "recheck" /\ wop' = Head(fetchQueue) /\ fetchQueue' = RestOfQueue
    /\ UNCHANGED <<cacheVars, getVars, wres, hpc>>

\* Mutant: the cache is not consulted again.
RecheckSkipped == wpc' = "fetch" /\ UNCHANGED <<cacheVars, wres>>

\* The document may have come in while the op was in the queue.
Recheck ==
    \/ cacheGet(gepoch[wop], TRUE) /\ wpc' = "reply" /\ wres' = gepoch[wop]
    \/ cacheGet(gepoch[wop], FALSE) /\ wpc' = "fetch" /\ UNCHANGED wres

RecheckCache ==
    /\ wpc = "recheck" /\ Recheck
    /\ UNCHANGED <<fetchQueue, getVars, wop, hpc>>

\* impl.GetDoc, and insertLRU if it succeeds.
FetchDoc ==
    /\ wpc = "fetch" /\ wpc' = "reply"
    /\ \/ wres' = None /\ UNCHANGED cacheVars
       \/ wres' = gepoch[wop] /\ insertLRU(gepoch[wop])
    /\ UNCHANGED <<fetchQueue, getVars, wop, hpc>>

\* Mutant: an error is not passed on.
ReplyToSuccess == IF wres = None THEN gpc ELSE [gpc EXCEPT ![wop] = "doc"]

ReplyTo == [gpc EXCEPT ![wop] = IF wres = None THEN "error" ELSE "doc"]

\* Mutant: the reply carries the last document of the list.
ReplyBack == [gdoc EXCEPT ![wop] = IF lru = <<>> THEN None ELSE lru[Len(lru)]]

ReplyDoc == [gdoc EXCEPT ![wop] = wres]

\* op.doneCh <- the entry or the error, a rendezvous with the getter.
Reply ==
    /\ wpc = "reply" /\ wpc' = "recv"
    /\ gpc' = ReplyTo /\ gdoc' = ReplyDoc /\ wop' = None /\ wres' = None
    /\ UNCHANGED <<cacheVars, fetchQueue, gepoch, hpc>>

StopWorker ==
    /\ wpc = "recv" /\ hpc = "halting" /\ wpc' = "stopped"
    /\ UNCHANGED <<cacheVars, fetchQueue, getVars, wop, wres, hpc>>
-----------------------------------------------------------------------------
(* Halt: close HaltCh, wait for the worker, then clean out fetchQueue.     *)

Halt ==
    /\ MayHalt /\ hpc = "no" /\ hpc' = "halting"
    /\ UNCHANGED <<cacheVars, fetchQueue, getVars, workVars>>

\* Worker.Halt waits for the worker.
WorkerStopped == wpc = "stopped"

HaltWaited ==
    /\ hpc = "halting" /\ WorkerStopped /\ hpc' = "draining"
    /\ UNCHANGED <<cacheVars, fetchQueue, getVars, workVars>>

Drain ==
    /\ hpc = "draining"
    /\ \/ /\ fetchQueue # <<>> /\ fetchQueue' = Tail(fetchQueue)
          /\ gpc' = [gpc EXCEPT ![Head(fetchQueue)] = "halted"]
          /\ UNCHANGED hpc
       \/ fetchQueue = <<>> /\ hpc' = "done" /\ UNCHANGED <<fetchQueue, gpc>>
    /\ UNCHANGED <<cacheVars, gepoch, gdoc, workVars>>

WorkerStep == TakeOp \/ RecheckCache \/ FetchDoc \/ Reply
HaltStep == StopWorker \/ HaltWaited \/ Drain
Next == \/ WorkerStep \/ Halt \/ HaltStep
        \/ \E g \in Getter : Enqueue(g) \/ Return(g) \/ \E e \in Epoch : GetDoc(g, e)

Spec == Init /\ [][Next]_vars

(* Fairness: the worker and Halt run, the PKI answers, and a goroutine     *)
(* that waits to send on a channel gets its turn.                          *)
FairSpec == /\ Spec /\ WF_vars(WorkerStep) /\ SF_vars(StopWorker) /\ WF_vars(HaltStep)
            /\ \A g \in Getter : SF_vars(Enqueue(g))
-----------------------------------------------------------------------------
(* Every variable of the cache holds a value of its kind.                  *)
TypeOK ==
    /\ docs \subseteq Epoch /\ lru \in Seq(Epoch) /\ fetchQueue \in Seq(Getter)
    /\ gpc \in [Getter -> {"idle", "enqueue", "wait", "doc", "error", "halted"}]
    /\ gepoch \in [Getter -> Epoch \cup {None}] /\ gdoc \in [Getter -> Epoch \cup {None}]
    /\ wpc \in {"recv", "recheck", "fetch", "reply", "stopped"}
    /\ wop \in Getter \cup {None} /\ wres \in Epoch \cup {None}
    /\ hpc \in {"no", "halting", "draining", "done"}

(* Map and list describe the same documents, each once and within the      *)
(* limit: what the list purges leaves the map and nothing else does.       *)
LruConsistent ==
    /\ TypeOK
    /\ docs = {lru[i] : i \in 1 .. Len(lru)} /\ Len(lru) <= LruMaxSize
    /\ \A i, j \in 1 .. Len(lru) : lru[i] = lru[j] => i = j

(* No document is fetched while it is in the cache: getters that asked for *)
(* it while it was being fetched are served from the cache.                *)
NoRefetch == wpc = "fetch" => gepoch[wop] \notin docs

\* Every op is queued once, and its getter waits until it is answered.
OpQueuedOnce ==
    /\ \A g \in Getter : gpc[g] = "doc" => gdoc[g] = gepoch[g]
    /\ \A i \in 1 .. Len(fetchQueue) : gpc[fetchQueue[i]] = "wait"
    /\ \A i, j \in 1 .. Len(fetchQueue) : fetchQueue[i] = fetchQueue[j] => i = j
    /\ wop # None => gpc[wop] = "wait" /\ \A i \in 1 .. Len(fetchQueue) : fetchQueue[i] # wop

\* The op of g is in the queue q.
Holds(q, g) == \E i \in 1 .. Len(q) : q[i] = g

\* A getter that waits has its op in the queue or in the worker's hands.
OpNotLost == \A g \in Getter : gpc[g] = "wait" => g = wop \/ Holds(fetchQueue, g)

(* Every op is queued once, its getter waits until it is answered, and a   *)
(* document given to a getter is of the epoch that it asked for.  No op is *)
(* lost: a getter that waits on doneCh has its op in fetchQueue or is the  *)
(* one being served, also while Halt empties the queue.                    *)
OpAwaited == OpQueuedOnce /\ OpNotLost

(* Every GetDoc that has to fetch returns, with the document, the error or *)
(* errHalted: the worker answers the op that it serves and Halt the ones   *)
(* it finds in the queue.  Only a call whose op is not in the queue when   *)
(* Halt returns may find it already cleaned out, or full for ever.         *)
GetDocReturns ==
    \A g \in Getter :
        LET Returns == gpc[g] \in {"doc", "error", "halted"}
        IN /\ gpc[g] = "wait" /\ hpc # "done" ~> Returns
           /\ gpc[g] = "enqueue" ~> Returns \/ hpc = "done"
=============================================================================
