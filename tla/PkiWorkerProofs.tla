-------------------------- MODULE PkiWorkerProofs ---------------------------
(***************************************************************************)
(* Proofs about PkiWorker for any number of callers, epochs and failures,  *)
(* and whichever epochs have no document or fail for the moment.           *)
(***************************************************************************)
EXTENDS PkiWorker, FiniteSetTheorems, TLAPS

\* A leaf that names no prover is tried with each of these in turn.
USE SMTT(30), Z3T(30), ZenonT(60)

\* The worker is behind the epoch, and what it has stored, failed to fetch,
\* has still to fetch or has told is not ahead of the worker.
AheadInv ==
    /\ wnow <= epoch
    /\ \A e \in docs \cup failedFetches : e <= wnow
    /\ \A i \in 1 .. Len(todo) : todo[i] <= wnow
    /\ \A i \in 1 .. Len(told) : told[i] <= wnow

\* Out of the fetch loop, or in it before the first success, there is at most
\* one document; out of it, only the worker's epoch may have failed.
RoundInv ==
    /\ wpc \notin {"fetch", "canceled"} \/ ~didUpdate => \E d \in Epoch : docs \subseteq {d}
    /\ wpc \notin {"fetch", "canceled"} => failedFetches \subseteq {wnow}

WorkerInv == TypeOK /\ AheadInv /\ RoundInv /\ CallbackInOrder

(* Epochs are natural numbers.                                             *)
LEMMA EpochNat ==
    /\ FirstEpoch \in Nat \ {0} /\ LastEpoch \in Nat /\ Epoch \subseteq Nat
    /\ FirstEpoch .. LastEpoch \subseteq Epoch
    /\ \A e \in FirstEpoch .. LastEpoch : e - 1 \in Epoch
    /\ FirstEpoch \in FirstEpoch .. LastEpoch
BY EpochAssumption DEF Epoch

(* Nothing is stored, told or waited for at the start.                     *)
LEMMA WorkerInit == Init => WorkerInv
<1> SUFFICES ASSUME Init PROVE WorkerInv
  OBVIOUS
<1> USE EpochNat DEF Init
<1>1. TypeOK
  <2>1. todo \in Seq(Epoch) /\ told \in Seq(Epoch)
    OBVIOUS
  <2>2. errors \in 0 .. MaxErrors
    BY EpochAssumption
  <2>3. closed \in BOOLEAN /\ didUpdate \in BOOLEAN /\ halted \in BOOLEAN
    BY Zenon
  <2> QED BY <2>1, <2>2, <2>3 DEF TypeOK
<1>2. AheadInv /\ CallbackInOrder
  BY DEF AheadInv, CallbackInOrder
<1>3. RoundInv
  BY DEF RoundInv
<1> QED BY <1>1, <1>2, <1>3 DEF WorkerInv

\* What the invariant says, but for where the callers and the channels are.
roundVars == <<epoch, storeVars, wnow, todo, didUpdate, told>>

(* A step that leaves these alone and stays out of the fetch loop.         *)
LEMMA RoundUntouched ==
    ASSUME AheadInv /\ RoundInv /\ CallbackInOrder, UNCHANGED roundVars,
           wpc' = wpc \/ wpc \notin {"fetch", "canceled"}, wpc' # "fetch" \/ wpc = "fetch"
    PROVE  (AheadInv /\ RoundInv /\ CallbackInOrder)'
BY DEF AheadInv, RoundInv, CallbackInOrder, roundVars, storeVars

(* Steps of the callers, setClockSkew, the timer and Halt.                 *)
LEMMA CallersKeep ==
    ASSUME WorkerInv,
           \/ setClockSkew \/ TimerFires \/ Halt
           \/ \E p \in Caller : CurrentDocument(p) \/ NowFails(p) \/ CallerStep(p) \/ Return(p)
    PROVE  WorkerInv'
<1> USE DEF storeVars, chanVars, workVars, callVars
<1>1. UNCHANGED roundVars /\ wpc' = wpc
  BY DEF setClockSkew, TimerFires, Halt, CurrentDocument, NowFails, CallerStep, ForceUpdate,
     Awake, Reload, Return, roundVars
<1>2. (AheadInv /\ RoundInv /\ CallbackInOrder)'
  BY <1>1, RoundUntouched DEF WorkerInv
<1>3. TypeOK'
  <2>1. CASE setClockSkew \/ TimerFires
    BY <2>1 DEF setClockSkew, TimerFires, Poke, WorkerInv, TypeOK
  <2>6. CASE Halt
    BY <2>6 DEF Halt, WorkerInv, TypeOK
  <2>2. ASSUME NEW p \in Caller, CurrentDocument(p) PROVE TypeOK'
    BY <2>2, EpochNat DEF CurrentDocument, CallerAt, WorkerInv, TypeOK
  <2>3. ASSUME NEW p \in Caller, NowFails(p) \/ Reload(p) PROVE TypeOK'
    BY <2>3 DEF NowFails, Reload, CallerAt, WorkerInv, TypeOK
  <2>7. ASSUME NEW p \in Caller, ForceUpdate(p) PROVE TypeOK'
    BY <2>7 DEF ForceUpdate, CallerAt, WorkerInv, TypeOK
  <2>4. ASSUME NEW p \in Caller, Awake(p) PROVE TypeOK'
    BY <2>4 DEF Awake, CallerAt, WorkerInv, TypeOK
  <2>5. ASSUME NEW p \in Caller, Return(p) PROVE TypeOK'
    BY <2>5 DEF Return, WorkerInv, TypeOK
  <2> QED BY <2>1, <2>2, <2>3, <2>4, <2>5, <2>6, <2>7 DEF CallerStep
<1> QED BY <1>2, <1>3 DEF WorkerInv

(* Steps of the worker between rounds, and the end of one.                 *)
LEMMA SelectKeeps ==
    ASSUME WorkerInv, ForcedUpdate \/ TimedUpdate \/ StopTimer \/ StopWorker \/ Done
    PROVE  WorkerInv'
<1> USE DEF storeVars, chanVars, workVars, callVars
<1>1. UNCHANGED roundVars /\ wpc \notin {"fetch", "canceled"} /\ wpc' # "fetch"
  BY DEF ForcedUpdate, TimedUpdate, StopTimer, StopWorker, Done, roundVars
<1>2. (AheadInv /\ RoundInv /\ CallbackInOrder)'
  BY <1>1, RoundUntouched DEF WorkerInv
<1>3. TypeOK'
  <2>1. CASE ForcedUpdate
    BY <2>1 DEF ForcedUpdate, WorkerInv, TypeOK
  <2>2. CASE TimedUpdate \/ StopTimer
    BY <2>2 DEF TimedUpdate, StopTimer, WorkerInv, TypeOK
  <2>3. CASE StopWorker
    BY <2>3 DEF StopWorker, WorkerInv, TypeOK
  <2>4. CASE Done
    BY <2>4 DEF Done, DoneToken, WorkerInv, TypeOK
  <2> QED BY <2>1, <2>2, <2>3, <2>4
<1> QED BY <1>2, <1>3 DEF WorkerInv

(* A round begins: the worker catches up with the epoch.                   *)
LEMMA NowKeeps == ASSUME WorkerInv, WorkerNow \/ NextEpoch PROVE WorkerInv'
<1> USE EpochNat DEF storeVars, chanVars, workVars, callVars, WorkerInv
<1>1. CASE NextEpoch
  <2>1. TypeOK'
    BY <1>1 DEF NextEpoch, TypeOK
  <2>2. (AheadInv /\ RoundInv /\ CallbackInOrder)'
    BY <1>1 DEF NextEpoch, AheadInv, RoundInv, CallbackInOrder, TypeOK
  <2> QED BY <2>1, <2>2
<1>2. CASE WorkerNow /\ wpc' = "fetch"
  <2>1. /\ wnow' = epoch /\ todo' = <<epoch - 1, epoch>> /\ didUpdate' = FALSE
        /\ wpc = "now" /\ epoch \in FirstEpoch .. LastEpoch /\ wnow \in Nat
        /\ UNCHANGED <<epoch, docs, failedFetches, told, errors, timer, forceUpdateCh,
                       doneWorkerCh, closed, ppc, pnow, halted>>
    BY <1>2 DEF WorkerNow, TypeOK
  <2>2. todo' \in Seq(Epoch) /\ Len(todo') = 2
        /\ \A i \in 1 .. Len(todo') : todo'[i] \in {epoch - 1, epoch}
    BY <2>1
  <2>3. TypeOK'
    BY <1>2, <2>1, <2>2, Zenon DEF TypeOK
  <2>4. \A e \in docs \cup failedFetches : e \in Nat /\ e <= wnow'
    BY <2>1 DEF TypeOK, AheadInv
  <2>5. \A i \in 1 .. Len(told) : told[i] <= wnow'
    <3>1. \A i \in 1 .. Len(told) : told[i] \in Epoch
      BY DEF TypeOK
    <3>2. \A i \in 1 .. Len(told) : told[i] <= wnow
      BY DEF AheadInv
    <3>3. wnow <= wnow' /\ wnow' \in Nat
      BY <2>1 DEF AheadInv
    <3> SUFFICES ASSUME NEW i \in 1 .. Len(told) PROVE told[i] <= wnow'
      OBVIOUS
    <3>4. told[i] \in Nat /\ told[i] <= wnow /\ wnow \in Nat
      BY <2>1, <3>1, <3>2, Zenon
    <3> QED BY <3>3, <3>4
  <2>6. AheadInv'
    BY <2>1, <2>2, <2>4, <2>5 DEF AheadInv
  <2>7. RoundInv' /\ CallbackInOrder'
    BY <1>2, <2>1 DEF RoundInv, CallbackInOrder
  <2> QED BY <2>3, <2>6, <2>7
<1>3. CASE WorkerNow /\ wpc' # "fetch"
  <2>1. UNCHANGED roundVars /\ wpc = "now" /\ wpc' = "select"
    BY <1>3 DEF WorkerNow, roundVars
  <2>2. (AheadInv /\ RoundInv /\ CallbackInOrder)'
    BY <2>1, RoundUntouched
  <2>3. TypeOK'
    BY <1>3, EpochAssumption DEF WorkerNow, TypeOK
  <2> QED BY <2>2, <2>3
<1> QED BY <1>1, <1>2, <1>3

(* One epoch of the fetch loop, or its cancellation.                       *)
LEMMA FetchKeeps == ASSUME WorkerInv, FetchNext \/ CancelFetch PROVE WorkerInv'
<1> USE EpochNat DEF storeVars, chanVars, workVars, callVars, WorkerInv
<1>1. CASE CancelFetch
  <2>1. TypeOK'
    BY <1>1 DEF CancelFetch, TypeOK
  <2>2. (AheadInv /\ RoundInv /\ CallbackInOrder)'
    BY <1>1 DEF CancelFetch, AheadInv, RoundInv, CallbackInOrder
  <2> QED BY <2>1, <2>2
<1>2. CASE FetchNext
  <2>1. PICK e \in Epoch : e = Head(todo) /\ e <= wnow
    <3>1. todo # <<>> /\ todo \in Seq(Epoch)
      BY <1>2 DEF FetchNext, TypeOK
    <3>2. Head(todo) = todo[1] /\ Head(todo) \in Epoch /\ 1 \in 1 .. Len(todo)
      BY <3>1
    <3> QED BY <3>2, Zenon DEF AheadInv
  <2>2. /\ wpc = "fetch" /\ todo # <<>> /\ todo' = Tail(todo)
        /\ UNCHANGED <<epoch, forceUpdateCh, doneWorkerCh, closed, timer, wpc, wnow, told,
                       ppc, pnow, errors, halted>>
        /\ \/ docs' = docs /\ didUpdate' = didUpdate
           \/ docs' = docs \cup {e} /\ didUpdate' = TRUE
        /\ failedFetches' \in {failedFetches, failedFetches \cup {e}}
    BY <1>2, <2>1 DEF FetchNext, FetchLoop
  <2>3. todo' \in Seq(Epoch) /\ \A i \in 1 .. Len(todo') : todo'[i] <= wnow
    BY <2>2 DEF TypeOK, AheadInv
  <2>4. TypeOK'
    BY <2>1, <2>2, <2>3, Zenon DEF TypeOK
  <2>5. AheadInv'
    BY <2>1, <2>2, <2>3 DEF AheadInv
  <2>6. RoundInv' /\ CallbackInOrder'
    BY <2>2 DEF RoundInv, CallbackInOrder
  <2> QED BY <2>4, <2>5, <2>6
<1> QED BY <1>1, <1>2

(* The end of the fetch loop prunes what a success has made old.           *)
LEMMA PruneKeeps == ASSUME WorkerInv, Prune PROVE WorkerInv'
<1> USE EpochNat DEF storeVars, chanVars, workVars, callVars, WorkerInv
<1>1. docs' \subseteq docs /\ failedFetches' \subseteq failedFetches
  BY DEF Prune, pruneFailures, pruneDocuments
<1>2. TypeOK'
  BY <1>1 DEF Prune, TypeOK
<1>3. AheadInv' /\ CallbackInOrder'
  BY <1>1 DEF Prune, AheadInv, CallbackInOrder
<1>4. docs \cup failedFetches \subseteq Nat /\ wnow \in Nat
  BY DEF TypeOK
<1>5. failedFetches' \subseteq {wnow'}
  BY <1>4 DEF Prune, pruneFailures, AheadInv
<1>6. \E d \in Epoch : docs' \subseteq {d}
  <2>1. CASE didUpdate
    <3>1. \A e \in docs' : e = wnow /\ e \in Epoch
      BY <1>4, <2>1 DEF Prune, pruneDocuments, AheadInv, TypeOK
    <3>2. CASE docs' = {}
      BY <3>2
    <3>3. CASE docs' # {}
      BY <3>1, <3>3, Zenon
    <3> QED BY <3>2, <3>3
  <2>2. CASE ~didUpdate
    BY <2>2 DEF Prune, RoundInv
  <2> QED BY <2>1, <2>2
<1>7. RoundInv'
  BY <1>5, <1>6 DEF Prune, RoundInv
<1> QED BY <1>2, <1>3, <1>7

(* The callback is for a later epoch than the one before.                  *)
LEMMA CallbackKeeps == ASSUME WorkerInv, Callback PROVE WorkerInv'
<1> USE EpochNat DEF storeVars, chanVars, workVars, callVars, WorkerInv
<1>1. /\ wpc = "callback" /\ wpc' = "done"
      /\ UNCHANGED <<epoch, docs, failedFetches, forceUpdateCh, doneWorkerCh, closed,
                     timer, wnow, todo, didUpdate, ppc, pnow, errors, halted>>
  BY DEF Callback
<1>2. RoundInv'
  BY <1>1 DEF RoundInv
<1>3. CASE told' = told
  BY <1>1, <1>2, <1>3 DEF TypeOK, AheadInv, CallbackInOrder
<1>4. CASE told' # told
  <2>1. NotYetTold /\ wnow \in docs /\ told' = Append(told, wnow)
    BY <1>4 DEF Callback
  <2>2. /\ told' \in Seq(Epoch) /\ Len(told') = Len(told) + 1 /\ Len(told) \in Nat
        /\ told'[Len(told) + 1] = wnow /\ wnow \in Epoch
        /\ \A i \in 1 .. Len(told) : told'[i] = told[i] /\ told[i] \in Nat
    <3>1. told \in Seq(Epoch) /\ wnow \in Epoch
      BY <2>1 DEF TypeOK
    <3>2. \A i \in 1 .. Len(told) : told[i] \in Epoch
      BY <3>1
    <3>3. /\ Append(told, wnow) \in Seq(Epoch) /\ Len(Append(told, wnow)) = Len(told) + 1
          /\ Append(told, wnow)[Len(told) + 1] = wnow /\ Len(told) \in Nat
          /\ \A i \in 1 .. Len(told) : Append(told, wnow)[i] = told[i]
      BY <3>1
    <3> QED BY <2>1, <3>1, <3>2, <3>3, Zenon
  <2>3. TypeOK'
    BY <1>1, <2>2 DEF TypeOK
  <2>4. \A i \in 1 .. Len(told') : told'[i] <= wnow
    BY <2>2 DEF AheadInv
  <2>5. AheadInv'
    BY <1>1, <2>4 DEF AheadInv
  <2>6. Len(told) # 0 => told[Len(told)] < wnow
    BY <2>1, <2>2 DEF NotYetTold, AheadInv, TypeOK
  <2>7. CallbackInOrder'
    <3> SUFFICES ASSUME NEW i \in 2 .. Len(told') PROVE told'[i - 1] < told'[i]
      BY DEF CallbackInOrder
    <3>1. CASE i = Len(told')
      BY <2>2, <2>6, <3>1
    <3>2. CASE i # Len(told')
      <4>1. i \in 2 .. Len(told) /\ i - 1 \in 1 .. Len(told) /\ i \in 1 .. Len(told)
        BY <2>2, <3>2
      <4> QED BY <2>2, <4>1 DEF CallbackInOrder
    <3> QED BY <3>1, <3>2
  <2> QED BY <1>2, <2>3, <2>5, <2>7
<1> QED BY <1>3, <1>4

(* WorkerInv is inductive.                                                 *)
THEOREM WorkerInvariant == Spec => []WorkerInv
<1>1. WorkerInv /\ [Next]_vars => WorkerInv'
  <2> SUFFICES ASSUME WorkerInv, [Next]_vars PROVE WorkerInv'
    OBVIOUS
  <2>1. CASE Next
    BY <2>1, CallersKeep, SelectKeeps, NowKeeps, FetchKeeps, PruneKeeps, CallbackKeeps
       DEF Next, WorkerStep
  <2>2. CASE UNCHANGED vars
    <3>1. TypeOK'
      BY <2>2 DEF vars, storeVars, chanVars, workVars, callVars, WorkerInv, TypeOK
    <3>2. (AheadInv /\ RoundInv /\ CallbackInOrder)'
      BY <2>2, RoundUntouched DEF vars, storeVars, workVars, roundVars, WorkerInv
    <3> QED BY <3>1, <3>2 DEF WorkerInv
  <2> QED BY <2>1, <2>2
<1> QED BY WorkerInit, <1>1, PTL DEF Spec

(* OnDocumentFn hears of the epochs in order and of none twice             *)
(* (minclient/pki.go, worker), for any number of callers and failures.     *)
THEOREM CallbacksInOrder == Spec => []CallbackInOrder
<1>1. WorkerInv => CallbackInOrder
  BY DEF WorkerInv
<1> QED BY <1>1, WorkerInvariant, PTL

(* Between rounds at most one document and one failure are kept            *)
(* (minclient/pki.go, pruneDocuments and pruneFailures), however many      *)
(* epochs pass and fetches fail.                                           *)
THEOREM StoresBounded == Spec => []StoreBounded
<1>1. WorkerInv => StoreBounded
  <2> SUFFICES ASSUME WorkerInv, wpc = "select"
               PROVE  Cardinality(docs) <= 1 /\ failedFetches \subseteq {wnow}
    BY DEF WorkerInv, StoreBounded
  <2>1. PICK d \in Epoch : docs \subseteq {d}
    BY DEF WorkerInv, RoundInv
  <2>2. docs = {} \/ docs = {d}
    BY <2>1
  <2>3. Cardinality(docs) <= 1
    BY <2>2, FS_EmptySet, FS_Singleton
  <2> QED BY <2>3 DEF WorkerInv, RoundInv
<1> QED BY <1>1, WorkerInvariant, PTL
-----------------------------------------------------------------------------
(* Who wakes the callers.                                                  *)

\* doneWorkerCh is closed by a worker that stops between rounds; and until
\* epochtime.Now has failed, the timer runs whenever the worker waits for it.
WakeInv ==
    /\ closed <=> wpc = "stopped"
    /\ errors = 0 /\ wpc \in {"select", "stopTimer"} => timer # "off"

(* Every step keeps WakeInv.                                               *)
LEMMA WakeKept == ASSUME WorkerInv, WakeInv, [Next]_vars PROVE WakeInv'
<1> USE DEF WakeInv, storeVars, chanVars, workVars
<1>0. closed \in BOOLEAN /\ errors \in Nat
  <2>1. closed \in BOOLEAN
    BY Zenon DEF WorkerInv, TypeOK
  <2>2. errors \in Nat
    BY EpochAssumption DEF WorkerInv, TypeOK
  <2> QED BY <2>1, <2>2
<1>1. CASE ForcedUpdate \/ TimedUpdate \/ StopTimer \/ StopWorker \/ Done \/ TimerFires
  BY <1>0, <1>1 DEF ForcedUpdate, TimedUpdate, StopTimer, StopWorker, Done, TimerFires
<1>2. CASE WorkerNow
  <2>1. /\ UNCHANGED <<closed, timer>> /\ wpc = "now"
        /\ wpc' = "fetch" \/ (wpc' = "select" /\ errors' = errors + 1)
    BY <1>2 DEF WorkerNow
  <2> QED BY <1>0, <2>1
<1>3. CASE FetchNext \/ CancelFetch \/ Prune \/ Callback
  <2>1. /\ UNCHANGED <<closed, errors>> /\ wpc \in {"fetch", "callback"}
        /\ wpc' \in {"fetch", "canceled", "callback", "done"}
    BY <1>3 DEF FetchNext, FetchLoop, CancelFetch, Prune, Callback
  <2> QED BY <1>0, <2>1
<1>4. CASE \/ setClockSkew \/ NextEpoch \/ Halt \/ UNCHANGED vars
           \/ \E p \in Caller : CurrentDocument(p) \/ NowFails(p) \/ CallerStep(p) \/ Return(p)
  <2>1. UNCHANGED <<closed, wpc, timer, errors>>
    BY <1>4 DEF setClockSkew, NextEpoch, Halt, vars, CurrentDocument, NowFails, CallerStep,
       ForceUpdate, Awake, Reload, Return
  <2> QED BY <2>1
<1> QED BY <1>1, <1>2, <1>3, <1>4 DEF Next, WorkerStep

\* The worker has a step to take, or a timer that will give it one.
WorkerCan ==
    \/ wpc \in {"now", "fetch", "callback", "done"}
    \/ wpc = "stopTimer" /\ timer # "off"
    \/ wpc = "select" /\ (forceUpdateCh > 0 \/ timer # "off")

\* The caller has room in forceUpdateCh, or finds doneWorkerCh ready.
CallerCan(p) ==
    \/ ppc[p] = "force" /\ forceUpdateCh = 0
    \/ ppc[p] = "wait" /\ (doneWorkerCh > 0 \/ closed)

\* A caller that waits can go on or has a worker that can, but for the three
\* cases that CurrentDocumentReturns leaves out.
CallersServed ==
    \A p \in Caller : ppc[p] \in {"force", "wait"} =>
        \/ CallerCan(p) \/ WorkerCan \/ wpc = "canceled" \/ errors > 0
        \/ wpc = "stopped" /\ ppc[p] = "force" /\ forceUpdateCh = 1

(* No wake-up is lost: a call of CurrentDocument that waits has a worker   *)
(* at work, or a timer or a token that will set it to work, unless Halt    *)
(* caught the worker in a fetch or gone with forceUpdateCh full, or the    *)
(* worker has failed to learn the epoch, for any number of callers         *)
(* (minclient/pki.go, currentDocument and worker).                         *)
THEOREM CallersWoken == Spec => []CallersServed
<1>1. Init => WakeInv
  BY DEF Init, WakeInv
<1>2. WorkerInv /\ WakeInv /\ [Next]_vars => WakeInv'
  BY WakeKept
<1>3. WorkerInv /\ WakeInv => CallersServed
  <2> SUFFICES ASSUME WorkerInv, WakeInv, NEW p \in Caller, ppc[p] \in {"force", "wait"},
                      ~CallerCan(p), ~WorkerCan, wpc # "canceled", ~(errors > 0)
               PROVE  wpc = "stopped" /\ ppc[p] = "force" /\ forceUpdateCh = 1
    BY DEF CallersServed
  <2>0. /\ forceUpdateCh \in 0 .. 1 /\ errors = 0
        /\ wpc \in {"select", "stopTimer", "now", "fetch", "callback", "done", "stopped",
                    "canceled"}
    BY EpochAssumption DEF WorkerInv, TypeOK
  <2>1. wpc = "stopped"
    BY <2>0 DEF WakeInv, WorkerCan
  <2>2. ppc[p] # "wait"
    BY <2>1 DEF WakeInv, CallerCan
  <2> QED BY <2>0, <2>1, <2>2 DEF CallerCan
<1> QED BY <1>1, <1>2, <1>3, WorkerInvariant, PTL DEF Spec
=============================================================================
