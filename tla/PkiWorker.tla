----------------------------- MODULE PkiWorker ------------------------------
(***************************************************************************)
(* minclient/pki.go: the worker that keeps the documents of the client,    *)
(* the callers of CurrentDocument, who poke it and wait for it, and        *)
(* setClockSkew, which pokes it too.  docs is a sync.Map: a Load, a Store  *)
(* and a Delete are one step each.  The epoch runs forward from            *)
(* FirstEpoch to LastEpoch.  MaxErrors bounds the failures of              *)
(* epochtime.Now in the worker.                                            *)
(***************************************************************************)
EXTENDS Naturals, Sequences, FiniteSets

CONSTANTS
    Caller,         \* the goroutines that call CurrentDocument
    FirstEpoch, LastEpoch,
    Missing,        \* epochs without a document (ErrNoDocument)
    Flaky,          \* epochs whose fetch may also fail for the moment
    MaxErrors,
    MayHalt

ASSUME EpochAssumption ==
    /\ FirstEpoch \in Nat \ {0} /\ LastEpoch \in Nat /\ FirstEpoch <= LastEpoch
    /\ Missing \subseteq FirstEpoch - 1 .. LastEpoch
    /\ Flaky \subseteq FirstEpoch - 1 .. LastEpoch
    /\ MaxErrors \in Nat /\ MayHalt \in BOOLEAN

VARIABLES
    epoch,          \* the current epoch
    docs,           \* the epochs whose document is stored
    failedFetches,
    forceUpdateCh, doneWorkerCh,   \* tokens in the two channels
    closed,         \* doneWorkerCh is closed
    timer,          \* armed, fired (its tick waits), or off
    wpc, wnow,      \* the worker: where it is, the epoch it works for
    todo,           \* the epochs still to fetch
    didUpdate,
    told,           \* the epochs OnDocumentFn was called with, in order
    ppc, pnow,      \* the callers: where each is, its epoch
    errors, halted

storeVars == <<docs, failedFetches>>
chanVars == <<forceUpdateCh, doneWorkerCh, closed>>
workVars == <<timer, wpc, wnow, todo, didUpdate, told>>
callVars == <<ppc, pnow>>
vars == <<epoch, storeVars, chanVars, workVars, callVars, errors, halted>>

Epoch == FirstEpoch - 1 .. LastEpoch

Init ==
    /\ epoch = FirstEpoch /\ docs = {} /\ failedFetches = {}
    /\ forceUpdateCh = 0 /\ doneWorkerCh = 0 /\ closed = FALSE
    /\ timer = "armed" /\ wpc = "select" /\ wnow = 0 /\ todo = <<>>
    /\ didUpdate = FALSE /\ told = <<>>
    /\ ppc = [p \in Caller |-> "idle"] /\ pnow = [p \in Caller |-> 0]
    /\ errors = 0 /\ halted = FALSE
-----------------------------------------------------------------------------
(* The callers.                                                            *)

CallerAt(p, from, to) == ppc[p] = from /\ ppc' = [ppc EXCEPT ![p] = to]

\* currentDocument: Now and the first Load.
CurrentDocument(p) ==
    /\ CallerAt(p, "idle", IF epoch \in docs THEN "doc" ELSE "force")
    /\ pnow' = [pnow EXCEPT ![p] = epoch]
    /\ UNCHANGED <<epoch, storeVars, chanVars, workVars, errors, halted>>

\* currentDocument: Now fails.
NowFails(p) ==
    /\ CallerAt(p, "idle", "noEpoch")
    /\ UNCHANGED <<epoch, storeVars, chanVars, workVars, pnow, errors, halted>>

\* currentDocument: forceUpdateCh <- true, which blocks while it is full.
ForceUpdate(p) ==
    /\ CallerAt(p, "force", "wait") /\ forceUpdateCh = 0 /\ forceUpdateCh' = 1
    /\ UNCHANGED <<epoch, storeVars, doneWorkerCh, closed, workVars, pnow, errors, halted>>

\* currentDocument: <-doneWorkerCh.
Awake(p) ==
    /\ CallerAt(p, "wait", "reload")
    /\ \/ doneWorkerCh > 0 /\ doneWorkerCh' = doneWorkerCh - 1
       \/ doneWorkerCh = 0 /\ closed /\ UNCHANGED doneWorkerCh
    /\ UNCHANGED <<epoch, storeVars, forceUpdateCh, closed, workVars, pnow, errors, halted>>

\* currentDocument: the second Load.
Reload(p) ==
    /\ CallerAt(p, "reload", IF pnow[p] \in docs THEN "doc" ELSE "nil")
    /\ UNCHANGED <<epoch, storeVars, chanVars, workVars, pnow, errors, halted>>

Return(p) ==
    /\ ppc[p] \in {"doc", "nil", "noEpoch"} /\ ppc' = [ppc EXCEPT ![p] = "idle"]
    /\ pnow' = [pnow EXCEPT ![p] = 0]
    /\ UNCHANGED <<epoch, storeVars, chanVars, workVars, errors, halted>>

Poke == IF forceUpdateCh = 0 THEN 1 ELSE forceUpdateCh

\* setClockSkew, called after a handshake: wakes the worker if able to.
setClockSkew ==
    /\ forceUpdateCh' = Poke
    /\ UNCHANGED <<epoch, storeVars, doneWorkerCh, closed, workVars, callVars, errors,
                   halted>>
-----------------------------------------------------------------------------
(* The worker.                                                             *)

\* worker: <-forceUpdateCh.
ForcedUpdate ==
    /\ wpc = "select" /\ wpc' = "stopTimer"
    /\ forceUpdateCh > 0 /\ forceUpdateCh' = forceUpdateCh - 1
    /\ UNCHANGED <<epoch, storeVars, doneWorkerCh, closed, timer, wnow, todo, didUpdate,
                   told, callVars, errors, halted>>

\* worker: <-timer.C.
TimedUpdate ==
    /\ wpc = "select" /\ wpc' = "now" /\ timer = "fired" /\ timer' = "off"
    /\ UNCHANGED <<epoch, storeVars, chanVars, wnow, todo, didUpdate, told, callVars,
                   errors, halted>>

\* worker: !timer.Stop() waits for the tick, for ever if the timer was off.
StopTimer ==
    /\ wpc = "stopTimer" /\ timer \in {"armed", "fired"}
    /\ timer' = "off" /\ wpc' = "now"
    /\ UNCHANGED <<epoch, storeVars, chanVars, wnow, todo, didUpdate, told, callVars,
                   errors, halted>>

\* worker: epochtime.Now; on an error the loop continues.
WorkerNow ==
    /\ wpc = "now"
    /\ \/ /\ wpc' = "fetch" /\ wnow' = epoch /\ todo' = <<epoch - 1, epoch>>
          /\ didUpdate' = FALSE /\ UNCHANGED errors
       \/ /\ errors < MaxErrors /\ errors' = errors + 1 /\ wpc' = "select"
          /\ UNCHANGED <<wnow, todo, didUpdate>>
    /\ UNCHANGED <<epoch, storeVars, chanVars, timer, told, callVars, halted>>

\* worker: no fetch of what is stored or has failed for good.
Skip(e) == e \in docs \cup failedFetches

\* worker: the fetch loop goes on, with these stores.
FetchLoop(docs1, failed1, update) ==
    /\ docs' = docs1 /\ failedFetches' = failed1 /\ didUpdate' = update
    /\ todo' = Tail(todo)
    /\ UNCHANGED <<epoch, chanVars, timer, wpc, wnow, told, callVars, errors, halted>>

\* worker, getDocumentDirect: one epoch of the fetch loop.
FetchNext ==
    /\ wpc = "fetch" /\ todo # <<>>
    /\ LET e == Head(todo)
       IN \/ Skip(e) /\ FetchLoop(docs, failedFetches, didUpdate)
          \/ /\ ~Skip(e) /\ e \in Missing
             /\ FetchLoop(docs, failedFetches \cup {e}, didUpdate)
          \/ ~Skip(e) /\ e \in Flaky /\ FetchLoop(docs, failedFetches, didUpdate)
          \/ /\ ~Skip(e) /\ e \notin Missing
             /\ FetchLoop(docs \cup {e}, failedFetches, TRUE)

\* worker, getDocumentDirect: Halt has canceled the fetch; the worker returns
\* and doneWorkerCh stays open.
CancelFetch ==
    /\ wpc = "fetch" /\ todo # <<>> /\ ~Skip(Head(todo)) /\ halted
    /\ wpc' = "canceled" /\ timer' = "off"
    /\ UNCHANGED <<epoch, storeVars, chanVars, wnow, todo, didUpdate, told, callVars,
                   errors, halted>>

pruneFailures == {e \in failedFetches : e >= wnow /\ e <= wnow + 1}

\* Mutant: the previous document is kept.
PruneOlder == {e \in docs : e + 1 >= wnow}

pruneDocuments == {e \in docs : e >= wnow}

\* worker: pruneFailures and, after an update, pruneDocuments.
Prune ==
    /\ wpc = "fetch" /\ todo = <<>> /\ wpc' = "callback"
    /\ failedFetches' = pruneFailures
    /\ docs' = IF didUpdate THEN pruneDocuments ELSE docs
    /\ UNCHANGED <<epoch, chanVars, timer, wnow, todo, didUpdate, told, callVars,
                   errors, halted>>

\* Mutant: the callback is made after every update.
TellAlways == TRUE

\* worker: now # lastCallbackEpoch, which is 0 before the first callback.
NotYetTold == told = <<>> \/ told[Len(told)] # wnow

\* worker: OnDocumentFn.
Callback ==
    /\ wpc = "callback" /\ wpc' = "done"
    /\ told' = IF NotYetTold /\ wnow \in docs THEN Append(told, wnow) ELSE told
    /\ UNCHANGED <<epoch, storeVars, chanVars, timer, wnow, todo, didUpdate, callVars,
                   errors, halted>>

\* Mutant: nobody is woken.
DoneForgotten == doneWorkerCh

\* worker: an old token is dropped and a new one put in doneWorkerCh.
DoneToken == 1

\* worker: wake a caller and restart the timer.
Done ==
    /\ wpc = "done" /\ wpc' = "select" /\ doneWorkerCh' = DoneToken
    /\ timer' = "armed"
    /\ UNCHANGED <<epoch, storeVars, forceUpdateCh, closed, wnow, todo, didUpdate, told,
                   callVars, errors, halted>>

\* worker: <-HaltCh closes doneWorkerCh.
StopWorker ==
    /\ halted /\ wpc = "select" /\ wpc' = "stopped" /\ closed' = TRUE
    /\ timer' = "off"
    /\ UNCHANGED <<epoch, storeVars, forceUpdateCh, doneWorkerCh, wnow, todo, didUpdate,
                   told, callVars, errors, halted>>

TimerFires ==
    /\ timer = "armed" /\ timer' = "fired"
    /\ UNCHANGED <<epoch, storeVars, chanVars, wpc, wnow, todo, didUpdate, told,
                   callVars, errors, halted>>

NextEpoch ==
    /\ epoch < LastEpoch /\ epoch' = epoch + 1
    /\ UNCHANGED <<storeVars, chanVars, workVars, callVars, errors, halted>>

Halt ==
    /\ MayHalt /\ ~halted /\ halted' = TRUE
    /\ UNCHANGED <<epoch, storeVars, chanVars, workVars, callVars, errors>>

WorkerStep == StopTimer \/ WorkerNow \/ FetchNext \/ CancelFetch \/ Prune \/ Callback \/ Done
CallerStep(p) == ForceUpdate(p) \/ Awake(p) \/ Reload(p)
Next == \/ WorkerStep \/ ForcedUpdate \/ TimedUpdate \/ StopWorker \/ TimerFires
        \/ NextEpoch \/ Halt \/ setClockSkew
        \/ \E p \in Caller : CurrentDocument(p) \/ NowFails(p) \/ CallerStep(p) \/ Return(p)

Spec == Init /\ [][Next]_vars

(* Fairness: goroutines run, the timer fires, a select chooses each of its *)
(* ready cases now and then, and a goroutine that waits on a channel gets  *)
(* its turn.                                                               *)
FairSpec == /\ Spec /\ WF_vars(WorkerStep) /\ WF_vars(TimerFires)
            /\ SF_vars(ForcedUpdate) /\ SF_vars(TimedUpdate) /\ SF_vars(StopWorker)
            /\ \A p \in Caller : SF_vars(CallerStep(p))
-----------------------------------------------------------------------------
(* Every variable of the PKI worker holds a value of its kind; the two     *)
(* channels never hold more than their capacity.                           *)
TypeOK ==
    /\ epoch \in FirstEpoch .. LastEpoch /\ docs \subseteq Epoch
    /\ failedFetches \subseteq Epoch /\ forceUpdateCh \in 0 .. 1
    /\ doneWorkerCh \in 0 .. 1 /\ closed \in BOOLEAN
    /\ timer \in {"armed", "fired", "off"}
    /\ wpc \in {"select", "stopTimer", "now", "fetch", "callback", "done", "stopped",
                "canceled"}
    /\ wnow \in Epoch \cup {0} /\ todo \in Seq(Epoch) /\ didUpdate \in BOOLEAN
    /\ told \in Seq(Epoch)
    /\ ppc \in [Caller -> {"idle", "force", "wait", "reload", "doc", "nil", "noEpoch"}]
    /\ pnow \in [Caller -> Epoch \cup {0}]
    /\ errors \in 0 .. MaxErrors /\ halted \in BOOLEAN

(* OnDocumentFn hears of each epoch at most once, in order, however often  *)
(* the worker is poked and whatever fails in between.                      *)
CallbackInOrder == \A i \in 2 .. Len(told) : told[i - 1] < told[i]

(* Between two rounds the worker keeps at most one document, and failures  *)
(* only of the epoch it last worked for: the stores do not grow, and the   *)
(* channels never hold more than their capacity.                           *)
StoreBounded ==
    /\ TypeOK
    /\ wpc = "select" => Cardinality(docs) <= 1 /\ failedFetches \subseteq {wnow}

(* Every call of CurrentDocument that has to wait for the worker returns,  *)
(* also when the worker stops, which wakes the callers that wait.  It does *)
(* not when the worker was stopped in a fetch, and leaves without closing  *)
(* doneWorkerCh; when forceUpdateCh is full and the worker gone; or once   *)
(* the worker failed to learn the epoch.                                   *)
CurrentDocumentReturns ==
    \A p \in Caller :
        ppc[p] \in {"force", "wait"}
            ~> \/ ppc[p] \in {"doc", "nil"} \/ wpc = "canceled" \/ errors > 0
               \/ wpc = "stopped" /\ ppc[p] = "force" /\ forceUpdateCh = 1
=============================================================================
