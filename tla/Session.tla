------------------------------ MODULE Session -------------------------------
(***************************************************************************)
(* The life of a message in a Session: session.go, send.go and worker.go.  *)
(* Goroutines: the session worker (from awaitFirstPKIDoc on), the callers  *)
(* of SendUnreliableMessage and BlockingSendUnreliableMessage, the onACK   *)
(* callbacks that minclient runs one goroutine each for, the garbage       *)
(* collector, and minclient's own goroutines calling onConnection and      *)
(* onDocument.  A step is one access to what they share: a sync.Map        *)
(* operation, a channel operation, a queue call or a call into minclient.  *)
(*                                                                         *)
(* The egress queue is the bounded FIFO that EgressQueue implements.  A    *)
(* message stands for its random ID and for the random SURB ID doSend      *)
(* draws for it; both are unique.  A deadline (SentAt + ReplyETA + slop)   *)
(* that has passed is membership of expired.                               *)
(***************************************************************************)
EXTENDS Naturals, Sequences, FiniteSets

CONSTANTS
    Caller,              \* messages of BlockingSendUnreliableMessage calls
    Async,               \* messages of SendUnreliableMessage calls
    Loop, Drop,          \* the decoys the worker may create
    Ack,                 \* the onACK goroutines minclient may start
    NoMsg,               \* no message
    MaxEgressQueueSize,
    OpChSize,            \* the capacity of opCh
    TallyModulus,        \* 2^64: decoyLoopTally is a uint64
    MaxDeliveries,       \* how often the provider delivers one SURB reply
    MaxOps,              \* bound on onConnection and onDocument calls
    MayHalt,             \* whether the application may call Shutdown
    EarlyConn            \* whether a connection may precede the document

Queueable == Caller \cup Async
Message == Queueable \cup Loop \cup Drop
WithSURB == Message \ Drop

ASSUME MessageAssumption ==
    /\ Caller \cap Async = {} /\ Loop \cap Drop = {}
    /\ Queueable \cap (Loop \cup Drop) = {}
    /\ NoMsg \notin Message
ASSUME BoundAssumption ==
    /\ MaxEgressQueueSize \in Nat \ {0} /\ OpChSize \in Nat \ {0}
    /\ TallyModulus \in Nat \ {0} /\ MaxDeliveries \in Nat /\ MaxOps \in Nat
    /\ MayHalt \in BOOLEAN /\ EarlyConn \in BOOLEAN

VARIABLES
    egressQueue,
    sentWaitChanMap,     \* callers whose sentWaitChan is in the map
    closedSentChan,      \* callers whose sentWaitChan has been closed
    replyWaitChanMap,    \* callers whose replyWaitChan is in the map
    caller,              \* where each blocking call is
    accepted,            \* the asynchronous messages that were queued
    surbIDMap,           \* messages whose SURB ID is in the map
    sentAt,              \* messages minclient has sent
    expired,             \* messages whose reply deadline has passed
    wpc, wmsg, werr,     \* the worker: where it is, doSend's msg and err
    decoys,              \* the decoys created so far
    decoyLoopTally,
    apc, amsg,           \* the onACK goroutines: where each is, its message
    gpc, gmsg,           \* the garbage collector
    opCh, opCount,       \* the worker's op channel; ops sent so far
    isConnected,         \* the worker's view of the connection
    link,                \* minclient's view of the connection
    events,              \* what eventCh received about each message
    fatal,               \* the errors that were to go to fatalErrCh
    halted               \* HaltCh is closed

queueVars == <<egressQueue, accepted>>
chanVars  == <<sentWaitChanMap, closedSentChan, replyWaitChanMap>>
surbVars  == <<surbIDMap, sentAt, expired>>
workVars  == <<wpc, wmsg, werr, decoys>>
ackVars   == <<apc, amsg>>
gcVars    == <<gpc, gmsg>>
opVars    == <<opCh, opCount, isConnected, link>>
outVars   == <<decoyLoopTally, events, fatal>>
vars == <<queueVars, chanVars, caller, surbVars, workVars, ackVars, gcVars,
          opVars, outVars, halted>>

Statuses == {"connected", "disconnected"}
Ops == Statuses \cup {"document", "badDocument"}
Finished == {"replied", "timeout", "notSent"}
CallerStates == Finished \cup {"ready", "waitSent", "waitReply", "queueFull"}
WorkerStates == {"await", "aborted", "start", "select", "peek", "send",
                 "store", "notify", "emit", "pop", "count", "stopped", "blocked"}
AckDone == {"unknown", "undecryptable", "answered", "late"}
AckStates == AckDone \cup {"idle", "load", "delete", "dispatch", "deliver"}
EventKinds == {"sent", "failed", "reply", "collected"}
Fatals == {"peek", "pop", "sentWaitChan", "loopService", "invalidDoc", "nilDoc"}

Init ==
    /\ egressQueue = <<>> /\ accepted = {}
    /\ sentWaitChanMap = {} /\ closedSentChan = {} /\ replyWaitChanMap = {}
    /\ caller = [b \in Caller |-> "ready"]
    /\ surbIDMap = {} /\ sentAt = {} /\ expired = {}
    /\ wpc = "await" /\ wmsg = NoMsg /\ werr = FALSE /\ decoys = {}
    /\ decoyLoopTally = 0
    /\ apc = [a \in Ack |-> "idle"] /\ amsg = [a \in Ack |-> NoMsg]
    /\ gpc = "range" /\ gmsg = NoMsg
    /\ opCh = <<>> /\ opCount = 0 /\ isConnected = FALSE /\ link = FALSE
    /\ events = [m \in Message |-> <<>>] /\ fatal = {} /\ halted = FALSE

\* Mutant: failures are not reported.
EmitOnlySuccess(m, kind) ==
    events' = IF kind = "failed" THEN events
                                 ELSE [events EXCEPT ![m] = Append(@, kind)]

\* eventCh.In() <- ..., an infinite channel.
Emit(m, kind) == events' = [events EXCEPT ![m] = Append(@, kind)]
-----------------------------------------------------------------------------
(* The callers.                                                            *)

\* NewSession has returned and the application holds the session.
SessionUp == wpc \notin {"await", "aborted"}

SendUnreliableMessage(m) ==
    /\ SessionUp /\ m \notin accepted
    /\ Len(egressQueue) < MaxEgressQueueSize      \* else Push's error returns
    /\ egressQueue' = Append(egressQueue, m)
    /\ accepted' = accepted \cup {m}
    /\ UNCHANGED <<chanVars, caller, surbVars, workVars, ackVars, gcVars,
                   opVars, outVars, halted>>

\* The call up to the wait on sentWaitChan.  Until Push nobody else knows the
\* message, so storing its channels and pushing it is one step.
BlockingSend(b) ==
    /\ SessionUp /\ caller[b] = "ready"
    /\ \/ /\ Len(egressQueue) >= MaxEgressQueueSize
          /\ caller' = [caller EXCEPT ![b] = "queueFull"]
          /\ UNCHANGED <<egressQueue, sentWaitChanMap, replyWaitChanMap>>
       \/ /\ Len(egressQueue) < MaxEgressQueueSize
          /\ sentWaitChanMap' = sentWaitChanMap \cup {b}
          /\ replyWaitChanMap' = replyWaitChanMap \cup {b}
          /\ egressQueue' = Append(egressQueue, b)
          /\ caller' = [caller EXCEPT ![b] = "waitSent"]
    /\ UNCHANGED <<accepted, closedSentChan, surbVars, workVars, ackVars, gcVars,
                   opVars, outVars, halted>>

\* Mutant: the wait for the worker can be given up.
GivesUpWaiting(b) == TRUE

\* <-sentWaitChan yields nil once the worker has closed the channel.
SentChanClosed(b) == b \in closedSentChan

ReceiveNotSent(b) ==
    /\ caller[b] = "waitSent" /\ SentChanClosed(b)
    /\ caller' = [caller EXCEPT ![b] = "notSent"]
    /\ UNCHANGED <<queueVars, chanVars, surbVars, workVars, ackVars, gcVars,
                   opVars, outVars, halted>>

\* time.After(ReplyETA + RoundTripTimeSlop), started after SentAt was taken.
ReplyTimeout(b) ==
    /\ caller[b] = "waitReply" /\ b \in expired
    /\ caller' = [caller EXCEPT ![b] = "timeout"]
    /\ UNCHANGED <<queueVars, chanVars, surbVars, workVars, ackVars, gcVars,
                   opVars, outVars, halted>>

\* Mutant: the channels are deleted as soon as the message is sent.
ReturningOnceSent(b) == caller[b] \in Finished \cup {"waitReply"}

Returning(b) == caller[b] \in Finished

\* The deferred deletes, when the call returns.
ReturnFromSend(b) ==
    /\ Returning(b) /\ b \in replyWaitChanMap
    /\ replyWaitChanMap' = replyWaitChanMap \ {b}
    /\ sentWaitChanMap' = sentWaitChanMap \ {b}
    /\ UNCHANGED <<queueVars, closedSentChan, caller, surbVars, workVars,
                   ackVars, gcVars, opVars, outVars, halted>>

Call == \/ \E m \in Async : SendUnreliableMessage(m)
        \/ \E b \in Caller : BlockingSend(b)
CallerStep(b) == ReceiveNotSent(b) \/ ReplyTimeout(b) \/ ReturnFromSend(b)
-----------------------------------------------------------------------------
(* The worker.  awaitFirstPKIDoc, which NewSession runs before it starts   *)
(* the worker, reads the same channel, so its steps belong here too.       *)

WorkerAt(from, to) == wpc = from /\ wpc' = to

\* fatalErrCh <- err, then the worker is at to.  The client's watcher receives
\* once and calls Shutdown: whoever sends a second error waits for ever.
SendFatal(err, to) ==
    /\ fatal' = fatal \cup {err}
    /\ wpc' = IF fatal = {} THEN to ELSE "blocked"

\* awaitFirstPKIDoc: only a document ends the wait; other ops are dropped.
AwaitOp ==
    /\ wpc = "await" /\ opCh # <<>>
    /\ opCh' = Tail(opCh)
    /\ \/ Head(opCh) = "document" /\ wpc' = "start" /\ UNCHANGED fatal
       \/ Head(opCh) = "badDocument" /\ SendFatal("invalidDoc", "aborted")
       \/ Head(opCh) \in Statuses /\ UNCHANGED <<wpc, fatal>>
    /\ UNCHANGED <<queueVars, chanVars, caller, surbVars, wmsg, werr, decoys,
                   ackVars, gcVars, opCount, isConnected, link,
                   decoyLoopTally, events, halted>>

\* awaitFirstPKIDoc: the context ends or the delay passes.
AwaitTimeout ==
    /\ WorkerAt("await", "aborted")
    /\ UNCHANGED <<queueVars, chanVars, caller, surbVars, wmsg, werr, decoys,
                   ackVars, gcVars, opVars, outVars, halted>>

\* worker: CurrentDocument may be nil again if the epoch has just changed.
StartWorker ==
    /\ \/ WorkerAt("start", "select") /\ UNCHANGED fatal
       \/ wpc = "start" /\ SendFatal("nilDoc", "stopped")
    /\ UNCHANGED <<queueVars, chanVars, caller, surbVars, wmsg, werr, decoys,
                   ackVars, gcVars, opVars, decoyLoopTally, events, halted>>

\* worker: an op from opCh.
ReceiveOp ==
    /\ wpc = "select" /\ opCh # <<>>
    /\ opCh' = Tail(opCh)
    /\ isConnected' = IF Head(opCh) \in Statuses THEN Head(opCh) = "connected"
                                                 ELSE isConnected
    /\ \/ Head(opCh) = "badDocument" /\ SendFatal("invalidDoc", "select")
       \/ Head(opCh) # "badDocument" /\ UNCHANGED <<wpc, fatal>>
    /\ UNCHANGED <<queueVars, chanVars, caller, surbVars, wmsg, werr, decoys,
                   ackVars, gcVars, opCount, link, decoyLoopTally, events,
                   halted>>

\* sendDropDecoy, sendLoopDecoy: GetService may fail; a decoy is a new message.
SendDecoy(D) ==
    \/ SendFatal("loopService", "select") /\ UNCHANGED <<wmsg, decoys>>
    \/ \E d \in D \ decoys :
         /\ wpc' = "send" /\ wmsg' = d /\ decoys' = decoys \cup {d}
         /\ UNCHANGED fatal

\* lambdaP fired: sendFromQueueOrDecoy.
LambdaP ==
    /\ wpc = "select" /\ isConnected
    /\ \/ /\ egressQueue # <<>> /\ wpc' = "peek"
          /\ UNCHANGED <<wmsg, decoys, fatal>>
       \/ egressQueue = <<>> /\ SendDecoy(Drop)
    /\ UNCHANGED <<queueVars, chanVars, caller, surbVars, werr, ackVars, gcVars,
                   opVars, decoyLoopTally, events, halted>>

\* lambdaL or lambdaD fired.
LambdaDecoy(D) ==
    /\ wpc = "select" /\ isConnected
    /\ SendDecoy(D)
    /\ UNCHANGED <<queueVars, chanVars, caller, surbVars, werr, ackVars, gcVars,
                   opVars, decoyLoopTally, events, halted>>

\* sendNext: Peek.
PeekNext ==
    /\ \/ /\ egressQueue = <<>> /\ wpc = "peek"
          /\ SendFatal("peek", "select") /\ UNCHANGED wmsg
       \/ /\ egressQueue # <<>>
          /\ WorkerAt("peek", "send") /\ wmsg' = Head(egressQueue)
          /\ UNCHANGED fatal
    /\ UNCHANGED <<queueVars, chanVars, caller, surbVars, werr, decoys, ackVars,
                   gcVars, opVars, decoyLoopTally, events, halted>>

\* doSend: what follows the call into minclient.
AfterSend(m, err) ==
    CASE m \in WithSURB /\ ~err -> "store"
      [] m \in Caller /\ err -> "notify"
      [] OTHER -> "emit"

\* doSend: SendCiphertext or SendUnreliableCiphertext, then SentAt.  It may
\* fail on a live link too (no path, packet composition, write error).
SendToMinclient ==
    /\ wpc = "send"
    /\ \E err \in BOOLEAN :
         /\ ~link => err
         /\ werr' = err /\ wpc' = AfterSend(wmsg, err)
         /\ sentAt' = IF err THEN sentAt ELSE sentAt \cup {wmsg}
    /\ UNCHANGED <<queueVars, chanVars, caller, surbIDMap, expired, wmsg, decoys,
                   ackVars, gcVars, opVars, outVars, halted>>

\* doSend: surbIDMap.Store, after the packet has left.
StoreSURB ==
    /\ wpc = "store"
    /\ surbIDMap' = surbIDMap \cup {wmsg}
    /\ wpc' = IF wmsg \in Caller THEN "notify" ELSE "emit"
    /\ UNCHANGED <<queueVars, chanVars, caller, sentAt, expired, wmsg, werr,
                   decoys, ackVars, gcVars, opVars, outVars, halted>>

\* Mutant: the channel is left open when the send failed.
CloseForgotten(b) == UNCHANGED <<closedSentChan, caller>>

\* Mutant: the message is handed over although the send failed.
CloseSendsMessage(b) == /\ caller' = [caller EXCEPT ![b] = "waitReply"]
                        /\ UNCHANGED closedSentChan

\* doSend: close(sentWaitChan).
CloseSentChan(b) == /\ closedSentChan' = closedSentChan \cup {b}
                    /\ UNCHANGED caller

\* doSend: sentWaitChan <- msg, a rendezvous with the caller, or close.
NotifyCaller ==
    /\ \/ /\ wmsg \notin sentWaitChanMap
          /\ wpc = "notify" /\ SendFatal("sentWaitChan", "pop")
          /\ UNCHANGED <<closedSentChan, caller>>
       \/ /\ wmsg \in sentWaitChanMap /\ werr
          /\ WorkerAt("notify", "pop") /\ CloseSentChan(wmsg) /\ UNCHANGED fatal
       \/ /\ wmsg \in sentWaitChanMap /\ ~werr /\ caller[wmsg] = "waitSent"
          /\ WorkerAt("notify", "pop")
          /\ caller' = [caller EXCEPT ![wmsg] = "waitReply"]
          /\ UNCHANGED <<closedSentChan, fatal>>
    /\ UNCHANGED <<queueVars, sentWaitChanMap, replyWaitChanMap, surbVars, wmsg,
                   werr, decoys, ackVars, gcVars, opVars, decoyLoopTally,
                   events, halted>>

AfterEmit(m) == CASE m \in Loop -> "count" [] m \in Drop -> "select"
                  [] OTHER -> "pop"

\* doSend: MessageSentEvent.
EmitSent ==
    /\ wpc = "emit" /\ wpc' = AfterEmit(wmsg)
    /\ Emit(wmsg, IF werr THEN "failed" ELSE "sent")
    /\ UNCHANGED <<queueVars, chanVars, caller, surbVars, wmsg, werr, decoys,
                   ackVars, gcVars, opVars, decoyLoopTally, fatal, halted>>

\* sendNext: Pop.
PopSent ==
    /\ \/ /\ egressQueue = <<>> /\ wpc = "pop"
          /\ SendFatal("pop", "select") /\ UNCHANGED egressQueue
       \/ /\ egressQueue # <<>> /\ WorkerAt("pop", "select")
          /\ egressQueue' = Tail(egressQueue) /\ UNCHANGED fatal
    /\ UNCHANGED <<accepted, chanVars, caller, surbVars, wmsg, werr, decoys,
                   ackVars, gcVars, opVars, decoyLoopTally, events, halted>>

\* incrementDecoyLoopTally, on a uint64.
Increment(t) == (t + 1) % TallyModulus

\* sendLoopDecoy: the deferred increment, also after a failed send.
CountLoop ==
    /\ WorkerAt("count", "select")
    /\ decoyLoopTally' = Increment(decoyLoopTally)
    /\ UNCHANGED <<queueVars, chanVars, caller, surbVars, wmsg, werr, decoys,
                   ackVars, gcVars, opVars, events, fatal, halted>>

StopWorker ==
    /\ halted /\ WorkerAt("select", "stopped")
    /\ UNCHANGED <<queueVars, chanVars, caller, surbVars, wmsg, werr, decoys,
                   ackVars, gcVars, opVars, outVars, halted>>

Sending == \/ PeekNext \/ SendToMinclient \/ StoreSURB \/ NotifyCaller
           \/ EmitSent \/ PopSent \/ CountLoop
WorkerStep == \/ AwaitOp \/ AwaitTimeout \/ StartWorker \/ ReceiveOp \/ LambdaP
              \/ LambdaDecoy(Loop) \/ LambdaDecoy(Drop) \/ Sending \/ StopWorker
-----------------------------------------------------------------------------
(* The onACK goroutines.                                                   *)

AckAt(a, from, to) == apc[a] = from /\ apc' = [apc EXCEPT ![a] = to]

Deliveries(m) == Cardinality({a \in Ack : amsg[a] = m})

\* minclient receives the SURB reply to m and starts the callback.
DeliverACK(a, m) ==
    /\ link /\ m \in sentAt \cap WithSURB /\ Deliveries(m) < MaxDeliveries
    /\ AckAt(a, "idle", "load")
    /\ amsg' = [amsg EXCEPT ![a] = m]
    /\ UNCHANGED <<queueVars, chanVars, caller, surbVars, workVars, gcVars,
                   opVars, outVars, halted>>

\* onACK: surbIDMap.Load.
LoadSURB(a) ==
    /\ AckAt(a, "load", IF amsg[a] \in surbIDMap THEN "delete" ELSE "unknown")
    /\ UNCHANGED <<queueVars, chanVars, caller, surbVars, workVars, amsg, gcVars,
                   opVars, outVars, halted>>

\* onACK: surbIDMap.Delete, then the reply is decrypted and its size checked.
DeleteSURB(a) ==
    /\ \E to \in {"dispatch", "undecryptable"} : AckAt(a, "delete", to)
    /\ surbIDMap' = surbIDMap \ {amsg[a]}
    /\ UNCHANGED <<queueVars, chanVars, caller, sentAt, expired, workVars, amsg,
                   gcVars, opVars, outVars, halted>>

\* Mutant: a tally that stops at zero.
DecrementSaturating(t) == IF t = 0 THEN 0 ELSE t - 1

\* decrementDecoyLoopTally: adding ^uint64(0).
Decrement(t) == (t + (TallyModulus - 1)) % TallyModulus

\* onACK: what the message is decides who gets the reply.
DispatchReply(a) ==
    /\ \/ /\ amsg[a] \in Loop /\ AckAt(a, "dispatch", "answered")
          /\ decoyLoopTally' = Decrement(decoyLoopTally)
          /\ UNCHANGED events
       \/ /\ amsg[a] \in Caller
          /\ AckAt(a, "dispatch", IF amsg[a] \in replyWaitChanMap THEN "deliver"
                                                                  ELSE "late")
          /\ UNCHANGED <<decoyLoopTally, events>>
       \/ /\ amsg[a] \in Async /\ AckAt(a, "dispatch", "answered")
          /\ Emit(amsg[a], "reply")
          /\ UNCHANGED decoyLoopTally
    /\ UNCHANGED <<queueVars, chanVars, caller, surbVars, workVars, amsg, gcVars,
                   opVars, fatal, halted>>

\* onACK: replyWaitChan <- plaintext, a rendezvous with the caller's select.
HandOverReply(a) ==
    /\ AckAt(a, "deliver", "answered")
    /\ caller[amsg[a]] = "waitReply"
    /\ caller' = [caller EXCEPT ![amsg[a]] = "replied"]
    /\ UNCHANGED <<queueVars, chanVars, surbVars, workVars, amsg, gcVars,
                   opVars, outVars, halted>>

AckStep(a) == LoadSURB(a) \/ DeleteSURB(a) \/ DispatchReply(a) \/ HandOverReply(a)
-----------------------------------------------------------------------------
(* The garbage collector: each entry Range visits is checked, deleted and  *)
(* reported in three steps.                                                *)

\* Mutant: only messages whose caller still waits are collected.
CollectableAwaited == surbIDMap \cap expired \cap replyWaitChanMap

Collectable == surbIDMap \cap expired

RangeSURB ==
    /\ gpc = "range" /\ gpc' = "delete"
    /\ gmsg' \in Collectable
    /\ UNCHANGED <<queueVars, chanVars, caller, surbVars, workVars, ackVars,
                   opVars, outVars, halted>>

CollectSURB ==
    /\ gpc = "delete" /\ gpc' = "emit"
    /\ surbIDMap' = surbIDMap \ {gmsg}
    /\ UNCHANGED <<queueVars, chanVars, caller, sentAt, expired, workVars,
                   ackVars, gmsg, opVars, outVars, halted>>

EmitCollected ==
    /\ gpc = "emit" /\ gpc' = "range"
    /\ Emit(gmsg, "collected")
    /\ UNCHANGED <<queueVars, chanVars, caller, surbVars, workVars, ackVars,
                   gmsg, opVars, decoyLoopTally, fatal, halted>>

StopGC ==
    /\ halted /\ gpc = "range" /\ gpc' = "stopped"
    /\ UNCHANGED <<queueVars, chanVars, caller, surbVars, workVars, ackVars,
                   gmsg, opVars, outVars, halted>>

GCStep == RangeSURB \/ CollectSURB \/ EmitCollected \/ StopGC
-----------------------------------------------------------------------------
(* minclient's callbacks, the clock, and Shutdown.                         *)

SendOp(op) ==
    /\ opCount < MaxOps /\ Len(opCh) < OpChSize
    /\ opCh' = Append(opCh, op) /\ opCount' = opCount + 1
    /\ UNCHANGED <<queueVars, chanVars, caller, surbVars, workVars, ackVars,
                   gcVars, isConnected, outVars, halted>>

\* A disconnection is reported twice by minclient, so link may be down already;
\* it connects again only once every callback of the last connection returned.
onConnection(up) ==
    /\ up => /\ ~link /\ (wpc # "await" \/ EarlyConn)
             /\ \A a \in Ack : apc[a] \in AckDone \cup {"idle"}
    /\ link' = up
    /\ SendOp(IF up THEN "connected" ELSE "disconnected")

onDocument(valid) ==
    /\ SendOp(IF valid THEN "document" ELSE "badDocument")
    /\ UNCHANGED link

\* The deadline SentAt + ReplyETA + RoundTripTimeSlop of m passes.
Expire(m) ==
    /\ m \in (sentAt \cap WithSURB) \ expired
    /\ expired' = expired \cup {m}
    /\ UNCHANGED <<queueVars, chanVars, caller, surbIDMap, sentAt, workVars,
                   ackVars, gcVars, opVars, outVars, halted>>

\* Session.Shutdown closes HaltCh: the application calls it, or the client's
\* watcher once it has received an error.
Halt ==
    /\ SessionUp /\ ~halted /\ halted' = TRUE
    /\ MayHalt \/ fatal # {}
    /\ UNCHANGED <<queueVars, chanVars, caller, surbVars, workVars, ackVars,
                   gcVars, opVars, outVars>>

Environment ==
    \/ Call \/ Halt
    \/ \E up \in BOOLEAN : onConnection(up) \/ onDocument(up)
    \/ \E a \in Ack, m \in Message : DeliverACK(a, m)

Next ==
    \/ Environment \/ WorkerStep \/ GCStep
    \/ \E b \in Caller : CallerStep(b)
    \/ \E a \in Ack : AckStep(a)
    \/ \E m \in Message : Expire(m)

Spec == Init /\ [][Next]_vars
-----------------------------------------------------------------------------
(* What holds in every state.                                             *)

(* Every variable of the session holds a value of its kind.               *)
TypeOK ==
    /\ egressQueue \in Seq(Queueable) /\ accepted \subseteq Async
    /\ sentWaitChanMap \subseteq Caller /\ closedSentChan \subseteq Caller
    /\ replyWaitChanMap \subseteq Caller
    /\ caller \in [Caller -> CallerStates]
    /\ surbIDMap \subseteq Message /\ sentAt \subseteq Message
    /\ expired \subseteq Message
    /\ wpc \in WorkerStates /\ wmsg \in Message \cup {NoMsg}
    /\ werr \in BOOLEAN /\ decoys \subseteq Loop \cup Drop
    /\ decoyLoopTally \in 0 .. (TallyModulus - 1)
    /\ apc \in [Ack -> AckStates] /\ amsg \in [Ack -> Message \cup {NoMsg}]
    /\ gpc \in {"range", "delete", "emit", "stopped"}
    /\ gmsg \in Message \cup {NoMsg}
    /\ opCh \in Seq(Ops) /\ opCount \in Nat
    /\ isConnected \in BOOLEAN /\ link \in BOOLEAN /\ halted \in BOOLEAN
    /\ events \in [Message -> Seq(EventKinds)] /\ fatal \subseteq Fatals

(* The branches of sendNext and doSend that the code calls impossible are: *)
(* nothing empties the queue between the worker's Peeks and its Pop, and   *)
(* no blocking call gives up its sentWaitChan before the worker used it.   *)
NoImpossibleFailure == fatal \cap {"peek", "pop", "sentWaitChan"} = {}

(* What a blocking call learns is true: it waits for a reply only if the   *)
(* message was sent, reports ErrMessageNotSent only if it never was,       *)
(* ErrReplyTimeout only past the deadline, and returns a reply only if a   *)
(* callback for its own message handed one over.                           *)
VerdictTruthful ==
    \A b \in Caller :
        /\ caller[b] = "waitReply" => b \in sentAt
        /\ caller[b] = "notSent" => b \notin sentAt
        /\ caller[b] = "timeout" => b \in expired
        /\ caller[b] = "replied" =>
               \E a \in Ack : amsg[a] = b /\ apc[a] = "answered"

Answered == {a \in Ack : amsg[a] \in Loop /\ apc[a] = "answered"}
Uncounted == IF wmsg \in Loop /\ wpc \in {"send", "store", "emit", "count"}
             THEN 1 ELSE 0

(* decoyLoopTally, modulo 2^64, counts the loop decoys attempted less the  *)
(* replies decrypted, although a reply may be subtracted before the        *)
(* deferred increment adds its decoy.                                      *)
TallyCountsUnanswered ==
    (decoyLoopTally + Cardinality(Answered) + Uncounted) % TallyModulus
        = Cardinality(decoys \cap Loop) % TallyModulus

(* A reply to a blocking call is discarded at session.go:297 only if that  *)
(* call timed out or has had the same reply from another callback: as long *)
(* as the caller can still take its reply, onACK finds the channel.        *)
LateReplyMeansTimeout ==
    \A a \in Ack : apc[a] = "late" => caller[amsg[a]] \in {"timeout", "replied"}

\* What the application was told of the sending of m.
SendReported(m) ==
    IF m \in Caller THEN caller[m] # "waitSent" \/ m \in closedSentChan
                    ELSE \E i \in 1 .. Len(events[m]) :
                             events[m][i] \in {"sent", "failed"}

(* A message leaves the egress queue only from its head, as the message    *)
(* the worker has just processed, and after its outcome was reported to    *)
(* the caller or in an event: nothing is dropped in silence or sent twice. *)
PopReportsOutcome ==
    [][Len(egressQueue') < Len(egressQueue) =>
         /\ egressQueue' = Tail(egressQueue)
         /\ wmsg = Head(egressQueue) /\ SendReported(wmsg)]_vars
-----------------------------------------------------------------------------
(* Fairness: every goroutine that can run does; a timer that is armed      *)
(* fires and select, which picks among ready cases at random, takes it;    *)
(* deadlines pass.  Calls, connections, documents, deliveries and failures *)
(* are not promised.                                                       *)
Fairness ==
    /\ WF_vars(AwaitOp) /\ WF_vars(StartWorker) /\ SF_vars(ReceiveOp)
    /\ SF_vars(egressQueue # <<>> /\ LambdaP) /\ WF_vars(Sending) /\ WF_vars(GCStep)
    /\ \A b \in Caller : WF_vars(CallerStep(b))
    /\ \A a \in Ack : WF_vars(AckStep(a))
    /\ \A m \in WithSURB : WF_vars(Expire(m))

FairSpec == Spec /\ Fairness

\* The worker will send nothing more: it has stopped, or waits for ever with
\* its second fatal error.
WorkerGone == wpc \in {"stopped", "blocked"}

(* A blocking call whose message was sent returns, also after a Shutdown:  *)
(* with a reply or a timeout.  A call whose message waits in the queue     *)
(* returns if the worker stays connected.  The exception is a worker that  *)
(* is gone, after a Shutdown or a fatal error: nobody then tells the call, *)
(* which waits at send.go:215 for ever.                                    *)
BlockingCallReturns ==
    \A b \in Caller :
        /\ caller[b] = "waitReply" ~> caller[b] \in Finished
        /\ <>[]isConnected =>
               (caller[b] = "waitSent" ~> caller[b] \in Finished \/ WorkerGone)

(* No SURB ID stays in the map for ever: a reply or the garbage collector  *)
(* removes it, decoys included, until a Shutdown stops the collector.      *)
SURBReclaimed ==
    \A m \in WithSURB : m \in surbIDMap ~> m \notin surbIDMap \/ gpc = "stopped"

(* A reply that meets a call that has timed out is discarded, as           *)
(* session.go:295 says: the callback that carries it returns.              *)
CallbackReturns == \A a \in Ack : apc[a] = "deliver" ~> apc[a] \in AckDone
=============================================================================
