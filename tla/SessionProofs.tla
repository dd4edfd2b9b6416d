---------------------------- MODULE SessionProofs ----------------------------
(***************************************************************************)
(* Proofs about Session, for every number of callers, messages, decoys and *)
(* callbacks, every queue capacity, and whether or not replies are         *)
(* delivered repeatedly, the session is halted or connections come early.  *)
(***************************************************************************)
EXTENDS Session, SequenceTheorems, FiniteSetTheorems, TLAPS

\* A leaf that names no prover is tried with each of these in turn.
USE SMTT(30), Z3T(30), ZenonT(60)

(* A tally stays below the modulus.                                        *)
LEMMA TallyRange ==
    ASSUME NEW t \in 0 .. (TallyModulus - 1)
    PROVE  /\ Increment(t) \in 0 .. (TallyModulus - 1)
           /\ Decrement(t) \in 0 .. (TallyModulus - 1)
  BY BoundAssumption DEF Increment, Decrement

(* Appending to and removing from a sequence of S keeps it one.            *)
LEMMA SeqOps ==
    ASSUME NEW S, NEW q \in Seq(S)
    PROVE  /\ \A e \in S : Append(q, e) \in Seq(S)
           /\ q # <<>> => Head(q) \in S /\ Tail(q) \in Seq(S)
  BY AppendProperties, HeadTailProperties

(* An event of a known kind keeps the events well typed.                   *)
LEMMA EmitType ==
    ASSUME events \in [Message -> Seq(EventKinds)],
           NEW m \in Message, NEW kind \in EventKinds, Emit(m, kind)
    PROVE  events' \in [Message -> Seq(EventKinds)]
  <1>1. events[m] \in Seq(EventKinds)
    OBVIOUS
  <1>2. Append(events[m], kind) \in Seq(EventKinds)
    BY <1>1, SeqOps
  <1> QED BY <1>2 DEF Emit

(* After a fatal error the worker goes on, or is blocked for ever.         *)
LEMMA FatalSent ==
    ASSUME NEW err \in Fatals, NEW to, SendFatal(err, to), fatal \subseteq Fatals
    PROVE  wpc' \in {to, "blocked"} /\ fatal' \subseteq Fatals
  BY DEF SendFatal

\* The worker has a message in hand wherever doSend and its callers use one.
WorkerMsg ==
    /\ wpc \in {"send", "store", "notify", "emit", "pop", "count"}
          => wmsg \in Message
    /\ wpc = "store" => wmsg \in WithSURB /\ ~werr
    /\ wpc = "notify" => wmsg \in Caller
    /\ wpc = "pop" => wmsg \in Queueable
    /\ gpc \in {"delete", "emit"} => gmsg \in Message

TypeInv == TypeOK /\ WorkerMsg

(* The type invariant, strengthened so that it is inductive: doSend never  *)
(* runs without a message.                                                 *)
LEMMA TypeInvariant == Spec => []TypeInv
  <1>1. Init => TypeInv
    <2> SUFFICES ASSUME Init PROVE TypeInv
      OBVIOUS
    <2>1. /\ egressQueue \in Seq(Queueable) /\ opCh \in Seq(Ops)
          /\ events \in [Message -> Seq(EventKinds)]
      BY EmptySeq DEF Init
    <2>2. /\ caller \in [Caller -> CallerStates] /\ apc \in [Ack -> AckStates]
          /\ amsg \in [Ack -> Message \cup {NoMsg}]
      BY DEF Init, CallerStates, AckStates
    <2>3. decoyLoopTally \in 0 .. (TallyModulus - 1)
      BY BoundAssumption DEF Init
    <2> QED BY Zenon, <2>1, <2>2, <2>3 DEF Init, TypeInv, TypeOK, WorkerMsg, WorkerStates
  <1>2. TypeInv /\ [Next]_vars => TypeInv'
    <2> SUFFICES ASSUME TypeInv, [Next]_vars PROVE TypeInv'
      OBVIOUS
    <2> USE DEF TypeInv, TypeOK, WorkerMsg, queueVars, chanVars, surbVars,
                workVars, ackVars, gcVars, opVars, outVars
    <2> USE MessageAssumption DEF Queueable, Message, WithSURB
    <2>1. ASSUME NEW m \in Async, SendUnreliableMessage(m) PROVE TypeInv'
      BY <2>1, SeqOps DEF SendUnreliableMessage
    <2>2. ASSUME NEW b \in Caller, BlockingSend(b) PROVE TypeInv'
      <3>1. egressQueue' \in Seq(Queueable)
        <4>1. Append(egressQueue, b) \in Seq(Queueable)
          BY SeqOps
        <4> QED BY Zenon, <2>2, <4>1 DEF BlockingSend
      <3>2. caller' \in [Caller -> CallerStates]
        BY Zenon, <2>2 DEF BlockingSend, CallerStates
      <3> QED BY <2>2, <3>1, <3>2 DEF BlockingSend
    <2>3. ASSUME NEW b \in Caller, CallerStep(b) PROVE TypeInv'
      <3>1. caller' \in [Caller -> CallerStates]
        BY ZenonT(60), <2>3 DEF CallerStep, ReceiveNotSent, ReplyTimeout,
            ReturnFromSend,
                    CallerStates, Finished
      <3> QED BY <2>3, <3>1 DEF CallerStep, ReceiveNotSent, ReplyTimeout,
                                ReturnFromSend
    <2>4. CASE AwaitOp
      <3>1. wpc' \in {"start", "aborted", "await", "blocked"} /\ fatal' \subseteq Fatals
        BY Zenon, <2>4, FatalSent DEF AwaitOp, Fatals
      <3> QED BY <2>4, <3>1, SeqOps DEF AwaitOp, WorkerStates
    <2>5. CASE AwaitTimeout \/ StartWorker \/ StopWorker
      <3>1. /\ wpc' \in {"aborted", "select", "stopped", "blocked"}
            /\ fatal' \subseteq Fatals
        BY Zenon, <2>5, FatalSent DEF AwaitTimeout, StartWorker, StopWorker, WorkerAt, Fatals
      <3>2. UNCHANGED <<queueVars, chanVars, caller, surbVars, wmsg, werr, decoys,
                        ackVars, gcVars, opVars, decoyLoopTally, events, halted>>
        BY Zenon, <2>5 DEF AwaitTimeout, StartWorker, StopWorker
      <3> QED BY <3>1, <3>2 DEF WorkerStates
    <2>6. CASE ReceiveOp
      <3>1. wpc' \in {"select", "blocked"} /\ fatal' \subseteq Fatals
        BY Zenon, <2>6, FatalSent DEF ReceiveOp, Fatals
      <3> QED BY ZenonT(60), <2>6, <3>1, SeqOps DEF ReceiveOp, WorkerStates
    <2>7. CASE LambdaP \/ LambdaDecoy(Loop) \/ LambdaDecoy(Drop)
      <3>1. /\ wpc' \in {"select", "blocked", "peek", "send"}
            /\ fatal' \subseteq Fatals
        BY Zenon, <2>7, FatalSent DEF LambdaP, LambdaDecoy, SendDecoy, Fatals
      <3>2. /\ wmsg' \in Message \cup {NoMsg} /\ decoys' \subseteq Loop \cup Drop
            /\ wpc' = "send" => wmsg' \in Message
        BY ZenonT(60), <2>7 DEF LambdaP, LambdaDecoy, SendDecoy, SendFatal
      <3> QED BY ZenonT(60), <2>7, <3>1, <3>2 DEF LambdaP, LambdaDecoy, WorkerStates
    <2>9. CASE PeekNext
      <3>1. egressQueue # <<>> => Head(egressQueue) \in Queueable
        BY SeqOps
      <3>2. wpc' \in {"select", "blocked", "send"} /\ fatal' \subseteq Fatals
        BY Zenon, <2>9, FatalSent DEF PeekNext, WorkerAt, Fatals
      <3>3. /\ wmsg' \in Message \cup {NoMsg}
            /\ wpc' = "send" => wmsg' \in Message
        BY ZenonT(60), <2>9, <3>1 DEF PeekNext, WorkerAt, SendFatal
      <3>4. UNCHANGED <<queueVars, chanVars, caller, surbVars, werr, decoys,
                        ackVars, gcVars, opVars, decoyLoopTally, events, halted>>
        BY Zenon, <2>9 DEF PeekNext
      <3> QED BY <3>2, <3>3, <3>4 DEF WorkerStates
    <2>10. CASE SendToMinclient
      BY <2>10 DEF SendToMinclient, AfterSend, WorkerStates
    <2>11. CASE StoreSURB
      BY <2>11 DEF StoreSURB, WorkerStates
    <2>12. CASE NotifyCaller
      <3>1. wpc = "notify" /\ wpc' \in {"pop", "blocked"} /\ fatal' \subseteq Fatals
        BY Zenon, <2>12, FatalSent DEF NotifyCaller, WorkerAt, Fatals
      <3>2. /\ caller' \in [Caller -> CallerStates] /\ closedSentChan' \subseteq Caller
            /\ wmsg \in Caller
        BY ZenonT(60), <2>12, <3>1 DEF NotifyCaller, CloseSentChan, CallerStates
      <3> QED BY ZenonT(60), <2>12, <3>1, <3>2 DEF NotifyCaller, WorkerStates
    <2>13. CASE EmitSent
      <3>1. events' \in [Message -> Seq(EventKinds)]
        BY <2>13, EmitType DEF EmitSent, EventKinds
      <3> QED BY <2>13, <3>1 DEF EmitSent, AfterEmit, WorkerStates
    <2>14. CASE PopSent
      <3>1. egressQueue # <<>> => Tail(egressQueue) \in Seq(Queueable)
        BY SeqOps
      <3>2. wpc' \in {"select", "blocked"} /\ fatal' \subseteq Fatals
        BY Zenon, <2>14, FatalSent DEF PopSent, WorkerAt, Fatals
      <3>3. egressQueue' \in Seq(Queueable)
        BY Zenon, <2>14, <3>1 DEF PopSent
      <3>4. UNCHANGED <<accepted, chanVars, caller, surbVars, wmsg, werr, decoys,
                        ackVars, gcVars, opVars, decoyLoopTally, events, halted>>
        BY <2>14 DEF PopSent
      <3> QED BY <3>2, <3>3, <3>4 DEF WorkerStates
    <2>15. CASE CountLoop
      <3>1. decoyLoopTally' \in 0 .. (TallyModulus - 1)
        BY <2>15, TallyRange DEF CountLoop
      <3> QED BY <2>15, <3>1 DEF CountLoop, WorkerAt, WorkerStates
    <2>16. ASSUME NEW a \in Ack, NEW m \in Message, DeliverACK(a, m) PROVE TypeInv'
      BY <2>16 DEF DeliverACK, AckAt, AckStates
    <2>17. ASSUME NEW a \in Ack,
                  LoadSURB(a) \/ DeleteSURB(a) \/ HandOverReply(a)
           PROVE  TypeInv'
      <3>1. apc' \in [Ack -> AckStates]
        BY ZenonT(60), <2>17 DEF LoadSURB, DeleteSURB, HandOverReply, AckAt,
            AckStates, AckDone
      <3>2. caller' \in [Caller -> CallerStates]
        BY <2>17 DEF LoadSURB, DeleteSURB, HandOverReply, CallerStates, Finished
      <3> QED BY <2>17, <3>1, <3>2 DEF LoadSURB, DeleteSURB, HandOverReply
    <2>18. ASSUME NEW a \in Ack, DispatchReply(a) PROVE TypeInv'
      <3>1. apc' \in [Ack -> AckStates]
        BY Zenon, <2>18 DEF DispatchReply, AckAt, AckStates, AckDone
      <3>2. events' \in [Message -> Seq(EventKinds)]
        BY Zenon, <2>18, EmitType DEF DispatchReply, EventKinds
      <3>3. decoyLoopTally' \in 0 .. (TallyModulus - 1)
        BY ZenonT(60), <2>18, TallyRange DEF DispatchReply
      <3> QED BY <2>18, <3>1, <3>2, <3>3 DEF DispatchReply
    <2>19. CASE RangeSURB \/ CollectSURB \/ StopGC
      BY <2>19 DEF RangeSURB, Collectable, CollectSURB, StopGC
    <2>20. CASE EmitCollected
      <3>1. gmsg \in Message /\ Emit(gmsg, "collected")
        BY <2>20 DEF EmitCollected
      <3>2. events' \in [Message -> Seq(EventKinds)]
        BY Zenon, <3>1, EmitType DEF EventKinds
      <3> QED BY <2>20, <3>2 DEF EmitCollected
    <2>21. ASSUME NEW up \in BOOLEAN,
        onConnection(up) \/ onDocument(up) PROVE TypeInv'
      <3>1. opCh' \in Seq(Ops)
        <4>1. \A op \in Ops : Append(opCh, op) \in Seq(Ops)
          BY SeqOps
        <4>2. PICK op \in Ops : opCh' = Append(opCh, op)
          BY <2>21 DEF onConnection, onDocument, SendOp, Ops, Statuses
        <4> QED BY <4>1, <4>2
      <3> QED BY <2>21, <3>1 DEF onConnection, onDocument, SendOp
    <2>22. CASE Halt
      BY <2>22 DEF Halt
    <2>23. ASSUME NEW m \in Message, Expire(m) PROVE TypeInv'
      BY <2>23 DEF Expire
    <2>24. CASE UNCHANGED vars
      BY <2>24 DEF vars
    <2> QED BY Zenon, <2>1, <2>2, <2>3, <2>4, <2>5, <2>6, <2>7, <2>9, <2>10,
        <2>11, <2>12, <2>13, <2>14, <2>15, <2>16, <2>17, <2>18, <2>19, <2>20,
            <2>21, <2>22, <2>23, <2>24
            DEF Next, Environment, Call, WorkerStep, Sending, GCStep, AckStep
  <1> QED BY <1>1, <1>2, PTL DEF Spec

(* Every variable of the session keeps to its kind.                        *)
THEOREM TypeCorrect == Spec => []TypeOK
  BY TypeInvariant, PTL DEF TypeInv
-----------------------------------------------------------------------------
\* The message being sent stays at the head of the queue until it is popped.
HeadInv ==
    /\ wpc = "peek" => egressQueue # <<>>
    /\ wpc \in {"send", "store", "notify", "emit", "pop"} /\ wmsg \in Queueable
          => egressQueue # <<>> /\ Head(egressQueue) = wmsg

\* The head of the queue has been dealt with and only remains to be popped.
Processed(i) == i = 1 /\ wpc = "pop"

\* A queued blocking call waits, with its channel open, until it is told.
WaitInv ==
    \A i \in 1 .. Len(egressQueue) :
        egressQueue[i] \in Caller =>
            /\ caller[egressQueue[i]] # "ready"
            /\ \/ Processed(i)
               \/ /\ caller[egressQueue[i]] = "waitSent"
                  /\ egressQueue[i] \in sentWaitChanMap
                  /\ egressQueue[i] \notin closedSentChan

\* No blocking call is queued twice.
OnceInv ==
    \A i, j \in 1 .. Len(egressQueue) :
        egressQueue[i] = egressQueue[j] /\ egressQueue[i] \in Caller => i = j

\* A blocking message has been sent only if it is past minclient, and a call
\* whose channel was closed was never sent.
SentInv ==
    /\ \A b \in Caller : caller[b] \in {"ready", "queueFull"} => b \notin sentAt
    /\ \A i \in 1 .. Len(egressQueue) :
          egressQueue[i] \in Caller \cap sentAt =>
              i = 1 /\ egressQueue[1] = wmsg /\ wpc \in {"store", "notify", "pop"}
    /\ \A b \in closedSentChan :
          b \notin sentAt /\ caller[b] \notin {"ready", "queueFull"}
    /\ wpc = "notify" => (werr <=> wmsg \notin sentAt)
    /\ wpc = "store" => wmsg \in sentAt

QueueInv == HeadInv /\ WaitInv /\ OnceInv /\ SentInv /\ NoImpossibleFailure

\* What QueueInv speaks of.
queueInvVars == <<egressQueue, wpc, wmsg, werr, caller, sentWaitChanMap,
                  closedSentChan, sentAt, fatal>>

(* Steps that touch none of the variables of QueueInv preserve it.         *)
LEMMA QueueFrame == QueueInv /\ UNCHANGED queueInvVars => QueueInv'
  BY DEF QueueInv, queueInvVars, HeadInv, WaitInv, OnceInv, SentInv, Processed,
         NoImpossibleFailure

(* A step of the worker that leaves queue and callers alone preserves what *)
(* is said of the queued calls, as long as it forgets no processed head.   *)
LEMMA WaitFrame ==
    ASSUME WaitInv, OnceInv, wpc # "pop" \/ wpc' = "pop",
           UNCHANGED <<egressQueue, caller, sentWaitChanMap, closedSentChan>>
    PROVE  WaitInv' /\ OnceInv'
  BY DEF WaitInv, OnceInv, Processed

(* The queue after Push.                                                   *)
LEMMA PushEntries ==
    ASSUME NEW q \in Seq(Queueable), NEW e \in Queueable
    PROVE  /\ Len(Append(q, e)) = Len(q) + 1 /\ Append(q, e) # <<>>
           /\ Len(q) \in Nat
           /\ \A i \in 1 .. Len(q) : Append(q, e)[i] = q[i]
           /\ Append(q, e)[Len(q) + 1] = e
           /\ q # <<>> => Head(Append(q, e)) = Head(q)
  <1>1. /\ Append(q, e) \in Seq(Queueable) /\ Append(q, e) # <<>>
        /\ Len(Append(q, e)) = Len(q) + 1
        /\ \A i \in 1 .. Len(q) : Append(q, e)[i] = q[i]
        /\ Append(q, e)[Len(q) + 1] = e
    BY AppendProperties
  <1>2. Len(q) \in Nat
    BY LenProperties
  <1>3. q # <<>> => Head(Append(q, e)) = Head(q)
    BY HeadTailAppend
  <1> QED BY <1>1, <1>2, <1>3

(* The queue after Pop.                                                    *)
LEMMA PopEntries ==
    ASSUME NEW q \in Seq(Queueable), q # <<>>
    PROVE  /\ Len(q) \in Nat \ {0} /\ Len(Tail(q)) = Len(q) - 1
           /\ \A i \in 1 .. Len(Tail(q)) : Tail(q)[i] = q[i + 1]
           /\ Head(q) = q[1]
  <1>1. /\ Len(Tail(q)) = Len(q) - 1
        /\ \A i \in 1 .. Len(Tail(q)) : Tail(q)[i] = q[i + 1]
    BY HeadTailProperties
  <1>2. Len(q) \in Nat \ {0}
    BY EmptySeq
  <1> QED BY <1>1, <1>2

(* A call that is neither waiting to be sent nor about to be is queued     *)
(* only as the processed head.                                             *)
LEMMA ToldIsProcessed ==
    ASSUME WaitInv, NEW b \in Caller, NEW i \in 1 .. Len(egressQueue),
           egressQueue[i] = b, caller[b] # "waitSent" \/ b \in closedSentChan
    PROVE  Processed(i)
  BY DEF WaitInv

(* A call that moves on after it was told preserves QueueInv.              *)
LEMMA CallerMoves ==
    ASSUME TypeOK, QueueInv, NEW b \in Caller, NEW to \in Finished,
           caller[b] = "waitReply" \/ b \in closedSentChan,
           caller' = [caller EXCEPT ![b] = to],
           UNCHANGED <<egressQueue, wpc, wmsg, werr, sentWaitChanMap,
                       closedSentChan, sentAt, fatal>>
    PROVE  QueueInv'
  <1>1. /\ caller'[b] = to /\ to \notin {"ready", "queueFull"}
        /\ \A c \in Caller : c # b => caller'[c] = caller[c]
    BY DEF TypeOK, Finished
  <1>2. WaitInv'
    <2> SUFFICES ASSUME NEW i \in 1 .. Len(egressQueue), egressQueue[i] \in Caller
                 PROVE  /\ caller'[egressQueue[i]] # "ready"
                        /\ \/ Processed(i)
                           \/ /\ caller'[egressQueue[i]] = "waitSent"
                              /\ egressQueue[i] \in sentWaitChanMap
                              /\ egressQueue[i] \notin closedSentChan
      BY DEF WaitInv, Processed
    <2>1. CASE egressQueue[i] = b
      BY <1>1, <2>1, ToldIsProcessed DEF QueueInv
    <2>2. CASE egressQueue[i] # b
      BY <1>1, <2>2 DEF QueueInv, WaitInv
    <2> QED BY <2>1, <2>2
  <1>3. HeadInv' /\ OnceInv' /\ NoImpossibleFailure'
    BY DEF QueueInv, HeadInv, OnceInv, NoImpossibleFailure
  <1>4. SentInv'
    BY <1>1 DEF QueueInv, SentInv
  <1> QED BY <1>2, <1>3, <1>4 DEF QueueInv

(* A push by a new message preserves QueueInv.                             *)
LEMMA PushPreserves ==
    ASSUME TypeInv, QueueInv, NEW e \in Queueable,
           egressQueue' = Append(egressQueue, e),
           \/ /\ e \in Async /\ UNCHANGED <<caller, sentWaitChanMap>>
           \/ /\ e \in Caller /\ caller[e] = "ready"
              /\ caller' = [caller EXCEPT ![e] = "waitSent"]
              /\ sentWaitChanMap' = sentWaitChanMap \cup {e}
              /\ e \notin closedSentChan,
           UNCHANGED <<wpc, wmsg, werr, closedSentChan, sentAt, fatal>>
    PROVE  QueueInv'
  <1> USE MessageAssumption DEF TypeInv
  <1>1. /\ egressQueue \in Seq(Queueable) /\ Len(egressQueue) \in Nat
        /\ Len(egressQueue') = Len(egressQueue) + 1 /\ egressQueue' # <<>>
        /\ \A i \in 1 .. Len(egressQueue) : egressQueue'[i] = egressQueue[i]
        /\ egressQueue'[Len(egressQueue) + 1] = e
        /\ egressQueue # <<>> => Head(egressQueue') = Head(egressQueue)
    BY PushEntries DEF TypeOK
  <1>2. \A i \in 1 .. Len(egressQueue') :
            i \in 1 .. Len(egressQueue) \/ i = Len(egressQueue) + 1
    BY <1>1
  <1>3. e \in Caller =>
          /\ \A i \in 1 .. Len(egressQueue) : egressQueue[i] # e
          /\ e \notin sentAt /\ caller'[e] = "waitSent"
    BY DEF QueueInv, WaitInv, SentInv, TypeOK
  <1>4. \A c \in Caller : c # e => caller'[c] = caller[c]
    BY DEF TypeOK
  <1>5. HeadInv' /\ NoImpossibleFailure'
    BY <1>1 DEF QueueInv, HeadInv, NoImpossibleFailure
  <1>6. WaitInv'
    <2> SUFFICES ASSUME NEW i \in 1 .. Len(egressQueue'),
                        egressQueue'[i] \in Caller
                 PROVE  /\ caller'[egressQueue'[i]] # "ready"
                        /\ \/ Processed(i)'
                           \/ /\ caller'[egressQueue'[i]] = "waitSent"
                              /\ egressQueue'[i] \in sentWaitChanMap'
                              /\ egressQueue'[i] \notin closedSentChan'
      BY DEF WaitInv
    <2>1. CASE i \in 1 .. Len(egressQueue)
      <3>1. egressQueue'[i] = egressQueue[i] /\ egressQueue[i] # e
        BY <1>1, <1>3, <2>1 DEF Queueable
      <3> QED BY <2>1, <3>1, <1>4 DEF QueueInv, WaitInv, Processed
    <2>2. CASE i = Len(egressQueue) + 1
      BY <1>1, <1>3, <2>2
    <2> QED BY <1>2, <2>1, <2>2
  <1>7. OnceInv'
    <2> SUFFICES ASSUME NEW i \in 1 .. Len(egressQueue'),
                        NEW j \in 1 .. Len(egressQueue'),
                        egressQueue'[i] = egressQueue'[j],
                        egressQueue'[i] \in Caller
                 PROVE  i = j
      BY DEF OnceInv
    <2>1. CASE i \in 1 .. Len(egressQueue) /\ j \in 1 .. Len(egressQueue)
      BY <1>1, <2>1 DEF QueueInv, OnceInv
    <2>2. CASE i = Len(egressQueue) + 1 \/ j = Len(egressQueue) + 1
      BY <1>1, <1>2, <1>3, <2>2
    <2> QED BY <1>2, <2>1, <2>2
  <1>8. SentInv'
    <2>1. \A c \in Caller : caller'[c] \in {"ready", "queueFull"} => c \notin sentAt'
      BY <1>3, <1>4 DEF QueueInv, SentInv
    <2>2. \A i \in 1 .. Len(egressQueue') :
            egressQueue'[i] \in Caller \cap sentAt' =>
                /\ i = 1 /\ egressQueue'[1] = wmsg'
                /\ wpc' \in {"store", "notify", "pop"}
      BY <1>1, <1>2, <1>3 DEF QueueInv, SentInv
    <2>3. \A b \in closedSentChan' :
            b \notin sentAt' /\ caller'[b] \notin {"ready", "queueFull"}
      BY <1>3, <1>4 DEF QueueInv, SentInv, TypeOK
    <2> QED BY <2>1, <2>2, <2>3 DEF QueueInv, SentInv
  <1> QED BY <1>5, <1>6, <1>7, <1>8 DEF QueueInv

(* A step of the worker between two sends preserves QueueInv.              *)
LEMMA IdleWorker ==
    ASSUME TypeInv, QueueInv,
           wpc \in {"await", "start", "select", "count"} \/
              (wpc = "emit" /\ wmsg \notin Queueable),
           wpc' \in {"await", "aborted", "start", "select", "stopped", "blocked", "count"}
             \/ (wpc' = "peek" /\ egressQueue # <<>>)
             \/ (wpc' = "send" /\ wmsg' \in Loop \cup Drop),
           fatal' \cap {"peek", "pop", "sentWaitChan"}
             \subseteq fatal \cap {"peek", "pop", "sentWaitChan"},
           UNCHANGED <<egressQueue, caller, sentWaitChanMap, closedSentChan, sentAt>>
    PROVE  QueueInv'
  <1>1. WaitInv' /\ OnceInv'
    BY WaitFrame DEF QueueInv
  <1>2. HeadInv' /\ NoImpossibleFailure'
    BY MessageAssumption DEF QueueInv, HeadInv, NoImpossibleFailure
  <1>3. SentInv'
    BY DEF QueueInv, SentInv, HeadInv
  <1> QED BY <1>1, <1>2, <1>3 DEF QueueInv

(* Everything that a step of the worker inside sendNext may assume.        *)
LEMMA InSend ==
    ASSUME TypeInv, QueueInv, wmsg \in Caller,
           wpc \in {"send", "store", "notify"}
    PROVE  /\ egressQueue # <<>> /\ Len(egressQueue) \in Nat \ {0}
           /\ egressQueue[1] = wmsg /\ caller[wmsg] = "waitSent"
           /\ wmsg \in sentWaitChanMap /\ wmsg \notin closedSentChan
           /\ \A i \in 1 .. Len(egressQueue) : egressQueue[i] = wmsg => i = 1
  <1>1. egressQueue # <<>> /\ Head(egressQueue) = wmsg
    BY DEF QueueInv, HeadInv, Queueable
  <1>2. Len(egressQueue) \in Nat \ {0} /\ egressQueue[1] = wmsg
    BY <1>1, PopEntries DEF TypeInv, TypeOK
  <1>3. 1 \in 1 .. Len(egressQueue)
    BY <1>2
  <1>4. /\ caller[wmsg] = "waitSent"
        /\ wmsg \in sentWaitChanMap /\ wmsg \notin closedSentChan
    BY <1>2, <1>3 DEF QueueInv, WaitInv, Processed
  <1> QED BY <1>1, <1>2, <1>3, <1>4 DEF QueueInv, OnceInv

(* The calls of minclient and the Store after it preserve QueueInv.        *)
LEMMA SendPreserves ==
    ASSUME TypeInv, QueueInv, SendToMinclient \/ StoreSURB
    PROVE  QueueInv'
  <1> USE MessageAssumption DEF TypeInv, Message, WithSURB
  <1>1. /\ UNCHANGED <<egressQueue, caller, sentWaitChanMap, closedSentChan,
                       wmsg, fatal>>
        /\ wpc \in {"send", "store"} /\ wpc' \in {"store", "notify", "emit"}
    BY DEF SendToMinclient, StoreSURB, AfterSend, queueVars, chanVars, outVars
  <1>2. WaitInv' /\ OnceInv'
    BY <1>1, WaitFrame DEF QueueInv
  <1>3. HeadInv' /\ NoImpossibleFailure'
    BY <1>1 DEF QueueInv, HeadInv, NoImpossibleFailure
  <1>4. SentInv'
    <2>1. CASE SendToMinclient
      <3>1. /\ wpc = "send" /\ wmsg \in Message /\ werr' \in BOOLEAN
            /\ wpc' = AfterSend(wmsg, werr')
            /\ sentAt' = IF werr' THEN sentAt ELSE sentAt \cup {wmsg}
        BY <2>1 DEF SendToMinclient, WorkerMsg
      <3>2. wmsg \in Caller =>
              /\ caller[wmsg] = "waitSent" /\ wmsg \notin closedSentChan
              /\ \A i \in 1 .. Len(egressQueue) : egressQueue[i] = wmsg => i = 1
              /\ egressQueue[1] = wmsg /\ Len(egressQueue) \in Nat \ {0}
        BY <3>1, InSend
      <3>3. \A i \in 1 .. Len(egressQueue) :
                egressQueue[i] \in Caller => egressQueue[i] \notin sentAt
        BY <3>1 DEF QueueInv, SentInv
      <3>4. wmsg \in Caller => wmsg \notin sentAt
        BY <3>2, <3>3
      <3>5. \A i \in 1 .. Len(egressQueue) :
              egressQueue[i] \in Caller \cap sentAt' =>
                  /\ i = 1 /\ egressQueue[1] = wmsg
                  /\ wpc' \in {"store", "notify", "pop"}
        BY <3>1, <3>2, <3>3 DEF AfterSend, Queueable
      <3>6. /\ wpc' = "notify" => (werr' <=> wmsg \notin sentAt')
            /\ wpc' = "store" => wmsg \in sentAt'
        BY <3>1, <3>4 DEF AfterSend
      <3>7. /\ \A b \in Caller :
                  caller[b] \in {"ready", "queueFull"} => b \notin sentAt'
            /\ \A b \in closedSentChan :
                  b \notin sentAt' /\ caller[b] \notin {"ready", "queueFull"}
        BY <3>1, <3>2 DEF QueueInv, SentInv, TypeOK
      <3> QED BY <1>1, <3>5, <3>6, <3>7 DEF SentInv
    <2>2. CASE StoreSURB
      <3>1. /\ wpc = "store" /\ wmsg \in WithSURB /\ ~werr /\ werr' = werr
            /\ wpc' = IF wmsg \in Caller THEN "notify" ELSE "emit"
            /\ sentAt' = sentAt
        BY <2>2 DEF StoreSURB, WorkerMsg
      <3> QED BY <1>1, <3>1 DEF QueueInv, SentInv
    <2> QED BY <2>1, <2>2
  <1> QED BY <1>2, <1>3, <1>4 DEF QueueInv

(* Telling the caller preserves QueueInv.                                  *)
LEMMA NotifyPreserves ==
    ASSUME TypeInv, QueueInv, NotifyCaller
    PROVE  QueueInv'
  <1> USE MessageAssumption DEF TypeInv
  <1>1. /\ wpc = "notify" /\ wmsg \in Caller
        /\ UNCHANGED <<egressQueue, sentWaitChanMap, wmsg, werr, sentAt>>
    BY DEF NotifyCaller, WorkerAt, WorkerMsg, queueVars, surbVars
  <1>2. /\ caller[wmsg] = "waitSent" /\ wmsg \in sentWaitChanMap
        /\ \A i \in 1 .. Len(egressQueue) : egressQueue[i] = wmsg => i = 1
        /\ egressQueue[1] = wmsg
    BY <1>1, InSend
  <1>3. /\ \/ werr /\ closedSentChan' = closedSentChan \cup {wmsg} /\ caller' = caller
           \/ /\ ~werr /\ closedSentChan' = closedSentChan
              /\ caller' = [caller EXCEPT ![wmsg] = "waitReply"]
        /\ fatal' = fatal /\ wpc' = "pop"
    BY <1>1, <1>2 DEF NotifyCaller, CloseSentChan, WorkerAt
  <1>4. /\ \A c \in Caller : c # wmsg => caller'[c] = caller[c]
        /\ caller'[wmsg] \in {"waitSent", "waitReply"}
        /\ \A c \in Caller : c # wmsg => (c \in closedSentChan' <=> c \in closedSentChan)
    BY <1>2, <1>3 DEF TypeOK
  <1>5. HeadInv' /\ OnceInv' /\ NoImpossibleFailure'
    BY <1>1, <1>3 DEF QueueInv, HeadInv, OnceInv, NoImpossibleFailure
  <1>6. WaitInv'
    <2> SUFFICES ASSUME NEW i \in 1 .. Len(egressQueue), egressQueue[i] \in Caller
                 PROVE  /\ caller'[egressQueue[i]] # "ready"
                        /\ \/ i = 1
                           \/ /\ caller'[egressQueue[i]] = "waitSent"
                              /\ egressQueue[i] \in sentWaitChanMap
                              /\ egressQueue[i] \notin closedSentChan'
      BY <1>1, <1>3 DEF WaitInv, Processed
    <2>1. CASE egressQueue[i] = wmsg
      BY <1>2, <1>4, <2>1
    <2>2. CASE egressQueue[i] # wmsg
      BY <1>1, <1>3, <1>4, <2>2 DEF QueueInv, WaitInv, Processed
    <2> QED BY <2>1, <2>2
  <1>7. SentInv'
    <2>1. werr => wmsg \notin sentAt
      BY <1>1 DEF QueueInv, SentInv
    <2>2. \A b \in closedSentChan' :
            b \notin sentAt /\ caller'[b] \notin {"ready", "queueFull"}
      BY <1>3, <1>4, <2>1 DEF QueueInv, SentInv, TypeOK
    <2>3. \A b \in Caller :
            caller'[b] \in {"ready", "queueFull"} => b \notin sentAt
      BY <1>4 DEF QueueInv, SentInv
    <2> QED BY <1>1, <1>3, <2>2, <2>3 DEF QueueInv, SentInv
  <1> QED BY <1>5, <1>6, <1>7 DEF QueueInv

(* Popping the processed head preserves QueueInv.                          *)
LEMMA PopPreserves ==
    ASSUME TypeInv, QueueInv, PopSent
    PROVE  QueueInv'
  <1> USE DEF TypeInv
  <1>1. /\ wpc = "pop" /\ wpc' \in {"select", "blocked"}
        /\ UNCHANGED <<caller, sentWaitChanMap, closedSentChan, wmsg, werr, sentAt>>
    BY DEF PopSent, WorkerAt, SendFatal, chanVars, surbVars
  <1>2. egressQueue # <<>> /\ Head(egressQueue) = wmsg
    BY <1>1 DEF QueueInv, HeadInv, WorkerMsg
  <1>3. egressQueue' = Tail(egressQueue) /\ fatal' = fatal
    BY <1>2 DEF PopSent
  <1>4. /\ Len(egressQueue) \in Nat \ {0} /\ Len(egressQueue') = Len(egressQueue) - 1
        /\ \A i \in 1 .. Len(egressQueue') : egressQueue'[i] = egressQueue[i + 1]
        /\ egressQueue[1] = wmsg
    BY <1>2, <1>3, PopEntries DEF TypeOK
  <1>5. \A i \in 1 .. Len(egressQueue') : i + 1 \in 1 .. Len(egressQueue) /\ i + 1 # 1
    BY <1>4
  <1>6. HeadInv' /\ NoImpossibleFailure'
    BY <1>1, <1>3 DEF QueueInv, HeadInv, NoImpossibleFailure
  <1>7. WaitInv'
    BY <1>1, <1>4, <1>5 DEF QueueInv, WaitInv, Processed
  <1>8. OnceInv'
    <2> SUFFICES ASSUME NEW i \in 1 .. Len(egressQueue'),
                        NEW j \in 1 .. Len(egressQueue'),
                        egressQueue'[i] = egressQueue'[j], egressQueue'[i] \in Caller
                 PROVE  i = j
      BY DEF OnceInv
    <2>1. i + 1 = j + 1
      BY <1>4, <1>5 DEF QueueInv, OnceInv
    <2> QED BY <1>4, <2>1
  <1>9. SentInv'
    BY <1>1, <1>4, <1>5 DEF QueueInv, SentInv
  <1> QED BY <1>6, <1>7, <1>8, <1>9 DEF QueueInv

(* A call that returns leaves the map only after the worker told it.       *)
LEMMA ReturnPreserves ==
    ASSUME TypeInv, QueueInv, NEW b \in Caller, ReturnFromSend(b)
    PROVE  QueueInv'
  <1>1. /\ sentWaitChanMap' = sentWaitChanMap \ {b}
        /\ caller[b] # "waitSent"
        /\ UNCHANGED <<egressQueue, wpc, wmsg, werr, caller, closedSentChan,
                       sentAt, fatal>>
    BY DEF ReturnFromSend, Returning, Finished, queueVars, surbVars,
        workVars, outVars
  <1>2. WaitInv'
    BY <1>1 DEF QueueInv, WaitInv, Processed
  <1> QED BY <1>1, <1>2 DEF QueueInv, HeadInv, OnceInv, SentInv, NoImpossibleFailure

(* A blocking call preserves QueueInv, whether Push takes it or not.       *)
LEMMA BlockingPreserves ==
    ASSUME TypeInv, QueueInv, NEW b \in Caller, BlockingSend(b)
    PROVE  QueueInv'
  <1>1. /\ caller[b] = "ready" /\ b \notin closedSentChan /\ b \notin sentAt
        /\ UNCHANGED <<wpc, wmsg, werr, closedSentChan, sentAt, fatal>>
    BY DEF BlockingSend, QueueInv, SentInv, surbVars, workVars, outVars
  <1>2. CASE Len(egressQueue) < MaxEgressQueueSize /\ egressQueue' # egressQueue
    BY <1>1, <1>2, PushPreserves DEF BlockingSend, Queueable
  <1>3. CASE /\ caller' = [caller EXCEPT ![b] = "queueFull"]
             /\ UNCHANGED <<egressQueue, sentWaitChanMap>>
    <2>1. /\ caller'[b] = "queueFull"
          /\ \A c \in Caller : c # b => caller'[c] = caller[c]
          /\ \A i \in 1 .. Len(egressQueue) : egressQueue[i] # b
      BY <1>1, <1>3 DEF TypeInv, TypeOK, QueueInv, WaitInv
    <2>2. WaitInv' /\ OnceInv'
      BY <1>1, <1>3, <2>1 DEF QueueInv, WaitInv, OnceInv, Processed
    <2>3. SentInv'
      <3>1. \A c \in closedSentChan : c \in Caller /\ c # b
        BY <1>1 DEF TypeInv, TypeOK
      <3> QED BY <1>1, <1>3, <2>1, <3>1 DEF QueueInv, SentInv
    <2> QED BY <1>1, <1>3, <2>2, <2>3 DEF QueueInv, HeadInv, NoImpossibleFailure
  <1>4. egressQueue' = Append(egressQueue, b) => egressQueue' # egressQueue
    BY PushEntries DEF TypeInv, TypeOK, Queueable
  <1> QED BY <1>2, <1>3, <1>4 DEF BlockingSend

(* QueueInv is an invariant: one step per action.                          *)
LEMMA QueueInvariant == Spec => []QueueInv
  <1>1. Init => QueueInv
    BY DEF Init, QueueInv, HeadInv, WaitInv, OnceInv, SentInv, NoImpossibleFailure
  <1>2. TypeInv /\ QueueInv /\ [Next]_vars => QueueInv'
    <2> SUFFICES ASSUME TypeInv, QueueInv, [Next]_vars PROVE QueueInv'
      OBVIOUS
    <2> USE MessageAssumption DEF TypeInv, queueVars, chanVars, surbVars, workVars,
                                  outVars, WorkerAt
    <2>1. ASSUME NEW m \in Async, SendUnreliableMessage(m) PROVE QueueInv'
      BY <2>1, PushPreserves DEF SendUnreliableMessage, Queueable
    <2>2. ASSUME NEW b \in Caller, BlockingSend(b) PROVE QueueInv'
      BY <2>2, BlockingPreserves
    <2>3. ASSUME NEW b \in Caller,
        ReceiveNotSent(b) \/ ReplyTimeout(b) PROVE QueueInv'
      BY <2>3, CallerMoves DEF ReceiveNotSent, ReplyTimeout, SentChanClosed, Finished
    <2>4. ASSUME NEW b \in Caller, ReturnFromSend(b) PROVE QueueInv'
      BY <2>4, ReturnPreserves
    <2>5. CASE AwaitOp
      <3>1. wpc' \in {"await", "aborted", "start", "blocked"}
        BY <2>5 DEF AwaitOp, SendFatal
      <3>2. /\ wpc = "await"
            /\ UNCHANGED <<egressQueue, caller, sentWaitChanMap, closedSentChan, sentAt>>
        BY <2>5 DEF AwaitOp, queueVars, chanVars, surbVars
      <3>3. fatal' \subseteq fatal \cup {"invalidDoc"}
        BY <2>5 DEF AwaitOp, SendFatal
      <3> QED BY <3>1, <3>2, <3>3, IdleWorker
    <2>6. CASE AwaitTimeout \/ StartWorker \/ ReceiveOp \/ StopWorker \/ CountLoop
      BY <2>6, IdleWorker DEF AwaitTimeout, StartWorker, ReceiveOp,
          StopWorker, CountLoop, SendFatal
    <2>7. CASE LambdaP \/ LambdaDecoy(Loop) \/ LambdaDecoy(Drop)
      BY <2>7, IdleWorker DEF LambdaP, LambdaDecoy, SendDecoy, SendFatal
    <2>8. CASE PeekNext
      <3>1. /\ wpc = "peek" /\ wpc' = "send" /\ egressQueue # <<>>
            /\ wmsg' = Head(egressQueue)
            /\ UNCHANGED <<egressQueue, caller, sentWaitChanMap, closedSentChan,
                           sentAt, werr, fatal>>
        BY <2>8 DEF PeekNext, QueueInv, HeadInv
      <3>2. WaitInv' /\ OnceInv'
        BY <3>1, WaitFrame DEF QueueInv
      <3> QED BY <3>1, <3>2 DEF QueueInv, HeadInv, SentInv, NoImpossibleFailure
    <2>9. CASE SendToMinclient \/ StoreSURB
      BY <2>9, SendPreserves
    <2>10. CASE NotifyCaller
      BY <2>10, NotifyPreserves
    <2>11. CASE EmitSent
      <3>1. /\ wpc = "emit" /\ wmsg \in Message /\ wpc' = AfterEmit(wmsg)
            /\ UNCHANGED <<egressQueue, caller, sentWaitChanMap, closedSentChan,
                           sentAt, wmsg, werr, fatal>>
        BY <2>11 DEF EmitSent, WorkerMsg
      <3>2. CASE wmsg \in Queueable
        <4>1. wpc' = "pop"
          BY <3>1, <3>2 DEF AfterEmit, Message
        <4>2. WaitInv' /\ OnceInv'
          BY <3>1, WaitFrame DEF QueueInv
        <4> QED BY <3>1, <3>2, <4>1, <4>2
                DEF QueueInv, HeadInv, SentInv, NoImpossibleFailure
      <3>3. CASE wmsg \notin Queueable
        <4>1. wpc' \in {"count", "select"}
          BY <3>1, <3>3 DEF AfterEmit, Message
        <4> QED BY <3>1, <3>3, <4>1, IdleWorker
      <3> QED BY <3>2, <3>3
    <2>12. CASE PopSent
      BY <2>12, PopPreserves
    <2>13. ASSUME NEW a \in Ack,
                  \/ \E m \in Message : DeliverACK(a, m)
                  \/ LoadSURB(a) \/ DeleteSURB(a) \/ DispatchReply(a)
           PROVE  QueueInv'
      BY <2>13, QueueFrame DEF DeliverACK, LoadSURB, DeleteSURB, DispatchReply,
                               queueInvVars
    <2>14. ASSUME NEW a \in Ack, HandOverReply(a) PROVE QueueInv'
      <3>1. /\ caller[amsg[a]] = "waitReply"
            /\ caller' = [caller EXCEPT ![amsg[a]] = "replied"]
            /\ UNCHANGED <<egressQueue, wpc, wmsg, werr, sentWaitChanMap,
                           closedSentChan, sentAt, fatal>>
        BY <2>14 DEF HandOverReply
      <3>2. CASE amsg[a] \in Caller
        BY Zenon, <3>1, <3>2, CallerMoves DEF Finished
      <3>3. CASE amsg[a] \notin Caller
        <4>1. caller' = caller
          BY <3>1, <3>3 DEF TypeOK
        <4> QED BY <3>1, <4>1, QueueFrame DEF queueInvVars
      <3> QED BY <3>2, <3>3
    <2>15. CASE GCStep \/ Halt \/ \E m \in Message : Expire(m)
      BY <2>15, QueueFrame DEF GCStep, RangeSURB, CollectSURB, EmitCollected, StopGC,
                               Halt, Expire, queueInvVars
    <2>16. ASSUME NEW up \in BOOLEAN, onConnection(up) \/ onDocument(up)
           PROVE  QueueInv'
      BY <2>16, QueueFrame DEF onConnection, onDocument, SendOp, queueInvVars
    <2>17. CASE UNCHANGED vars
      BY <2>17, QueueFrame DEF vars, queueInvVars
    <2> QED BY <2>1, <2>2, <2>3, <2>4, <2>5, <2>6, <2>7, <2>8, <2>9, <2>10, <2>11,
               <2>12, <2>13, <2>14, <2>15, <2>16, <2>17
            DEF Next, Environment, Call, CallerStep, WorkerStep, Sending, AckStep
  <1> QED BY <1>1, <1>2, TypeInvariant, PTL DEF Spec

(* The failures that sendNext and doSend call impossible never happen, for *)
(* any number of callers, messages, callbacks and reconnections.           *)
THEOREM ImpossibleFailuresUnreachable == Spec => []NoImpossibleFailure
  BY QueueInvariant, PTL DEF QueueInv
-----------------------------------------------------------------------------
(* Messages sent and replies timed out stay so.                            *)
LEMMA SentGrows ==
    ASSUME [Next]_vars
    PROVE  sentAt \subseteq sentAt' /\ expired \subseteq expired'
  BY ZenonT(60) DEF Next, Environment, Call, SendUnreliableMessage, BlockingSend, Halt,
     onConnection, onDocument, SendOp, DeliverACK, WorkerStep, AwaitOp,
     AwaitTimeout, StartWorker, ReceiveOp, LambdaP, LambdaDecoy, Sending,
     PeekNext, SendToMinclient, StoreSURB, NotifyCaller, EmitSent, PopSent,
     CountLoop, StopWorker, GCStep, RangeSURB, CollectSURB, EmitCollected,
     StopGC, CallerStep, ReceiveNotSent, ReplyTimeout, ReturnFromSend,
     AckStep, LoadSURB, DeleteSURB, DispatchReply, HandOverReply, Expire,
     surbVars, vars

(* Only the delivery of a reply and the callback itself change a callback. *)
LEMMA AckCases ==
    ASSUME [Next]_vars
    PROVE  \/ UNCHANGED ackVars
           \/ \E c \in Ack, m \in Message : DeliverACK(c, m)
           \/ \E c \in Ack : AckStep(c) /\ amsg' = amsg /\ UNCHANGED sentAt
  BY ZenonT(60) DEF Next, Environment, Call, SendUnreliableMessage, BlockingSend, Halt,
     onConnection, onDocument, SendOp, WorkerStep, AwaitOp, AwaitTimeout,
     StartWorker, ReceiveOp, LambdaP, LambdaDecoy, Sending, PeekNext,
     SendToMinclient, StoreSURB, NotifyCaller, EmitSent, PopSent,
     CountLoop, StopWorker, GCStep, RangeSURB, CollectSURB,
     EmitCollected, StopGC, CallerStep, ReceiveNotSent, ReplyTimeout,
     ReturnFromSend, AckStep, LoadSURB, DeleteSURB, DispatchReply,
     HandOverReply, Expire, surbVars, workVars, ackVars, vars

(* What a move of a callback does to it and to the others.                 *)
LEMMA AckMoves ==
    ASSUME apc \in [Ack -> AckStates], NEW c \in Ack, NEW from, NEW to,
           AckAt(c, from, to)
    PROVE  /\ apc[c] = from /\ apc'[c] = to
           /\ \A a \in Ack \ {c} : apc'[a] = apc[a]
  BY DEF AckAt

(* A delivery takes an idle callback and gives it a message that was sent. *)
LEMMA DeliverShape ==
    ASSUME apc \in [Ack -> AckStates], amsg \in [Ack -> Message \cup {NoMsg}],
           NEW c \in Ack, NEW m \in Message, DeliverACK(c, m)
    PROVE  /\ apc[c] = "idle" /\ apc'[c] = "load" /\ amsg'[c] \in sentAt
           /\ \A a \in Ack \ {c} : apc'[a] = apc[a] /\ amsg'[a] = amsg[a]
  <1>1. apc[c] = "idle" /\ apc'[c] = "load" /\ \A a \in Ack \ {c} : apc'[a] = apc[a]
    BY Zenon, AckMoves DEF DeliverACK
  <1>2. m \in sentAt /\ amsg' = [amsg EXCEPT ![c] = m]
    BY Zenon DEF DeliverACK
  <1>3. amsg'[c] = m /\ \A a \in Ack \ {c} : amsg'[a] = amsg[a]
    BY <1>2
  <1> QED BY Zenon, <1>1, <1>2, <1>3

(* A callback leaves the others alone, and hands a reply over, or finds it *)
(* late, only for a blocking call and by its channel.                      *)
LEMMA AckShape ==
    ASSUME apc \in [Ack -> AckStates], NEW c \in Ack, AckStep(c)
    PROVE  /\ apc[c] \in {"load", "delete", "dispatch", "deliver"}
           /\ apc[c] # "idle" /\ apc[c] # "answered"
           /\ \A a \in Ack \ {c} : apc'[a] = apc[a]
           /\ apc'[c] \in {"deliver", "late"} =>
                 /\ amsg[c] \in Caller /\ caller' = caller
                 /\ apc'[c] = "late" => amsg[c] \notin replyWaitChanMap
  <1> DEFINE Others == \A a \in Ack \ {c} : apc'[a] = apc[a]
  <1>1. CASE LoadSURB(c)
    <2>1. /\ apc[c] = "load" /\ Others
          /\ apc'[c] \in {"delete", "unknown"}
      BY ZenonT(60), <1>1, AckMoves DEF LoadSURB
    <2> QED BY Zenon, <2>1
  <1>2. CASE DeleteSURB(c)
    <2>1. /\ apc[c] = "delete" /\ Others
          /\ apc'[c] \in {"dispatch", "undecryptable"}
      BY ZenonT(60), <1>2, AckMoves DEF DeleteSURB
    <2> QED BY Zenon, <2>1
  <1>3. CASE DispatchReply(c)
    <2>1. /\ apc[c] = "dispatch" /\ Others /\ caller' = caller
          /\ \/ apc'[c] = "answered"
             \/ /\ amsg[c] \in Caller
                /\ apc'[c] = IF amsg[c] \in replyWaitChanMap THEN "deliver" ELSE "late"
      BY ZenonT(60), <1>3, AckMoves DEF DispatchReply
    <2> QED BY Zenon, <2>1
  <1>4. CASE HandOverReply(c)
    <2>1. apc[c] = "deliver" /\ apc'[c] = "answered" /\ Others
      BY ZenonT(60), <1>4, AckMoves DEF HandOverReply
    <2> QED BY Zenon, <2>1
  <1> QED BY ZenonT(60), <1>1, <1>2, <1>3, <1>4 DEF AckStep

(* What a blocking call is told is true, for any number of callers,        *)
(* callbacks and reconnections: a call waits for a reply only once its     *)
(* message was sent, ErrMessageNotSent and ErrReplyTimeout mean what they  *)
(* say, and a reply comes from a callback for that message.                *)
THEOREM VerdictsTruthful == Spec => []VerdictTruthful
  <1>1. Init => VerdictTruthful
    BY DEF Init, VerdictTruthful
  <1>2. TypeInv /\ QueueInv /\ VerdictTruthful /\ [Next]_vars => VerdictTruthful'
    <2> SUFFICES ASSUME TypeInv, QueueInv, VerdictTruthful, [Next]_vars,
                        NEW b \in Caller
                 PROVE  /\ caller'[b] = "waitReply" => b \in sentAt'
                        /\ caller'[b] = "notSent" => b \notin sentAt'
                        /\ caller'[b] = "timeout" => b \in expired'
                        /\ caller'[b] = "replied" =>
                             \E a \in Ack : amsg'[a] = b /\ apc'[a] = "answered"
      BY ZenonT(60) DEF VerdictTruthful
    <2>a. /\ caller \in [Caller -> CallerStates] /\ replyWaitChanMap \subseteq Caller
          /\ apc \in [Ack -> AckStates] /\ amsg \in [Ack -> Message \cup {NoMsg}]
          /\ sentAt \subseteq Message /\ wmsg \in Message \cup {NoMsg}
      BY DEF TypeInv, TypeOK
    <2> USE <2>a DEF queueVars, chanVars, surbVars, workVars, ackVars, outVars, WorkerAt
    \* sentAt grows, by the message being sent, and expired grows.
    <2>1. sentAt \subseteq sentAt' /\ expired \subseteq expired'
      BY Zenon, SentGrows
    <2>2. caller[b] # "waitSent" => (b \in sentAt' <=> b \in sentAt)
      <3>1. CASE SendToMinclient
        <4>1. wmsg = b => caller[b] = "waitSent"
          BY <3>1, InSend DEF SendToMinclient
        <4> QED BY <3>1, <4>1 DEF SendToMinclient
      <3>2. CASE ~SendToMinclient
        BY Zenon, <3>2
           DEF Next, Environment, Call, SendUnreliableMessage, BlockingSend, Halt,
               onConnection, onDocument, SendOp, DeliverACK, WorkerStep, AwaitOp,
               AwaitTimeout, StartWorker, ReceiveOp, LambdaP, LambdaDecoy, Sending,
               PeekNext, StoreSURB, NotifyCaller, EmitSent, PopSent, CountLoop,
               StopWorker, GCStep, RangeSURB, CollectSURB, EmitCollected, StopGC,
               CallerStep, ReceiveNotSent, ReplyTimeout, ReturnFromSend, AckStep,
               LoadSURB, DeleteSURB, DispatchReply, HandOverReply, Expire, vars
      <3> QED BY <3>1, <3>2
    \* A callback that has answered stays so, with its message.
    <2>3. \A a \in Ack : apc[a] = "answered" => apc'[a] = "answered" /\ amsg'[a] = amsg[a]
      <3>1. ASSUME NEW c \in Ack, NEW m \in Message, DeliverACK(c, m)
            PROVE  /\ apc[c] # "answered" /\ \A a \in Ack \ {c} : apc'[a] = apc[a]
                   /\ \A a \in Ack \ {c} : amsg'[a] = amsg[a]
        BY <3>1, DeliverShape
      <3>2. ASSUME NEW c \in Ack, AckStep(c)
            PROVE  apc[c] # "answered" /\ \A a \in Ack \ {c} : apc'[a] = apc[a]
        BY Zenon, <3>2, AckShape
      <3>3. \/ UNCHANGED ackVars
            \/ \E c \in Ack, m \in Message : DeliverACK(c, m)
            \/ \E c \in Ack : AckStep(c) /\ amsg' = amsg
        BY Zenon, AckCases
      <3>4. CASE UNCHANGED ackVars
        BY <3>4
      <3>5. CASE \E c \in Ack, m \in Message : DeliverACK(c, m)
        BY Zenon, <3>1, <3>5
      <3>6. CASE \E c \in Ack : AckStep(c) /\ amsg' = amsg
        BY <3>2, <3>6
      <3> QED BY <3>3, <3>4, <3>5, <3>6
    <2>4. CASE caller'[b] = caller[b]
      <3>1. caller[b] = "replied" =>
              \E a \in Ack : amsg'[a] = b /\ apc'[a] = "answered"
        <4> SUFFICES ASSUME caller[b] = "replied"
                     PROVE  \E a \in Ack : amsg'[a] = b /\ apc'[a] = "answered"
          OBVIOUS
        <4>1. PICK a \in Ack : amsg[a] = b /\ apc[a] = "answered"
          BY DEF VerdictTruthful
        <4>2. amsg'[a] = b /\ apc'[a] = "answered"
          BY <2>3, <4>1
        <4> QED BY Zenon, <4>2
      <3>2. /\ caller[b] = "waitReply" => b \in sentAt'
            /\ caller[b] = "timeout" => b \in expired'
        BY <2>1 DEF VerdictTruthful
      <3>3. caller[b] = "notSent" => b \notin sentAt'
        BY <2>2 DEF VerdictTruthful
      <3> QED BY <2>4, <3>1, <3>2, <3>3
    <2>5. ASSUME NEW c \in Caller, BlockingSend(c), caller'[b] # caller[b]
          PROVE  caller'[b] \in {"waitSent", "queueFull"}
      BY <2>5 DEF BlockingSend
    <2>6. ASSUME NEW c \in Caller, ReceiveNotSent(c), caller'[b] # caller[b]
          PROVE  caller'[b] = "notSent" /\ b \notin sentAt'
      BY <2>6 DEF ReceiveNotSent, SentChanClosed, QueueInv, SentInv
    <2>7. ASSUME NEW c \in Caller, ReplyTimeout(c), caller'[b] # caller[b]
          PROVE  caller'[b] = "timeout" /\ b \in expired'
      BY <2>7 DEF ReplyTimeout
    <2>8. ASSUME NotifyCaller, caller'[b] # caller[b]
          PROVE  caller'[b] = "waitReply" /\ b \in sentAt'
      BY <2>8 DEF NotifyCaller, CloseSentChan, QueueInv, SentInv
    <2>9. ASSUME NEW a \in Ack, HandOverReply(a), caller'[b] # caller[b]
          PROVE  caller'[b] = "replied" /\ amsg'[a] = b /\ apc'[a] = "answered"
      BY <2>9 DEF HandOverReply, AckAt
    <2>10. \/ caller' = caller \/ NotifyCaller
           \/ \E c \in Caller : BlockingSend(c) \/ ReceiveNotSent(c) \/ ReplyTimeout(c)
           \/ \E a \in Ack : HandOverReply(a)
      BY Zenon DEF Next, Environment, Call, SendUnreliableMessage, Halt, onConnection,
             onDocument, SendOp, DeliverACK, WorkerStep, AwaitOp, AwaitTimeout,
             StartWorker, ReceiveOp, LambdaP, LambdaDecoy, Sending, PeekNext,
             SendToMinclient, StoreSURB, EmitSent, PopSent, CountLoop, StopWorker,
             GCStep, RangeSURB, CollectSURB, EmitCollected, StopGC, CallerStep,
             ReturnFromSend, AckStep, LoadSURB, DeleteSURB, DispatchReply, Expire,
             vars
    <2> QED BY ZenonT(60), <2>4, <2>5, <2>6, <2>7, <2>8, <2>9, <2>10
  <1> QED BY <1>1, <1>2, TypeInvariant, QueueInvariant, PTL DEF Spec
-----------------------------------------------------------------------------
\* The worker pops a message only when its outcome has been reported.
ReportInv ==
    /\ wpc = "emit" => wmsg \notin Caller
    /\ wpc = "pop" => SendReported(wmsg)

\* An event tells what became of the sending of m.
EventReported(m) ==
    \E i \in 1 .. Len(events[m]) : events[m][i] \in {"sent", "failed"}

(* A sequence after Append: one longer, and the same but for its last.     *)
LEMMA AppendEntries ==
    ASSUME NEW S, NEW q \in Seq(S), NEW e \in S
    PROVE  /\ Len(q) \in Nat /\ Len(Append(q, e)) = Len(q) + 1
           /\ \A i \in 1 .. Len(q) : Append(q, e)[i] = q[i]
           /\ Append(q, e)[Len(q) + 1] = e
  <1>1. Len(q) \in Nat
    BY LenProperties
  <1>2. /\ Len(Append(q, e)) = Len(q) + 1
        /\ \A i \in 1 .. Len(q) : Append(q, e)[i] = q[i]
        /\ Append(q, e)[Len(q) + 1] = e
    BY AppendProperties
  <1> QED BY <1>1, <1>2

(* Events are never taken back.                                            *)
LEMMA EmitKeeps ==
    ASSUME TypeOK, NEW m \in Message, NEW kind \in EventKinds, Emit(m, kind)
    PROVE  /\ \A x \in Message : EventReported(x) => EventReported(x)'
           /\ kind \in {"sent", "failed"} => EventReported(m)'
  <1>1. /\ events[m] \in Seq(EventKinds) /\ events'[m] = Append(events[m], kind)
        /\ \A x \in Message : x # m => events'[x] = events[x]
    BY DEF TypeOK, Emit
  <1>2. /\ Len(events[m]) \in Nat /\ Len(events'[m]) = Len(events[m]) + 1
        /\ \A i \in 1 .. Len(events[m]) : events'[m][i] = events[m][i]
        /\ events'[m][Len(events[m]) + 1] = kind
    <2> DEFINE q == events[m]
    <2>1. q \in Seq(EventKinds) /\ events'[m] = Append(q, kind)
      BY <1>1
    <2> HIDE DEF q
    <2>2. /\ Len(q) \in Nat /\ Len(Append(q, kind)) = Len(q) + 1
          /\ \A i \in 1 .. Len(q) : Append(q, kind)[i] = q[i]
          /\ Append(q, kind)[Len(q) + 1] = kind
      BY Zenon, <2>1, AppendEntries
    <2> QED BY Zenon, <2>1, <2>2 DEF q
  <1>3. EventReported(m) => EventReported(m)'
    <2> SUFFICES ASSUME EventReported(m) PROVE EventReported(m)'
      OBVIOUS
    <2>1. PICK i \in 1 .. Len(events[m]) : events[m][i] \in {"sent", "failed"}
      BY DEF EventReported
    <2>2. i \in 1 .. Len(events'[m]) /\ events'[m][i] \in {"sent", "failed"}
      BY <1>2, <2>1
    <2> QED BY <2>2 DEF EventReported
  <1>4. \A x \in Message : x # m => (EventReported(x) => EventReported(x)')
    BY <1>1 DEF EventReported
  <1>5. ASSUME kind \in {"sent", "failed"} PROVE EventReported(m)'
    <2>1. Len(events[m]) + 1 \in 1 .. Len(events'[m])
      BY <1>2
    <2> QED BY <1>2, <1>5, <2>1 DEF EventReported
  <1> QED BY <1>3, <1>4, <1>5

(* No step takes an event back.                                            *)
LEMMA EventsKept ==
    ASSUME TypeInv, [Next]_vars
    PROVE  \A x \in Message : EventReported(x) => EventReported(x)'
  <1> USE MessageAssumption
      DEF TypeInv, queueVars, chanVars, surbVars, workVars, outVars, WorkerAt
  <1>1. \/ UNCHANGED events
        \/ \E m \in Message, kind \in EventKinds : Emit(m, kind)
    <2>1. CASE EmitSent
      BY <2>1 DEF EmitSent, WorkerMsg, EventKinds
    <2>2. CASE EmitCollected
      BY <2>2 DEF EmitCollected, WorkerMsg, EventKinds
    <2>3. ASSUME NEW a \in Ack, DispatchReply(a)
          PROVE  \/ UNCHANGED events
                 \/ \E m \in Message, kind \in EventKinds : Emit(m, kind)
      BY <2>3 DEF DispatchReply, EventKinds, Message, Queueable
    <2>4. \/ UNCHANGED events \/ EmitSent \/ EmitCollected
          \/ \E a \in Ack : DispatchReply(a)
      BY Zenon DEF Next, Environment, Call, SendUnreliableMessage, BlockingSend, Halt,
             onConnection, onDocument, SendOp, DeliverACK, WorkerStep, AwaitOp,
             AwaitTimeout, StartWorker, ReceiveOp, LambdaP, LambdaDecoy,
             Sending, PeekNext, SendToMinclient, StoreSURB, NotifyCaller,
             PopSent, CountLoop, StopWorker, GCStep, RangeSURB, CollectSURB,
             StopGC, CallerStep, ReceiveNotSent, ReplyTimeout,
             ReturnFromSend, AckStep, LoadSURB, DeleteSURB, HandOverReply,
             Expire, vars
    <2> QED BY <2>1, <2>2, <2>3, <2>4
  <1>2. CASE UNCHANGED events
    BY <1>2 DEF EventReported
  <1> QED BY <1>1, <1>2, EmitKeeps

(* ReportInv is an invariant: the worker gets to pop only by reporting,    *)
(* and no other goroutine takes a report back.                             *)
LEMMA ReportInvariant == Spec => []ReportInv
  <1>1. Init => ReportInv
    BY DEF Init, ReportInv
  <1>2. TypeInv /\ QueueInv /\ ReportInv /\ [Next]_vars => ReportInv'
    <2> SUFFICES ASSUME TypeInv, QueueInv, ReportInv, [Next]_vars PROVE ReportInv'
      OBVIOUS
    <2> USE MessageAssumption
        DEF TypeInv, queueVars, chanVars, surbVars, workVars, outVars, WorkerAt
    <2>1. \A x \in Message : EventReported(x) => EventReported(x)'
      BY EventsKept DEF TypeInv
    \* The worker gets to emit and pop.
    <2>2. CASE SendToMinclient
      <3>1. wpc' = AfterSend(wmsg, werr') /\ wmsg' = wmsg /\ werr' \in BOOLEAN
        BY <2>2 DEF SendToMinclient
      <3>2. wpc' # "pop" /\ (wpc' = "emit" => wmsg' \notin Caller)
        BY <3>1 DEF AfterSend, WithSURB, Message, Queueable
      <3> QED BY <3>2 DEF ReportInv
    <2>3. CASE StoreSURB
      BY <2>3 DEF StoreSURB, ReportInv
    <2>4. CASE NotifyCaller
      <3>1. wmsg' = wmsg /\ wmsg \in Caller /\ wpc = "notify"
        BY <2>4 DEF NotifyCaller, WorkerMsg
      <3>2. wmsg \in sentWaitChanMap
        BY <3>1, InSend
      <3>3. wpc' = "pop" /\ (caller'[wmsg] # "waitSent" \/ wmsg \in closedSentChan')
        BY <2>4, <3>1, <3>2 DEF NotifyCaller, CloseSentChan, WorkerAt, TypeOK
      <3> QED BY <3>1, <3>3 DEF ReportInv, SendReported
    <2>5. CASE EmitSent
      <3>1. /\ wpc = "emit" /\ wmsg \in Message /\ wmsg' = wmsg
            /\ Emit(wmsg, IF werr THEN "failed" ELSE "sent")
            /\ wpc' = AfterEmit(wmsg)
        BY <2>5 DEF EmitSent, WorkerMsg
      <3>2. EventReported(wmsg)'
        BY <3>1, EmitKeeps DEF EventKinds
      <3>3. wmsg \notin Caller /\ wpc' # "emit"
        BY <3>1 DEF ReportInv, AfterEmit
      <3> QED BY <3>1, <3>2, <3>3 DEF ReportInv, SendReported, EventReported
    \* While it is there, what was reported stays reported.
    <2>6. CASE UNCHANGED <<wpc, wmsg>>
      <3>1. CASE wpc # "pop"
        BY <2>6, <3>1 DEF ReportInv
      <3>2. CASE wpc = "pop" /\ wmsg \notin Caller
        <4>1. wmsg \in Message
          BY <3>2 DEF WorkerMsg
        <4>2. EventReported(wmsg)
          BY <3>2 DEF ReportInv, SendReported, EventReported
        <4>3. EventReported(wmsg)'
          BY <2>1, <2>6, <4>1, <4>2 DEF EventReported
        <4> QED BY <2>6, <3>2, <4>3 DEF ReportInv, SendReported, EventReported
      <3>3. CASE wpc = "pop" /\ wmsg \in Caller
        <4>1. caller[wmsg] # "waitSent" \/ wmsg \in closedSentChan
          BY <3>3 DEF ReportInv, SendReported
        <4>2. caller[wmsg] # "ready"
          <5>1. egressQueue # <<>> /\ Head(egressQueue) = wmsg
            BY <3>3 DEF QueueInv, HeadInv, Queueable
          <5>2. Len(egressQueue) \in Nat \ {0} /\ egressQueue[1] = wmsg
            BY <5>1, PopEntries DEF TypeOK
          <5>3. 1 \in 1 .. Len(egressQueue)
            BY <5>2
          <5> QED BY <3>3, <5>2, <5>3 DEF QueueInv, WaitInv
        <4>3. /\ closedSentChan \subseteq closedSentChan'
              /\ \A c \in Caller :
                    caller[c] \notin {"ready", "waitSent"} => caller'[c] # "waitSent"
          BY ZenonT(60), <2>6, <3>3
             DEF Next, Environment, Call, SendUnreliableMessage, BlockingSend, Halt,
                 onConnection, onDocument, SendOp, DeliverACK, WorkerStep, AwaitOp,
                 AwaitTimeout, StartWorker, ReceiveOp, LambdaP, LambdaDecoy,
                 Sending, PeekNext, SendToMinclient, StoreSURB, NotifyCaller,
                 EmitSent, PopSent, CountLoop, StopWorker, GCStep, RangeSURB,
                 CollectSURB, EmitCollected, StopGC, CallerStep, ReceiveNotSent,
                 ReplyTimeout, ReturnFromSend, AckStep, LoadSURB, DeleteSURB,
                 DispatchReply, HandOverReply, Expire, vars, TypeOK
        <4> QED BY <2>6, <3>3, <4>1, <4>2, <4>3 DEF ReportInv, SendReported
      <3> QED BY <3>1, <3>2, <3>3
    <2>7. \/ UNCHANGED <<wpc, wmsg>> \/ wpc' \notin {"emit", "pop"}
          \/ SendToMinclient \/ StoreSURB \/ NotifyCaller \/ EmitSent
      <3>1. CASE AwaitOp
        BY <3>1 DEF AwaitOp, SendFatal
      <3>2. CASE ~AwaitOp
        BY Zenon, <3>2
           DEF Next, Environment, Call, SendUnreliableMessage, BlockingSend, Halt,
               onConnection, onDocument, SendOp, DeliverACK, WorkerStep,
               AwaitTimeout, StartWorker, ReceiveOp, LambdaP, LambdaDecoy, SendDecoy,
               SendFatal, Sending, PeekNext, PopSent, CountLoop, StopWorker, GCStep, RangeSURB,
               CollectSURB, EmitCollected, StopGC, CallerStep, ReceiveNotSent,
               ReplyTimeout, ReturnFromSend, AckStep, LoadSURB, DeleteSURB,
               DispatchReply, HandOverReply, Expire, vars
      <3> QED BY <3>1, <3>2
    <2>8. CASE wpc' \notin {"emit", "pop"}
      BY <2>8 DEF ReportInv
    <2> QED BY <2>2, <2>3, <2>4, <2>5, <2>6, <2>7, <2>8
  <1> QED BY <1>1, <1>2, TypeInvariant, QueueInvariant, PTL DEF Spec

(* Only sendNext takes a message out of the queue, from its head, after    *)
(* doSend reported its outcome.                                            *)
THEOREM PopsReported == Spec => PopReportsOutcome
  <1> DEFINE Reported == Len(egressQueue') < Len(egressQueue) =>
                           /\ egressQueue' = Tail(egressQueue)
                           /\ wmsg = Head(egressQueue) /\ SendReported(wmsg)
  <1>1. TypeInv /\ QueueInv /\ ReportInv /\ [Next]_vars => [Reported]_vars
    <2> SUFFICES ASSUME TypeInv, QueueInv, ReportInv, Next,
                        Len(egressQueue') < Len(egressQueue)
                 PROVE  /\ egressQueue' = Tail(egressQueue)
                        /\ wmsg = Head(egressQueue) /\ SendReported(wmsg)
      OBVIOUS
    <2>1. Len(egressQueue) \in Nat
      BY LenProperties DEF TypeInv, TypeOK
    <2>2. \A e \in Queueable : egressQueue' # Append(egressQueue, e)
      BY <2>1, PushEntries DEF TypeInv, TypeOK
    <2>3. egressQueue' # egressQueue
      BY <2>1
    <2>4. PopSent
      BY Zenon, <2>2, <2>3
         DEF Next, Environment, Call, SendUnreliableMessage, BlockingSend, Halt,
             onConnection, onDocument, SendOp, DeliverACK, WorkerStep, AwaitOp,
             AwaitTimeout, StartWorker, ReceiveOp, LambdaP, LambdaDecoy,
             Sending, PeekNext, SendToMinclient, StoreSURB, NotifyCaller,
             EmitSent, CountLoop, StopWorker, GCStep, RangeSURB,
             CollectSURB, EmitCollected, StopGC, CallerStep, ReceiveNotSent,
             ReplyTimeout, ReturnFromSend, AckStep, LoadSURB, DeleteSURB,
             DispatchReply, HandOverReply, Expire, queueVars, Queueable
    <2> QED BY <2>3, <2>4 DEF PopSent, WorkerAt, QueueInv, HeadInv, TypeInv,
                              WorkerMsg, ReportInv
  <1> QED BY <1>1, TypeInvariant, QueueInvariant, ReportInvariant, PTL
          DEF Spec, PopReportsOutcome

\* m is in the egress queue.
Pending(m) == \E i \in 1 .. Len(egressQueue) : egressQueue[i] = m

\* A message that was accepted is in the queue until its outcome is reported.
MessagesKept ==
    /\ \A m \in accepted : Pending(m) \/ EventReported(m)
    /\ \A b \in Caller : caller[b] = "waitSent" => Pending(b) \/ b \in closedSentChan

(* Only Push and Pop change the queue, and only BlockingSend, which pushes *)
(* its message, makes a call wait.                                         *)
LEMMA QueueChanges ==
    ASSUME TypeInv, Next
    PROVE  \/ PopSent \/ \E m \in Async : SendUnreliableMessage(m)
           \/ \E b \in Caller : BlockingSend(b)
           \/ /\ UNCHANGED <<egressQueue, accepted>> /\ closedSentChan \subseteq closedSentChan'
              /\ \A b \in Caller : caller'[b] = "waitSent" => caller[b] = "waitSent"
  <1> DEFINE Still == UNCHANGED <<egressQueue, accepted, closedSentChan, caller>>
             Moves == /\ UNCHANGED <<egressQueue, accepted>>
                      /\ closedSentChan \subseteq closedSentChan'
                      /\ \A b \in Caller : caller'[b] = "waitSent" => caller[b] = "waitSent"
  <1> USE DEF queueVars, chanVars
  <1>1. ASSUME NEW b \in Caller, ReceiveNotSent(b) \/ ReplyTimeout(b) PROVE Moves
    BY <1>1 DEF ReceiveNotSent, ReplyTimeout, TypeInv, TypeOK
  <1>2. ASSUME NEW a \in Ack, HandOverReply(a) PROVE Moves
    BY <1>2 DEF HandOverReply, TypeInv, TypeOK
  <1>3. CASE NotifyCaller
    BY <1>3 DEF NotifyCaller, CloseSentChan, TypeInv, TypeOK
  <1>4. Still => Moves
    OBVIOUS
  <1>5. \/ Still \/ PopSent \/ NotifyCaller \/ (\E m \in Async : SendUnreliableMessage(m))
        \/ (\E b \in Caller : BlockingSend(b) \/ ReceiveNotSent(b) \/ ReplyTimeout(b))
        \/ (\E a \in Ack : HandOverReply(a))
    BY ZenonT(60)
       DEF Next, Environment, Call, Halt, onConnection, onDocument, SendOp, DeliverACK,
           WorkerStep, AwaitOp, AwaitTimeout, StartWorker, ReceiveOp, LambdaP, LambdaDecoy,
           Sending, PeekNext, SendToMinclient, StoreSURB, EmitSent, CountLoop, StopWorker,
           GCStep, RangeSURB, CollectSURB, EmitCollected, StopGC, CallerStep,
           ReturnFromSend, AckStep, LoadSURB, DeleteSURB, DispatchReply, Expire
  <1> QED BY ZenonT(60), <1>1, <1>2, <1>3, <1>4, <1>5

(* Push keeps what is pending and adds its message.                        *)
LEMMA PushPending ==
    ASSUME TypeOK, NEW e \in Queueable, egressQueue' = Append(egressQueue, e)
    PROVE  Pending(e)' /\ \A m : Pending(m) => Pending(m)'
  <1>1. /\ Len(egressQueue) \in Nat /\ Len(egressQueue') = Len(egressQueue) + 1
        /\ \A i \in 1 .. Len(egressQueue) : egressQueue'[i] = egressQueue[i]
        /\ egressQueue'[Len(egressQueue) + 1] = e
    <2>1. egressQueue \in Seq(Queueable)
      BY Zenon DEF TypeOK
    <2> QED BY <2>1, PushEntries
  <1>2. /\ Len(egressQueue) + 1 \in 1 .. Len(egressQueue')
        /\ 1 .. Len(egressQueue) \subseteq 1 .. Len(egressQueue')
    BY <1>1
  <1> QED BY Zenon, <1>1, <1>2 DEF Pending

(* Pop keeps what is pending but for the head.                             *)
LEMMA PopPending ==
    ASSUME TypeOK, egressQueue # <<>>, egressQueue' = Tail(egressQueue)
    PROVE  \A m : Pending(m) => m = Head(egressQueue) \/ Pending(m)'
  <1>1. /\ Len(egressQueue) \in Nat \ {0} /\ Len(egressQueue') = Len(egressQueue) - 1
        /\ \A i \in 1 .. Len(egressQueue') : egressQueue'[i] = egressQueue[i + 1]
        /\ Head(egressQueue) = egressQueue[1]
    BY PopEntries DEF TypeOK
  <1>2. \A i \in 1 .. Len(egressQueue) : i # 1 =>
            i - 1 \in 1 .. Len(egressQueue') /\ egressQueue'[i - 1] = egressQueue[i]
    BY <1>1
  <1> QED BY Zenon, <1>1, <1>2 DEF Pending

(* No message is lost between its acceptance and the report of its outcome *)
(* (send.go, SendUnreliableMessage, BlockingSendUnreliableMessage and      *)
(* sendNext), for any queue and any number of callers: a call that waits   *)
(* to hear of its message has it in the queue or its channel closed.       *)
THEOREM NoMessageLost == Spec => []MessagesKept
  <1>1. Init => MessagesKept
    BY DEF Init, MessagesKept
  <1>2. TypeInv /\ QueueInv /\ ReportInv /\ MessagesKept /\ [Next]_vars => MessagesKept'
    <2> SUFFICES ASSUME TypeInv, QueueInv, ReportInv, MessagesKept, [Next]_vars
                 PROVE  MessagesKept'
      OBVIOUS
    <2>0. /\ TypeOK /\ accepted \subseteq Async /\ Async \subseteq Message
          /\ Async \subseteq Queueable /\ Caller \subseteq Queueable
      BY Zenon DEF TypeInv, TypeOK, Message, Queueable
    <2>1. \A x \in Message : EventReported(x) => EventReported(x)'
      BY EventsKept
    <2>2. ASSUME NEW m \in Async, SendUnreliableMessage(m) PROVE MessagesKept'
      <3>1. /\ egressQueue' = Append(egressQueue, m) /\ accepted' = accepted \cup {m}
            /\ UNCHANGED <<closedSentChan, caller>>
        BY Zenon, <2>2 DEF SendUnreliableMessage, chanVars
      <3>2. Pending(m)' /\ \A x : Pending(x) => Pending(x)'
        BY Zenon, <2>0, <3>1, PushPending
      <3> QED BY Zenon, <2>0, <2>1, <3>1, <3>2 DEF MessagesKept
    <2>3. ASSUME NEW b \in Caller, BlockingSend(b) PROVE MessagesKept'
      <3>1. /\ UNCHANGED <<accepted, closedSentChan>>
            /\ \/ egressQueue' = egressQueue /\ caller' = [caller EXCEPT ![b] = "queueFull"]
               \/ /\ egressQueue' = Append(egressQueue, b)
                  /\ caller' = [caller EXCEPT ![b] = "waitSent"]
        BY Zenon, <2>3 DEF BlockingSend
      <3>2. CASE egressQueue' = egressQueue /\ caller' = [caller EXCEPT ![b] = "queueFull"]
        <4>1. \A c \in Caller : caller'[c] = "waitSent" => caller[c] = "waitSent"
          BY <2>0, <3>2 DEF TypeOK
        <4> QED BY Zenon, <2>0, <2>1, <3>1, <3>2, <4>1 DEF MessagesKept, Pending
      <3>3. CASE /\ egressQueue' = Append(egressQueue, b)
                 /\ caller' = [caller EXCEPT ![b] = "waitSent"]
        <4>1. Pending(b)' /\ \A x : Pending(x) => Pending(x)'
          BY Zenon, <2>0, <3>3, PushPending
        <4>2. \A c \in Caller : c # b => caller'[c] = caller[c]
          BY <2>0, <3>3 DEF TypeOK
        <4> QED BY Zenon, <2>0, <2>1, <3>1, <4>1, <4>2 DEF MessagesKept
      <3> QED BY <3>1, <3>2, <3>3
    <2>4. CASE PopSent
      <3>1. /\ wpc = "pop" /\ wmsg \in Queueable /\ SendReported(wmsg)
            /\ egressQueue # <<>> /\ wmsg = Head(egressQueue)
        BY <2>4 DEF PopSent, WorkerAt, TypeInv, WorkerMsg, ReportInv, QueueInv, HeadInv
      <3>2. /\ egressQueue' = Tail(egressQueue)
            /\ UNCHANGED <<accepted, closedSentChan, caller>>
        BY Zenon, <2>4, <3>1 DEF PopSent, chanVars
      <3>3. \A m : Pending(m) => m = wmsg \/ Pending(m)'
        BY Zenon, <2>0, <3>1, <3>2, PopPending
      <3>4. wmsg \in accepted => EventReported(wmsg)
        BY <2>0, <3>1, MessageAssumption DEF SendReported, EventReported
      <3>5. wmsg \in Caller /\ caller[wmsg] = "waitSent" => wmsg \in closedSentChan
        BY Zenon, <3>1 DEF SendReported
      <3> QED BY Zenon, <2>0, <2>1, <3>2, <3>3, <3>4, <3>5 DEF MessagesKept
    <2>5. CASE /\ UNCHANGED <<egressQueue, accepted>> /\ closedSentChan \subseteq closedSentChan'
               /\ \A b \in Caller : caller'[b] = "waitSent" => caller[b] = "waitSent"
      BY Zenon, <2>0, <2>1, <2>5 DEF MessagesKept, Pending
    <2>6. CASE UNCHANGED vars
      BY Zenon, <2>5, <2>6 DEF vars, queueVars, chanVars
    <2> QED BY ZenonT(60), <2>2, <2>3, <2>4, <2>5, <2>6, QueueChanges
  <1> QED BY <1>1, <1>2, TypeInvariant, QueueInvariant, ReportInvariant, PTL DEF Spec

\* The worker's send on sentWaitChan finds its receiver.
RendezvousReady ==
    wpc = "notify" => wmsg \in sentWaitChanMap /\ (werr \/ caller[wmsg] = "waitSent")

(* The worker is never held up by a caller (send.go, doSend): when it gets *)
(* to send on an unbuffered sentWaitChan, the call it serves is there to   *)
(* receive, so a slow or departed caller cannot stop the queue.            *)
THEOREM WorkerNotHeldUp == Spec => []RendezvousReady
  <1>1. TypeInv /\ QueueInv => RendezvousReady
    <2> SUFFICES ASSUME TypeInv, QueueInv, wpc = "notify"
                 PROVE  wmsg \in sentWaitChanMap /\ caller[wmsg] = "waitSent"
      BY DEF RendezvousReady
    <2>1. wmsg \in Caller
      BY DEF TypeInv, WorkerMsg
    <2> QED BY <2>1, InSend
  <1> QED BY <1>1, TypeInvariant, QueueInvariant, PTL
-----------------------------------------------------------------------------
\* A blocking call that can still take its reply has its channel in the map; a
\* callback carries a message that was sent, a caller's where one is looked up.
ReplyInv ==
    /\ \A b \in Caller :
          caller[b] \in {"waitSent", "waitReply"} => b \in replyWaitChanMap
    /\ \A a \in Ack : apc[a] # "idle" => amsg[a] \in sentAt
    /\ \A a \in Ack : apc[a] \in {"deliver", "late"} => amsg[a] \in Caller
    /\ LateReplyMeansTimeout

(* ReplyInv is an invariant: the deferred deletes run only in a call that  *)
(* has its verdict, and a call whose message was sent has no verdict but a *)
(* timeout or a reply.                                                     *)
LEMMA ReplyInvariant == Spec => []ReplyInv
  <1>1. Init => ReplyInv
    BY DEF Init, ReplyInv, LateReplyMeansTimeout
  <1>2. /\ TypeInv /\ QueueInv /\ VerdictTruthful /\ ReplyInv /\ [Next]_vars
        => ReplyInv'
    <2> SUFFICES ASSUME TypeInv, QueueInv, VerdictTruthful, ReplyInv, [Next]_vars
                 PROVE  ReplyInv'
      OBVIOUS
    <2>a. /\ caller \in [Caller -> CallerStates] /\ replyWaitChanMap \subseteq Caller
          /\ apc \in [Ack -> AckStates] /\ amsg \in [Ack -> Message \cup {NoMsg}]
      BY DEF TypeInv, TypeOK
    <2> USE <2>a DEF queueVars, chanVars, surbVars, workVars, ackVars, outVars, WorkerAt
    \* What changes the callers' states, their channels and the callbacks.
    <2>1. \/ UNCHANGED <<caller, replyWaitChanMap>> \/ NotifyCaller
          \/ \E c \in Caller : \/ BlockingSend(c) \/ ReceiveNotSent(c)
                               \/ ReplyTimeout(c) \/ ReturnFromSend(c)
          \/ \E a \in Ack : HandOverReply(a)
      BY ZenonT(60) DEF Next, Environment, Call, SendUnreliableMessage, Halt, onConnection,
             onDocument, SendOp, DeliverACK, WorkerStep, AwaitOp, AwaitTimeout,
             StartWorker, ReceiveOp, LambdaP, LambdaDecoy, Sending, PeekNext,
             SendToMinclient, StoreSURB, EmitSent, PopSent, CountLoop, StopWorker,
             GCStep, RangeSURB, CollectSURB, EmitCollected, StopGC, CallerStep,
             AckStep, LoadSURB, DeleteSURB, DispatchReply, Expire, vars
    <2>2. \/ UNCHANGED ackVars
          \/ \E c \in Ack, m \in Message : DeliverACK(c, m)
          \/ \E c \in Ack : AckStep(c) /\ amsg' = amsg /\ UNCHANGED sentAt
      BY Zenon, AckCases
    <2>3. sentAt \subseteq sentAt'
      BY Zenon, SentGrows
    \* A verdict stays: only a waiting or a new call changes its state, and a
    \* new one gets its channel with it.
    <2>4. \A b \in Caller :
             /\ caller[b] \in Finished => caller'[b] = caller[b]
             /\ caller'[b] \in {"waitSent", "waitReply"} => b \in replyWaitChanMap'
      <3> SUFFICES ASSUME NEW b \in Caller
                   PROVE  /\ caller[b] \in Finished => caller'[b] = caller[b]
                          /\ caller'[b] \in {"waitSent", "waitReply"}
                                => b \in replyWaitChanMap'
        OBVIOUS
      <3> USE DEF Finished
      <3>1. CASE UNCHANGED <<caller, replyWaitChanMap>>
        BY <3>1 DEF ReplyInv
      <3>2. CASE NotifyCaller
        BY <3>2 DEF NotifyCaller, CloseSentChan, ReplyInv
      <3>3. ASSUME NEW c \in Caller, BlockingSend(c)
            PROVE  /\ caller[b] \in Finished => caller'[b] = caller[b]
                   /\ caller'[b] \in {"waitSent", "waitReply"} => b \in replyWaitChanMap'
        BY <3>3 DEF BlockingSend, ReplyInv
      <3>4. ASSUME NEW c \in Caller, ReceiveNotSent(c) \/ ReplyTimeout(c)
            PROVE  /\ caller[b] \in Finished => caller'[b] = caller[b]
                   /\ caller'[b] \in {"waitSent", "waitReply"} => b \in replyWaitChanMap'
        BY <3>4 DEF ReceiveNotSent, ReplyTimeout, ReplyInv
      <3>5. ASSUME NEW c \in Caller, ReturnFromSend(c)
            PROVE  /\ caller[b] \in Finished => caller'[b] = caller[b]
                   /\ caller'[b] \in {"waitSent", "waitReply"} => b \in replyWaitChanMap'
        BY <3>5 DEF ReturnFromSend, Returning, ReplyInv
      <3>6. ASSUME NEW a \in Ack, HandOverReply(a)
            PROVE  /\ caller[b] \in Finished => caller'[b] = caller[b]
                   /\ caller'[b] \in {"waitSent", "waitReply"} => b \in replyWaitChanMap'
        <4>1. amsg[a] \in Caller
          BY Zenon, <3>6 DEF HandOverReply, AckAt, ReplyInv
        <4>2. /\ caller[amsg[a]] = "waitReply" /\ replyWaitChanMap' = replyWaitChanMap
              /\ caller' = [caller EXCEPT ![amsg[a]] = "replied"]
          BY Zenon, <3>6 DEF HandOverReply
        <4>3. caller[b] \in {"waitSent", "waitReply"} => b \in replyWaitChanMap
          BY Zenon DEF ReplyInv
        <4> QED BY <4>1, <4>2, <4>3
      <3> QED BY <2>1, <3>1, <3>2, <3>3, <3>4, <3>5, <3>6
    \* What a callback that is under way keeps, whoever else moves.
    <2>5. ASSUME NEW a \in Ack, apc'[a] = apc[a], amsg'[a] = amsg[a]
          PROVE  /\ apc'[a] # "idle" => amsg'[a] \in sentAt'
                 /\ apc'[a] \in {"deliver", "late"} => amsg'[a] \in Caller
                 /\ apc'[a] = "late" => caller'[amsg'[a]] \in {"timeout", "replied"}
      <3>1. apc[a] = "late" => /\ amsg[a] \in Caller
                               /\ caller[amsg[a]] \in {"timeout", "replied"}
        BY DEF ReplyInv, LateReplyMeansTimeout
      <3>2. apc[a] = "late" => caller'[amsg[a]] \in {"timeout", "replied"}
        BY <2>4, <3>1 DEF Finished
      <3> QED BY <2>3, <2>5, <3>1, <3>2 DEF ReplyInv
    <2>6. ASSUME NEW c \in Ack, NEW m \in Message, DeliverACK(c, m)
          PROVE  /\ apc'[c] = "load" /\ amsg'[c] \in sentAt
                 /\ \A a \in Ack \ {c} : apc'[a] = apc[a] /\ amsg'[a] = amsg[a]
      BY Zenon, <2>6, DeliverShape
    \* onACK finds no channel only for a call that has its verdict.
    <2>7. ASSUME NEW c \in Ack, AckStep(c), amsg' = amsg, UNCHANGED sentAt
          PROVE  /\ amsg[c] \in sentAt
                 /\ apc'[c] \in {"deliver", "late"} => amsg[c] \in Caller
                 /\ apc'[c] = "late" => caller'[amsg[c]] \in {"timeout", "replied"}
                 /\ \A a \in Ack \ {c} : apc'[a] = apc[a]
      <3>1. apc[c] # "idle" /\ \A a \in Ack \ {c} : apc'[a] = apc[a]
        BY Zenon, <2>7, AckShape
      <3>2. amsg[c] \in sentAt
        BY <3>1 DEF ReplyInv
      <3>3. apc'[c] \in {"deliver", "late"} =>
              /\ amsg[c] \in Caller /\ caller' = caller
              /\ apc'[c] = "late" => amsg[c] \notin replyWaitChanMap
        BY Zenon, <2>7, AckShape
      <3>4. ASSUME apc'[c] = "late" PROVE caller[amsg[c]] \in {"timeout", "replied"}
        <4>1. amsg[c] \in Caller /\ caller[amsg[c]] \notin {"waitSent", "waitReply"}
          BY <3>3, <3>4 DEF ReplyInv
        <4>2. caller[amsg[c]] \notin {"ready", "queueFull"}
          BY <3>2, <4>1 DEF QueueInv, SentInv
        <4>3. caller[amsg[c]] # "notSent"
          BY <3>2, <4>1 DEF VerdictTruthful
        <4> QED BY <4>1, <4>2, <4>3 DEF CallerStates, Finished
      <3> QED BY <3>1, <3>2, <3>3, <3>4
    <2>8. \A a \in Ack :
             /\ apc'[a] # "idle" => amsg'[a] \in sentAt'
             /\ apc'[a] \in {"deliver", "late"} => amsg'[a] \in Caller
             /\ apc'[a] = "late" => caller'[amsg'[a]] \in {"timeout", "replied"}
      <3>1. CASE UNCHANGED ackVars
        BY <2>5, <3>1
      <3>2. CASE \E c \in Ack, m \in Message : DeliverACK(c, m)
        <4>1. PICK c \in Ack : /\ apc'[c] = "load" /\ amsg'[c] \in sentAt
                               /\ \A a \in Ack \ {c} : /\ apc'[a] = apc[a]
                                                       /\ amsg'[a] = amsg[a]
          BY ZenonT(60), <2>6, <3>2
        <4>2. apc'[c] \notin {"idle", "deliver", "late"}
          BY Zenon, <4>1
        <4> QED BY ZenonT(60), <2>3, <2>5, <4>1, <4>2
      <3>3. CASE \E c \in Ack : AckStep(c) /\ amsg' = amsg /\ UNCHANGED sentAt
        <4>1. PICK c \in Ack : AckStep(c) /\ amsg' = amsg /\ UNCHANGED sentAt
          BY <3>3
        <4> QED BY <2>3, <2>5, <2>7, <4>1
      <3> QED BY <2>2, <3>1, <3>2, <3>3
    <2> QED BY Zenon, <2>4, <2>8 DEF ReplyInv, LateReplyMeansTimeout
  <1> QED BY <1>1, <1>2, TypeInvariant, QueueInvariant, VerdictsTruthful, PTL DEF Spec

(* A reply to a blocking call is discarded as late only if that call timed *)
(* out or had the reply from another callback.                             *)
THEOREM LateRepliesTimedOut == Spec => []LateReplyMeansTimeout
  BY ReplyInvariant, PTL DEF ReplyInv

\* A callback that has a reply to hand over finds a call that takes it, now or
\* once the worker has told it of the sending, or one that needs it no more.
HandOverKnown ==
    \A a \in Ack : apc[a] = "deliver" =>
        /\ amsg[a] \in Caller
        /\ caller[amsg[a]] \in {"waitSent", "waitReply", "timeout", "replied"}

(* onACK (session.go) is left with a reply that nobody receives only when  *)
(* the call has timed out or had the reply from another callback: a call   *)
(* that was not sent, or never accepted, is never waited for.              *)
THEOREM HandOverOnlyThen == Spec => []HandOverKnown
  <1>1. TypeInv /\ QueueInv /\ VerdictTruthful /\ ReplyInv => HandOverKnown
    <2> SUFFICES ASSUME TypeInv, QueueInv, VerdictTruthful, ReplyInv,
                        NEW a \in Ack, apc[a] = "deliver"
                 PROVE  /\ amsg[a] \in Caller
                        /\ caller[amsg[a]] \in {"waitSent", "waitReply", "timeout", "replied"}
      BY DEF HandOverKnown
    <2>1. amsg[a] \in Caller /\ amsg[a] \in sentAt
      BY DEF ReplyInv
    <2>2. caller[amsg[a]] \notin {"ready", "queueFull", "notSent"}
      BY <2>1 DEF QueueInv, SentInv, VerdictTruthful
    <2>3. caller[amsg[a]] \in CallerStates
      BY <2>1 DEF TypeInv, TypeOK
    <2> QED BY <2>1, <2>2, <2>3 DEF CallerStates, Finished
  <1> QED BY <1>1, TypeInvariant, QueueInvariant, VerdictsTruthful, ReplyInvariant, PTL
-----------------------------------------------------------------------------
(* Division by a modulus.                                                  *)
LEMMA DivMod ==
  ASSUME NEW M \in Nat \ {0}, NEW x \in Int
  PROVE  /\ x % M \in 0 .. M - 1
         /\ x \div M \in Int
         /\ x = M * (x \div M) + (x % M)
  OBVIOUS

(* The remainder is the only number below M that differs from x by a       *)
(* multiple of M.                                                          *)
LEMMA ModUnique ==
  ASSUME NEW M \in Nat \ {0}, NEW x \in Int, NEW q \in Int,
         NEW r \in 0 .. M - 1, x = M * q + r
  PROVE  x % M = r
  OBVIOUS

(* A turn of the counter does not show.                                    *)
LEMMA ModShift ==
  ASSUME NEW M \in Nat \ {0}, NEW x \in Int
  PROVE  (x + M) % M = x % M
  <1> DEFINE q == x \div M
             r == x % M
  <1>1. r \in 0 .. M - 1 /\ q \in Int /\ x = M * q + r
    BY DivMod
  <1> HIDE DEF q, r
  <1>2. x + M = M * (q + 1) + r
    BY <1>1
  <1>3. x + M \in Int /\ q + 1 \in Int
    BY <1>1
  <1>4. (x + M) % M = r
    BY Zenon, <1>1, <1>2, <1>3, ModUnique
  <1> QED
    BY <1>4 DEF r

(* Congruent numbers have congruent successors.                            *)
LEMMA ModNext ==
  ASSUME NEW M \in Nat \ {0}, NEW x \in Int, NEW y \in Int, x % M = y % M
  PROVE  (x + 1) % M = (y + 1) % M
  <1> DEFINE q == x \div M
             p == y \div M
             r == x % M
  <1>1. r \in 0 .. M - 1 /\ q \in Int /\ x = M * q + r
    BY DivMod
  <1>2. p \in Int /\ y = M * p + r
    BY DivMod
  <1> HIDE DEF q, p, r
  <1>3. CASE r + 1 < M
    <2>1. /\ r + 1 \in 0 .. M - 1 /\ x + 1 \in Int /\ y + 1 \in Int
          /\ x + 1 = M * q + (r + 1) /\ y + 1 = M * p + (r + 1)
      BY <1>1, <1>2, <1>3
    <2>2. (x + 1) % M = r + 1
      BY Zenon, <1>1, <2>1, ModUnique
    <2>3. (y + 1) % M = r + 1
      BY Zenon, <1>2, <2>1, ModUnique
    <2> QED
      BY <2>2, <2>3
  <1>4. CASE r + 1 = M
    <2>1. /\ 0 \in 0 .. M - 1 /\ x + 1 \in Int /\ y + 1 \in Int
          /\ q + 1 \in Int /\ p + 1 \in Int
          /\ x + 1 = M * (q + 1) + 0 /\ y + 1 = M * (p + 1) + 0
      BY <1>1, <1>2, <1>4
    <2>2. (x + 1) % M = 0 /\ (y + 1) % M = 0
      BY Zenon, <2>1, ModUnique
    <2> QED
      BY <2>2
  <1> QED
    BY <1>1, <1>3, <1>4

\* The tally is right, and what it counts is finite.
TallyInv ==
    /\ wpc = "count" => wmsg \in Loop
    /\ IsFiniteSet(Answered) /\ IsFiniteSet(decoys \cap Loop)
    /\ TallyCountsUnanswered

(* Adding to the tally and taking from it are the arithmetic of uint64.    *)
LEMMA TallySteps ==
    ASSUME NEW t \in 0 .. (TallyModulus - 1), NEW n \in Nat
    PROVE  /\ (Increment(t) + n) % TallyModulus = (t + n + 1) % TallyModulus
           /\ (Decrement(t) + n + 1) % TallyModulus = (t + n) % TallyModulus
  <1> DEFINE M == TallyModulus
  <1>1. M \in Nat \ {0} /\ t \in 0 .. (M - 1)
    BY BoundAssumption DEF M
  <1> HIDE DEF M
  <1>a. (n + M) % M = n % M
    <2>1. n \in Int
      OBVIOUS
    <2> QED BY Zenon, <1>1, <2>1, ModShift
  <1>2. (Increment(t) + n) % M = (t + n + 1) % M
    <2>1. CASE t + 1 < M
      BY <1>1, <2>1 DEF Increment, M
    <2>2. CASE t + 1 = M
      <3>1. Increment(t) = 0
        BY <1>1, <2>2 DEF Increment, M
      <3>3. t + n + 1 = n + M /\ 0 + n = n
        BY <1>1, <2>2
      <3> QED BY <3>1, <1>a, <3>3
    <2> QED BY <1>1, <2>1, <2>2
  <1>3. (Decrement(t) + n + 1) % M = (t + n) % M
    <2>1. CASE t = 0
      <3>1. Decrement(t) = M - 1
        BY <1>1, <2>1 DEF Decrement, M
      <3>3. (M - 1) + n + 1 = n + M /\ t + n = n
        BY <1>1, <2>1
      <3> QED BY <3>1, <1>a, <3>3
    <2>2. CASE t > 0
      <3>1. (t - 1) % M = t - 1 /\ t - 1 \in Int
        BY <1>1, <2>2
      <3>2. ((t - 1) + M) % M = (t - 1) % M
        BY Zenon, <1>1, <3>1, ModShift
      <3>3. t + (M - 1) = (t - 1) + M
        BY <1>1
      <3>4. Decrement(t) = t - 1
        BY <3>1, <3>2, <3>3 DEF Decrement, M
      <3>5. (t - 1) + n + 1 = t + n
        BY <1>1
      <3> QED BY <3>4, <3>5
    <2> QED BY <1>1, <2>1, <2>2
  <1> QED BY <1>2, <1>3 DEF M
(* Cardinalities of the finite sets the tally compares.                    *)
LEMMA OneMore ==
    ASSUME NEW S, IsFiniteSet(S), NEW x, x \notin S
    PROVE  /\ IsFiniteSet(S \cup {x}) /\ Cardinality(S) \in Nat
           /\ Cardinality(S \cup {x}) = Cardinality(S) + 1
  BY FS_AddElement, FS_CardinalityType

(* TallyInv is an invariant: the worker's deferred increment and the       *)
(* callbacks' decrements commute modulo 2^64.                              *)
LEMMA TallyInvariant == Spec => []TallyInv
  <1>1. Init => TallyInv
    <2> SUFFICES ASSUME Init PROVE TallyInv
      OBVIOUS
    <2>1. Answered = {} /\ decoys \cap Loop = {} /\ Uncounted = 0
      BY DEF Init, Answered, Uncounted
    <2>2. IsFiniteSet({}) /\ Cardinality({}) = 0
      BY FS_EmptySet
    <2>3. decoyLoopTally = 0 /\ wpc # "count"
      BY DEF Init
    <2>4. /\ IsFiniteSet(Answered) /\ IsFiniteSet(decoys \cap Loop)
          /\ Cardinality(Answered) = 0 /\ Cardinality(decoys \cap Loop) = 0
      BY <2>1, <2>2
    <2>5. decoyLoopTally + Cardinality(Answered) + Uncounted = 0
      BY <2>1, <2>3, <2>4
    <2> QED BY <2>3, <2>4, <2>5 DEF TallyInv, TallyCountsUnanswered
  <1>2. TypeInv /\ ReplyInv /\ TallyInv /\ [Next]_vars => TallyInv'
    <2> SUFFICES ASSUME TypeInv, ReplyInv, TallyInv, [Next]_vars PROVE TallyInv'
      OBVIOUS
    <2> DEFINE LoopReply(c) == DispatchReply(c) /\ amsg[c] \in Loop
               NewLoop(d) == /\ wpc = "select" /\ wpc' = "send" /\ wmsg' = d
                             /\ decoys' = decoys \cup {d}
                             /\ UNCHANGED <<ackVars, decoyLoopTally>>
               Idle == /\ Uncounted' = Uncounted
                       /\ decoys' \cap Loop = decoys \cap Loop
                       /\ wpc' = "count" => wmsg' \in Loop
    <2>a. /\ apc \in [Ack -> AckStates] /\ amsg \in [Ack -> Message \cup {NoMsg}]
          /\ egressQueue \in Seq(Queueable) /\ decoys \subseteq Loop \cup Drop
          /\ decoyLoopTally \in 0 .. (TallyModulus - 1)
      BY DEF TypeInv, TypeOK
    <2> USE <2>a DEF queueVars, chanVars, surbVars, workVars, ackVars, outVars, WorkerAt
    <2>1. \/ UNCHANGED ackVars
          \/ \E c \in Ack, m \in Message : DeliverACK(c, m)
          \/ \E c \in Ack : AckStep(c) /\ amsg' = amsg
      BY Zenon, AckCases
    <2>2. \/ UNCHANGED <<wpc, wmsg, decoys>> \/ WorkerStep
      BY ZenonT(60) DEF Next, Environment, Call, SendUnreliableMessage, BlockingSend, Halt,
             onConnection, onDocument, SendOp, DeliverACK, GCStep, RangeSURB,
             CollectSURB, EmitCollected, StopGC, CallerStep, ReceiveNotSent,
             ReplyTimeout, ReturnFromSend, AckStep, LoadSURB, DeleteSURB,
             DispatchReply, HandOverReply, Expire, vars
    <2>3. \/ UNCHANGED decoyLoopTally \/ CountLoop
          \/ \E c \in Ack : LoopReply(c)
      BY Zenon DEF Next, Environment, Call, SendUnreliableMessage, BlockingSend, Halt,
             onConnection, onDocument, SendOp, DeliverACK, WorkerStep, AwaitOp,
             AwaitTimeout, StartWorker, ReceiveOp, LambdaP, LambdaDecoy, Sending,
             PeekNext, SendToMinclient, StoreSURB, NotifyCaller, EmitSent, PopSent,
             StopWorker, GCStep, RangeSURB, CollectSURB, EmitCollected,
             StopGC, CallerStep, ReceiveNotSent, ReplyTimeout, ReturnFromSend,
             AckStep, LoadSURB, DeleteSURB, DispatchReply, HandOverReply, Expire,
             vars
    \* Only a reply to a loop decoy changes what has been answered.
    <2>4. Answered' = Answered \/ \E c \in Ack : LoopReply(c)
      <3>1. CASE UNCHANGED ackVars
        BY <3>1 DEF Answered
      <3>2. ASSUME NEW c \in Ack, NEW m \in Message, DeliverACK(c, m)
            PROVE  Answered' = Answered
        <4>1. /\ apc[c] # "answered" /\ apc'[c] # "answered"
              /\ \A a \in Ack \ {c} : apc'[a] = apc[a] /\ amsg'[a] = amsg[a]
          BY <3>2, DeliverShape
        <4> QED BY <4>1 DEF Answered
      <3>3. ASSUME NEW c \in Ack, AckStep(c), amsg' = amsg, ~LoopReply(c)
            PROVE  Answered' = Answered
        <4>1. (\A a \in Ack \ {c} : apc'[a] = apc[a]) /\ apc[c] # "answered"
          BY Zenon, <3>3, AckShape
        <4>3. apc'[c] = "answered" => amsg[c] \notin Loop
          <5>1. CASE LoadSURB(c) \/ DeleteSURB(c)
            BY <5>1 DEF LoadSURB, DeleteSURB, AckAt
          <5>2. CASE HandOverReply(c)
            <6>1. amsg[c] \in Caller
              BY ZenonT(60), <5>2 DEF HandOverReply, AckAt, ReplyInv
            <6> QED BY <6>1, MessageAssumption DEF Queueable
          <5>3. CASE DispatchReply(c)
            BY <3>3, <5>3
          <5> QED BY <3>3, <5>1, <5>2, <5>3 DEF AckStep
        <4> QED BY <3>3, <4>1, <4>3 DEF Answered
      <3> QED BY <2>1, <3>1, <3>2, <3>3
    \* What the worker does to its decoys.
    <2>5. Idle \/ CountLoop \/ \E d \in Loop \ decoys : NewLoop(d)
      <3> USE DEF Uncounted
      <3>1. CASE UNCHANGED <<wpc, wmsg, decoys>>
        BY <3>1 DEF TallyInv
      <3>2. CASE AwaitOp
        <4>1. /\ wpc = "await" /\ wpc' \in {"start", "aborted", "await", "blocked"}
              /\ wmsg' = wmsg /\ decoys' = decoys
          BY <3>2 DEF AwaitOp, SendFatal
        <4> QED BY <4>1
      <3>3. CASE AwaitTimeout \/ StartWorker \/ ReceiveOp \/ StopWorker
        <4>1. /\ wpc \in {"await", "start", "select"}
              /\ wpc' \in {"aborted", "select", "stopped", "blocked"}
              /\ wmsg' = wmsg /\ decoys' = decoys
          BY <3>3 DEF AwaitTimeout, StartWorker, ReceiveOp, StopWorker, SendFatal
        <4> QED BY <4>1
      <3>4. CASE LambdaP \/ LambdaDecoy(Drop)
        <4>1. Loop \cap Drop = {}
          BY MessageAssumption
        <4>2. /\ wpc = "select" /\ wpc' \in {"select", "blocked", "peek", "send"}
              /\ wpc' = "send" => wmsg' \in Drop
              /\ decoys' = decoys \/ \E d \in Drop : decoys' = decoys \cup {d}
          BY <3>4 DEF LambdaP, LambdaDecoy, SendDecoy, SendFatal
        <4> QED BY <4>1, <4>2
      <3>5. CASE LambdaDecoy(Loop)
        <4>1. \/ /\ wpc = "select" /\ wpc' \in {"select", "blocked"}
                 /\ decoys' = decoys
              \/ \E d \in Loop \ decoys : NewLoop(d)
          BY <3>5 DEF LambdaDecoy, SendDecoy, SendFatal
        <4> QED BY <4>1
      <3>6. CASE PeekNext
        <4>1. egressQueue # <<>> => Head(egressQueue) \in Queueable
          BY SeqOps
        <4>2. /\ wpc = "peek" /\ decoys' = decoys
              /\ \/ wpc' \in {"select", "blocked"}
                 \/ wpc' = "send" /\ wmsg' \in Queueable
          BY <3>6, <4>1 DEF PeekNext, SendFatal
        <4> QED BY <4>2, MessageAssumption
      <3>7. CASE SendToMinclient
        <4>1. /\ wpc = "send" /\ wpc' \in {"store", "notify", "emit"}
              /\ wpc' = "notify" => wmsg \in Caller
              /\ wmsg' = wmsg /\ decoys' = decoys
          BY <3>7 DEF SendToMinclient, AfterSend
        <4> QED BY <4>1, MessageAssumption DEF Queueable
      <3>8. CASE StoreSURB
        <4>1. /\ wpc = "store" /\ wpc' \in {"notify", "emit"}
              /\ wpc' = "notify" => wmsg \in Caller
              /\ wmsg' = wmsg /\ decoys' = decoys
          BY <3>8 DEF StoreSURB
        <4> QED BY <4>1, MessageAssumption DEF Queueable
      <3>9. CASE NotifyCaller \/ PopSent
        <4>1. /\ wpc \notin {"send", "store", "emit", "count"}
              /\ wpc' \notin {"send", "store", "emit", "count"}
              /\ decoys' = decoys
          BY <3>9 DEF NotifyCaller, PopSent, SendFatal
        <4> QED BY <4>1
      <3>10. CASE EmitSent
        <4>1. /\ wpc = "emit" /\ wmsg' = wmsg /\ decoys' = decoys
              /\ wpc' = AfterEmit(wmsg)
          BY <3>10 DEF EmitSent
        <4>2. IF wmsg \in Loop THEN wpc' = "count" ELSE wpc' \in {"select", "pop"}
          BY <4>1, MessageAssumption DEF AfterEmit
        <4> QED BY <4>1, <4>2
      <3> QED BY Zenon, <2>2, <3>1, <3>2, <3>3, <3>4, <3>5, <3>6, <3>7, <3>8, <3>9, <3>10
              DEF WorkerStep, Sending
    \* The sizes that are compared.
    <2> DEFINE A == Cardinality(Answered)
               D == Cardinality(decoys \cap Loop)
               M == TallyModulus
    <2>6. A \in Nat /\ D \in Nat /\ M \in Nat \ {0} /\ decoyLoopTally \in 0 .. (M - 1)
      BY FS_CardinalityType, BoundAssumption DEF TallyInv
    <2>7. (decoyLoopTally + A + Uncounted) % M = D % M
      BY DEF TallyInv, TallyCountsUnanswered
    <2>8. CASE CountLoop
      <3>1. /\ wpc = "count" /\ wpc' = "select"
            /\ decoyLoopTally' = Increment(decoyLoopTally)
            /\ Answered' = Answered /\ decoys' = decoys /\ wmsg \in Loop
        BY <2>8 DEF CountLoop, Answered, TallyInv
      <3>2. Uncounted = 1 /\ Uncounted' = 0
        BY <3>1 DEF Uncounted
      <3>3. (Increment(decoyLoopTally) + A) % M = (decoyLoopTally + A + 1) % M
        BY Zenon, <2>6, TallySteps
      <3>4. Increment(decoyLoopTally) \in Nat
        <4>1. Increment(decoyLoopTally) \in 0 .. (TallyModulus - 1)
          BY TallyRange
        <4> QED BY <4>1, BoundAssumption
      <3>5. (decoyLoopTally' + A + 0) % M = D % M
        BY <2>6, <2>7, <3>1, <3>2, <3>3, <3>4
      <3> QED BY <3>1, <3>2, <3>5 DEF TallyInv, TallyCountsUnanswered
    <2>9. ASSUME NEW d \in Loop \ decoys, NewLoop(d) PROVE TallyInv'
      <3>1. /\ Answered' = Answered /\ decoyLoopTally' = decoyLoopTally
            /\ decoys' \cap Loop = (decoys \cap Loop) \cup {d} /\ d \notin decoys \cap Loop
        BY <2>9 DEF Answered
      <3>2. Uncounted = 0 /\ Uncounted' = 1 /\ wpc' # "count"
        BY <2>9 DEF Uncounted
      <3>3. /\ IsFiniteSet(decoys' \cap Loop)
            /\ Cardinality(decoys' \cap Loop) = D + 1
        <4> DEFINE S == decoys \cap Loop
        <4>1. IsFiniteSet(S) /\ d \notin S /\ decoys' \cap Loop = S \cup {d}
          BY <3>1 DEF TallyInv
        <4> HIDE DEF S
        <4>2. /\ IsFiniteSet(S \cup {d})
              /\ Cardinality(S \cup {d}) = Cardinality(S) + 1
          BY Zenon, <4>1, OneMore
        <4> QED BY Zenon, <4>1, <4>2 DEF S
      <3>4. (decoyLoopTally + A) % M = D % M
        BY <2>6, <2>7, <3>2
      <3>5. decoyLoopTally + A \in Int /\ D \in Int
        BY <2>6
      <3>6. (decoyLoopTally + A + 1) % M = (D + 1) % M
        BY Zenon, <2>6, <3>4, <3>5, ModNext
      <3> QED BY <3>1, <3>2, <3>3, <3>6 DEF TallyInv, TallyCountsUnanswered
    <2>10. ASSUME NEW c \in Ack, LoopReply(c) PROVE TallyInv'
      <3>1. /\ apc[c] = "dispatch" /\ apc' = [apc EXCEPT ![c] = "answered"]
            /\ amsg' = amsg /\ decoys' = decoys /\ wpc' = wpc /\ wmsg' = wmsg
            /\ decoyLoopTally' = Decrement(decoyLoopTally)
        <4>1. amsg[c] \notin Caller \cup Async
          BY <2>10, MessageAssumption DEF Queueable
        <4> QED BY ZenonT(60), <2>10, <4>1 DEF DispatchReply, AckAt
      <3>2. Answered' = Answered \cup {c} /\ c \notin Answered
        <4>1. c \notin Answered
          BY <3>1 DEF Answered
        <4>2. apc'[c] = "answered" /\ \A a \in Ack \ {c} : apc'[a] = apc[a]
          BY <3>1
        <4> QED BY <2>10, <3>1, <4>1, <4>2 DEF Answered
      <3>3. IsFiniteSet(Answered') /\ Cardinality(Answered') = A + 1
        BY <3>2, OneMore DEF TallyInv
      <3>4. Uncounted' = Uncounted /\ Uncounted \in Nat
        BY <3>1 DEF Uncounted
      <3>5. (Decrement(decoyLoopTally) + (A + Uncounted) + 1) % M
              = (decoyLoopTally + (A + Uncounted)) % M
        <4>1. A + Uncounted \in Nat
          BY <2>6, <3>4
        <4> QED BY <2>6, <4>1, TallySteps
      <3>6. Decrement(decoyLoopTally) \in Nat
        <4>1. Decrement(decoyLoopTally) \in 0 .. (TallyModulus - 1)
          BY TallyRange
        <4> QED BY <4>1, BoundAssumption
      <3>7. (decoyLoopTally' + (A + 1) + Uncounted') % M = D % M
        BY <2>6, <2>7, <3>1, <3>4, <3>5, <3>6
      <3> QED BY <3>1, <3>3, <3>7 DEF TallyInv, TallyCountsUnanswered
    <2>11. CASE /\ Idle /\ Answered' = Answered /\ UNCHANGED decoyLoopTally
      BY Zenon, <2>11 DEF TallyInv, TallyCountsUnanswered
    <2> QED BY <2>3, <2>4, <2>5, <2>8, <2>9, <2>10, <2>11
  <1> QED BY <1>1, <1>2, TypeInvariant, ReplyInvariant, PTL DEF Spec

(* decoyLoopTally counts, modulo 2^64, the loop decoys attempted less the  *)
(* replies decrypted.                                                      *)
THEOREM TallyCorrect == Spec => []TallyCountsUnanswered
  BY TallyInvariant, PTL DEF TallyInv
=============================================================================
