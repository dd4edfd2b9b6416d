------------------------------- MODULE Client -------------------------------
(***************************************************************************)
(* The life of a client: client.go, the goroutines that NewSession of      *)
(* session.go starts, and minclient's New and halt.  It goes on where      *)
(* Startup hands over, with NewSession about to wait for the first         *)
(* document.  The goroutines and the channels between them:                *)
(*   - the application: NewSession, awaitFirstPKIDoc, Shutdown;            *)
(*   - the fatal error watcher, which receives once from fatalErrCh;       *)
(*   - the session worker, which takes opCh, asks for the document when it *)
(*     sends, hands the packet to the connect worker over sendCh, and      *)
(*     sends its errors on the unbuffered fatalErrCh;                      *)
(*   - the event sink worker, between eventCh and EventSink;               *)
(*   - minclient's connect worker and PKI worker, whose callbacks send on  *)
(*     opCh, and in which pki.currentDocument waits for the PKI worker.    *)
(* Connection, PkiWorker and Session model the last three in detail; here  *)
(* is what they do to each other's channels.  What the network does within *)
(* one call (a dial, a write, a query of the chain) returns.               *)
(***************************************************************************)
EXTENDS Startup, Sequences

CONSTANTS
    OpChSize,       \* the capacity of opCh
    MaxEpoch

ASSUME ClientAssumption ==
    OpChSize \in Nat \ {0} /\ MaxEpoch \in Nat \ {0}

VARIABLES
    session,        \* c.session is not nil
    missed,         \* halt found c.session nil
    watcher,        \* the fatal error watcher
    hpc,            \* halt, under haltOnce
    halted,         \* whose HaltCh is closed
    wpc, wnow,      \* the session worker; the epoch whose document it asks for
    isConnected,    \* the session worker's view of the connection
    ignored,        \* awaitFirstPKIDoc skipped the latest status it was told
    opCh,
    epc,            \* the event sink worker
    kpc, kops,      \* the connect worker; the statuses it has to tell
    kask, know,     \* the connect worker in currentDocument; its epoch
    fresh,          \* pkiEpoch is the current epoch
    ppc,            \* the PKI worker
    forceUpdateCh, doneWorkerCh,
    doc, valid,     \* the epoch of the stored document, 0 if none; isDocValid
    told,           \* lastCallbackEpoch
    epoch

haltVars  == <<session, missed, watcher, hpc, halted>>
workVars  == <<wpc, wnow, isConnected>>
connVars  == <<kpc, kops, kask, know, fresh>>
pkiVars   == <<ppc, doc, valid, told>>
docChs    == <<forceUpdateCh, doneWorkerCh>>
lifeVars  == <<haltVars, workVars, ignored, opCh, epc, connVars, pkiVars,
               docChs, epoch>>
vars == <<startVars, lifeVars>>

Init ==
    /\ StartInit
    /\ session = FALSE /\ missed = FALSE /\ watcher = "recv" /\ hpc = "no" /\ halted = {}
    /\ wpc = "off" /\ wnow = 0 /\ isConnected = FALSE /\ ignored = FALSE /\ opCh = <<>>
    /\ epc = "off"
    /\ kpc = "off" /\ kops = <<>> /\ kask = "no" /\ know = 0 /\ fresh = FALSE
    /\ ppc = "off" /\ forceUpdateCh = 0 /\ doneWorkerCh = 0
    /\ doc = 0 /\ valid = TRUE /\ told = 0
    /\ epoch = 1

Closed == hpc = "done"      \* fatalErrCh and haltedCh are closed
AppAt(from, to) == At(from, to) /\ UNCHANGED <<file, cfg, saved, info, height, db,
                                               calls, starts>>
-----------------------------------------------------------------------------
(* NewSession.                                                             *)

\* NewSession: eventSinkWorker; minclient.New starts the PKI and connect
\* workers.
NewSession ==
    /\ NewPKIClient
    /\ IF pc' = "await" THEN epc' = "select" /\ kpc' = "flush" /\ ppc' = "select"
                        ELSE UNCHANGED <<epc, kpc, ppc>>
    /\ UNCHANGED <<haltVars, workVars, ignored, opCh, kops, kask, know, fresh,
                   doc, valid, told, docChs, epoch>>

\* awaitFirstPKIDoc: any other operation is skipped.
AwaitSkips ==
    /\ pc = "await" /\ opCh # <<>> /\ Head(opCh) \in {"up", "down"}
    /\ opCh' = Tail(opCh) /\ ignored' = (Head(opCh) = "up")
    /\ UNCHANGED <<startVars, haltVars, workVars, epc, connVars, pkiVars,
                   docChs, epoch>>

\* awaitFirstPKIDoc: the first document.  A valid one starts the worker.
AwaitDocument ==
    /\ pc = "await" /\ opCh # <<>> /\ opCh' = Tail(opCh)
    /\ \/ /\ Head(opCh) = "document" /\ AppAt("await", "assign")
          /\ wpc' = "start" /\ wnow' = epoch
       \/ Head(opCh) = "invalid" /\ AppAt("await", "fatal") /\ UNCHANGED <<wpc, wnow>>
    /\ UNCHANGED <<haltVars, isConnected, ignored, epc, connVars, pkiVars,
                   docChs, epoch>>

\* awaitFirstPKIDoc: the context or the timer is over, at any time.
\* NewSession fails and leaves its goroutines running.
AwaitFails ==
    /\ AppAt("await", "failed") /\ UNCHANGED lifeVars

\* awaitFirstPKIDoc: fatalErrCh <-, which panics once it is closed.
AwaitFatal ==
    /\ \/ watcher = "recv" /\ watcher' = "shutdown" /\ AppAt("fatal", "failed")
       \/ Closed /\ AppAt("fatal", "panic") /\ UNCHANGED watcher
    /\ UNCHANGED <<session, missed, hpc, halted, workVars, ignored, opCh, epc,
                   connVars, pkiVars, docChs, epoch>>

\* Client.NewSession: c.session is assigned when NewSession has returned.
AssignSession ==
    /\ AppAt("assign", "up") /\ session' = TRUE
    /\ UNCHANGED <<missed, watcher, hpc, halted, workVars, ignored, opCh, epc,
                   connVars, pkiVars, docChs, epoch>>
-----------------------------------------------------------------------------
(* The session worker.                                                     *)

WorkerAt(from, to) == wpc = from /\ wpc' = to
WorkerOnly == UNCHANGED <<startVars, haltVars, isConnected, ignored, opCh, epc, pkiVars,
                          epoch>>

\* worker: connStatusChange, or a new document.  After an invalid one it
\* reports the error and goes on.
TakeOp ==
    /\ wpc = "select" /\ opCh # <<>> /\ opCh' = Tail(opCh)
    /\ LET op == Head(opCh) IN
        /\ isConnected' = IF op \in {"up", "down"} THEN op = "up" ELSE isConnected
        /\ ignored' = (ignored /\ op \notin {"up", "down"})
        /\ wpc' = IF op = "invalid" THEN "fatal" ELSE "select"
    /\ UNCHANGED <<startVars, haltVars, wnow, epc, connVars, pkiVars, docChs,
                   epoch>>

\* worker: a timer fired while connected; sending needs the current document.
WorkerSends ==
    /\ isConnected /\ WorkerAt("select", "document") /\ wnow' = epoch
    /\ UNCHANGED <<connVars, docChs>> /\ WorkerOnly

\* currentDocument returned a document.  GetService and makePath ask for one
\* each; GetService finds no loop service in an invalid one, makePath may find
\* no path; then the packet is sent.
WorkerGets ==
    \/ wpc \in {"start", "startWait"} /\ wpc' = "select" /\ wnow' = 0
    \/ wpc \in {"document", "wait"} /\ wpc' = "document" /\ wnow' = epoch
    \/ wpc \in {"document", "wait"} /\ wpc' \in {"send", "select"} /\ wnow' = 0
    \/ wpc \in {"document", "wait"} /\ ~valid /\ wpc' = "fatal" /\ wnow' = 0

\* currentDocument returned nil.  The worker gives up at its start; later a
\* decoy is fatal, a message fails.
WorkerLacks ==
    /\ \/ wpc \in {"start", "startWait"} /\ wpc' = "lastFatal"
       \/ wpc \in {"document", "wait"} /\ wpc' \in {"select", "fatal"}
    /\ wnow' = 0

\* currentDocument: the document is stored.
WorkerHasDocument ==
    /\ wpc \in {"start", "document"} /\ doc = wnow /\ WorkerGets
    /\ UNCHANGED <<connVars, docChs>> /\ WorkerOnly

\* currentDocument: epochtime.Now failed.
WorkerNowFails ==
    /\ wpc \in {"start", "document"} /\ WorkerLacks
    /\ UNCHANGED <<connVars, docChs>> /\ WorkerOnly

\* currentDocument: forceUpdateCh <-.  At the start of the worker a nil
\* document is fatal, so the two waits differ.
WorkerForces ==
    /\ doc # wnow /\ forceUpdateCh = 0 /\ forceUpdateCh' = 1
    /\ \/ WorkerAt("start", "startWait") \/ WorkerAt("document", "wait")
    /\ UNCHANGED <<wnow, connVars, doneWorkerCh>> /\ WorkerOnly

\* currentDocument: <-doneWorkerCh, and the second Load.
WorkerAwakes ==
    /\ wpc \in {"startWait", "wait"} /\ doneWorkerCh = 1 /\ doneWorkerCh' = 0
    /\ IF doc = wnow THEN WorkerGets ELSE WorkerLacks
    /\ UNCHANGED <<connVars, forceUpdateCh>> /\ WorkerOnly

Linked == kpc \in {"up", "closing"}     \* connection's isConnected

\* sendPacket: isConnected under the lock.  While connected the worker keeps
\* the lock until the connect worker takes the packet.
WorkerEnqueues ==
    /\ WorkerAt("send", IF Linked THEN "enqueue" ELSE "select")
    /\ UNCHANGED <<wnow, connVars, docChs>> /\ WorkerOnly

\* onWireConn: <-sendCh, SendCommand and doneFn, on which sendPacket waits.
TakePacket ==
    /\ kops = <<>> /\ kask = "no" /\ kpc = "up" /\ WorkerAt("enqueue", "select")
    /\ kpc' \in {"up", "closing"}
    /\ UNCHANGED <<wnow, kops, kask, know, fresh, docChs>> /\ WorkerOnly

\* worker and decoys: fatalErrCh <-, which panics once it is closed.
WorkerFatal ==
    /\ \/ watcher = "recv" /\ watcher' = "shutdown"
          /\ (WorkerAt("fatal", "select") \/ WorkerAt("lastFatal", "stopped"))
       \/ Closed /\ wpc \in {"fatal", "lastFatal"} /\ wpc' = "panic" /\ UNCHANGED watcher
    /\ UNCHANGED <<startVars, session, missed, hpc, halted, wnow, isConnected, ignored,
                   opCh, epc, connVars, pkiVars, docChs, epoch>>

StopWorker ==
    /\ "session" \in halted /\ WorkerAt("select", "stopped")
    /\ UNCHANGED <<wnow, connVars, docChs>> /\ WorkerOnly
-----------------------------------------------------------------------------
(* The event sink worker.                                                  *)

TakeEvent ==
    /\ epc = "select" /\ epc' = "deliver"
    /\ UNCHANGED <<startVars, haltVars, workVars, ignored, opCh, connVars, pkiVars,
                   docChs, epoch>>

\* The application receives from EventSink, if it ever does.
DeliverEvent ==
    /\ epc = "deliver" /\ epc' = "select"
    /\ UNCHANGED <<startVars, haltVars, workVars, ignored, opCh, connVars,
                   pkiVars, docChs, epoch>>

\* Mutant: the inner select does not watch HaltCh.
SinkWatchesOutside == {"select"}

SinkWatches == {"select", "deliver"}

StopEventSink ==
    /\ "session" \in halted /\ epc \in SinkWatches /\ epc' = "stopped"
    /\ UNCHANGED <<startVars, haltVars, workVars, ignored, opCh, connVars,
                   pkiVars, docChs, epoch>>
-----------------------------------------------------------------------------
(* minclient's connect worker.                                             *)

ConnOnly == UNCHANGED <<startVars, haltVars, workVars, ignored, epc, pkiVars, epoch>>

Room == Len(opCh) < OpChSize

\* onConnection: the event, and opCh <-.  A call of currentDocument that comes
\* next sees the epoch after this.
TellStatus ==
    /\ kops # <<>> /\ Room /\ opCh' = Append(opCh, Head(kops)) /\ kops' = Tail(kops)
    /\ know' = IF kask = "no" THEN know ELSE epoch
    /\ UNCHANGED <<kpc, kask, fresh, docChs>> /\ ConnOnly

ConnectAt(from, to) ==
    kops = <<>> /\ kask = "no" /\ kpc = from /\ kpc' = to /\ UNCHANGED opCh /\ ConnOnly

\* currentDocument, called from here on.
Asks == kask' = "load" /\ know' = epoch
Returns == kask' = "no" /\ know' = 0

\* connectWorker: the flush timer fired in a new epoch.  The call of
\* getDescriptor stands for doConnect's first too.
FlushTimer ==
    /\ ~fresh /\ ConnectAt("flush", "descriptor") /\ Asks
    /\ UNCHANGED <<kops, fresh, docChs>>

\* connectWorker: Now failed, whose error is ignored: no epoch is 2^64 - 1.
FlushNowFails ==
    /\ fresh /\ ConnectAt("flush", "descriptor") /\ Asks
    /\ UNCHANGED <<kops, fresh, docChs>>

StopConnect ==
    /\ "conn" \in halted /\ ConnectAt("flush", "stopped")
    /\ UNCHANGED <<kops, kask, know, fresh, docChs>>

\* Where getDescriptor's caller goes on without a descriptor: connectWorker and
\* doConnect tell the error, a handshake fails, onWireConn ends.
NoDescriptor ==
    \/ kpc = "descriptor" /\ kpc' = "flush" /\ kops' = <<"down">> /\ Returns
    \/ kpc = "handshake" /\ kpc' = "descriptor" /\ kops' = <<"down", "down">> /\ Asks
    \/ kpc = "up" /\ kpc' = "closing" /\ Returns /\ UNCHANGED kops

\* getDescriptor has the document, whose epoch becomes pkiEpoch.  After a
\* handshake setClockSkew pokes the PKI worker.
Descriptor ==
    /\ fresh' = (know = epoch) /\ Returns
    /\ \/ kpc = "descriptor" /\ kpc' = "dial" /\ UNCHANGED <<kops, forceUpdateCh>>
       \/ kpc = "handshake" /\ kpc' = "up" /\ kops' = <<"up">> /\ forceUpdateCh' = 1
       \/ kpc = "up" /\ UNCHANGED <<kpc, kops, forceUpdateCh>>

\* The document lacks the Provider or has it with another key, which resets
\* pkiEpoch; or without an address, or the handshake fails after all.
NotUsable ==
    /\ fresh' \in {FALSE, know = epoch} /\ NoDescriptor
    /\ UNCHANGED forceUpdateCh

\* currentDocument: the document is stored.
ConnectHasDocument ==
    /\ kops = <<>> /\ kask = "load" /\ doc = know /\ (Descriptor \/ NotUsable)
    /\ UNCHANGED <<opCh, doneWorkerCh>> /\ ConnOnly

\* currentDocument: epochtime.Now failed.
ConnectNowFails ==
    /\ kops = <<>> /\ kask = "load" /\ fresh' = FALSE /\ NoDescriptor
    /\ UNCHANGED <<opCh, docChs>> /\ ConnOnly

\* currentDocument: forceUpdateCh <-.
ConnectForces ==
    /\ kops = <<>> /\ kask = "load" /\ doc # know /\ kask' = "wait"
    /\ forceUpdateCh = 0 /\ forceUpdateCh' = 1
    /\ UNCHANGED <<kpc, kops, know, fresh, opCh, doneWorkerCh>> /\ ConnOnly

\* currentDocument: <-doneWorkerCh, and the second Load.
ConnectAwakes ==
    /\ kops = <<>> /\ kask = "wait" /\ doneWorkerCh = 1 /\ doneWorkerCh' = 0
    /\ IF doc = know
        THEN Descriptor \/ NotUsable
        ELSE fresh' = FALSE /\ NoDescriptor /\ UNCHANGED <<forceUpdateCh>>
    /\ UNCHANGED opCh /\ ConnOnly

\* doConnect: the dial fails, or the handshake before the Provider is asked
\* for, which is told twice.
DialFails ==
    /\ ConnectAt("dial", "descriptor") /\ Asks
    /\ kops' \in {<<"down">>, <<"down", "down">>}
    /\ UNCHANGED <<fresh, docChs>>

\* doConnect: HaltCh before or after the dial.
DialCanceled ==
    /\ "conn" \in halted /\ ConnectAt("dial", "flush") /\ kops' = <<"down">>
    /\ UNCHANGED <<kask, know, fresh, docChs>>

\* onTCPConn: the handshake calls IsPeerValid.
DialSucceeds ==
    /\ "conn" \notin halted /\ ConnectAt("dial", "handshake") /\ Asks
    /\ UNCHANGED <<kops, fresh, docChs>>

\* onWireConn: IsPeerValid for a command that was received.
PeerAsked ==
    /\ ConnectAt("up", "up") /\ Asks
    /\ UNCHANGED <<kops, fresh, docChs>>

\* onWireConn ends with an error.
LinkLost ==
    /\ ConnectAt("up", "closing")
    /\ UNCHANGED <<kops, kask, know, fresh, docChs>>

\* onWireConn: HaltCh.
LinkHalted ==
    /\ "conn" \in halted /\ ConnectAt("up", "closing")
    /\ UNCHANGED <<kops, kask, know, fresh, docChs>>

\* Mutant: a lost connection is not told.
LostSilently == <<>>

\* onConnStatusChange's news of a lost connection.
LostStatus == <<"down">>

\* onWireConn's onConnStatusChange, under the lock that sendPacket may hold.
LinkClosed ==
    /\ ConnectAt("closing", "callbacks") /\ wpc # "enqueue" /\ kops' = LostStatus
    /\ UNCHANGED <<kask, know, fresh, docChs>>

\* onWireConn: cbWg.Wait; doConnect tells the loss again and goes round.
CallbacksDone ==
    /\ ConnectAt("callbacks", "descriptor") /\ Asks /\ kops' = LostStatus
    /\ UNCHANGED <<fresh, docChs>>

\* onWireConn: a callback never returns, as onACK may.
CallbackStays ==
    /\ ConnectAt("callbacks", "held")
    /\ UNCHANGED <<kops, kask, know, fresh, docChs>>
-----------------------------------------------------------------------------
(* minclient's PKI worker.                                                 *)

PkiAt(from, to) == ppc = from /\ ppc' = to
PkiOnly == UNCHANGED <<startVars, haltVars, workVars, ignored, epc, connVars, epoch>>

\* worker: a round, forced or of the timer: Now, the fetch of the current
\* document unless it is stored, which may fail, and doneWorkerCh drained and
\* filled, unless OnDocumentFn comes first.
PkiRound ==
    /\ ppc = "select" /\ forceUpdateCh' \in {0, forceUpdateCh}
    /\ \/ doc # epoch /\ doc' = epoch /\ valid' \in BOOLEAN
       \/ UNCHANGED <<doc, valid>>
    /\ IF doc' = epoch /\ told # epoch
        THEN ppc' = "callback" /\ UNCHANGED doneWorkerCh
        ELSE doneWorkerCh' = 1 /\ UNCHANGED ppc
    /\ UNCHANGED <<told, opCh>> /\ PkiOnly

\* onDocument: opCh <-; then the worker fills doneWorkerCh.
PkiCallback ==
    /\ PkiAt("callback", "select") /\ Room
    /\ opCh' = Append(opCh, IF valid THEN "document" ELSE "invalid")
    /\ told' = doc /\ doneWorkerCh' = 1
    /\ UNCHANGED <<doc, valid, forceUpdateCh>> /\ PkiOnly

\* worker: Now fails in a round; the loop goes on without setting the timer.
PkiNowFails ==
    /\ PkiAt("select", "lapsed") /\ forceUpdateCh' \in {0, forceUpdateCh}
    /\ UNCHANGED <<doc, valid, told, opCh, doneWorkerCh>> /\ PkiOnly

\* worker: <-timer.C after the timer could not be stopped: it never fires.
PkiSticks ==
    /\ PkiAt("lapsed", "stuck") /\ forceUpdateCh = 1 /\ forceUpdateCh' = 0
    /\ UNCHANGED <<doc, valid, told, opCh, doneWorkerCh>> /\ PkiOnly

StopPki ==
    /\ "pki" \in halted /\ (PkiAt("select", "stopped") \/ PkiAt("lapsed", "stopped"))
    /\ UNCHANGED <<doc, valid, told, opCh, docChs>> /\ PkiOnly
-----------------------------------------------------------------------------
(* Shutdown.                                                               *)

HaltAt(from, to) == hpc = from /\ hpc' = to
HaltOnly == UNCHANGED <<startVars, session, workVars, ignored, opCh, epc,
                        connVars, pkiVars, docChs, epoch>>

\* Shutdown: the application's, or the watcher's after an error.
Shutdown ==
    /\ HaltAt("no", "check")
    /\ pc \in {"await", "assign", "fatal", "up", "failed"} \/ watcher = "shutdown"
    /\ UNCHANGED <<missed, watcher, halted>> /\ HaltOnly

\* halt: c.session, if there is one, is shut down.
HaltSession ==
    /\ IF session THEN HaltAt("check", "session") /\ halted' = {"session"}
                       /\ UNCHANGED missed
                  ELSE HaltAt("check", "close") /\ missed' = TRUE /\ UNCHANGED halted
    /\ UNCHANGED watcher /\ HaltOnly

\* Mutant: the session's goroutines are not waited for.
NoneAwaited == TRUE

\* worker.Worker.Halt of the session waits for the goroutines.
SessionStopped == wpc = "stopped" /\ epc = "stopped"

\* Session.Shutdown, minclient's halt: conn.Halt.
HaltConn ==
    /\ SessionStopped /\ HaltAt("session", "conn") /\ halted' = halted \cup {"conn"}
    /\ UNCHANGED <<missed, watcher>> /\ HaltOnly

\* Mutant: the connect worker is not waited for.
ConnUnawaited == TRUE

ConnStopped == kpc = "stopped"

\* minclient's halt: pki.Halt.
HaltPki ==
    /\ ConnStopped /\ HaltAt("conn", "pki") /\ halted' = halted \cup {"pki"}
    /\ UNCHANGED <<missed, watcher>> /\ HaltOnly

\* minclient's halt: pki is set to nil and its haltedCh closed.
HaltEnds ==
    /\ ppc = "stopped" /\ HaltAt("pki", "close")
    /\ UNCHANGED <<missed, watcher, halted>> /\ HaltOnly

\* halt: fatalErrCh and haltedCh are closed.  The watcher receives that, or its
\* Shutdown returns.
CloseChannels ==
    /\ HaltAt("close", "done") /\ watcher' = "done" /\ UNCHANGED <<missed, halted>>
    /\ HaltOnly

NewEpoch ==
    /\ pc \notin Starting /\ epoch < MaxEpoch /\ epoch' = epoch + 1 /\ fresh' = FALSE
    /\ UNCHANGED <<startVars, haltVars, workVars, ignored, opCh, epc, kpc, kops,
                   kask, know, pkiVars, docChs>>
-----------------------------------------------------------------------------
Starts == Start /\ UNCHANGED lifeVars

\* A new process has a new Client; no goroutine of a session ran in the old one.
NewProcess ==
    /\ Restart
    /\ session' = FALSE /\ missed' = FALSE /\ watcher' = "recv" /\ hpc' = "no" /\ halted' = {}
    /\ UNCHANGED <<workVars, ignored, opCh, epc, connVars, pkiVars, docChs, epoch>>

App == AwaitSkips \/ AwaitDocument \/ AwaitFails \/ AwaitFatal \/ AssignSession
WorkerStep == TakeOp \/ WorkerSends \/ WorkerHasDocument \/ WorkerForces
                \/ WorkerAwakes \/ WorkerEnqueues \/ WorkerFatal \/ StopWorker
EventSink == TakeEvent \/ StopEventSink
ConnectStep == TellStatus \/ FlushTimer \/ StopConnect \/ ConnectHasDocument
                \/ ConnectForces \/ ConnectAwakes \/ DialCanceled \/ DialSucceeds
                \/ PeerAsked \/ LinkHalted \/ LinkClosed \/ CallbacksDone
PkiStep == PkiRound \/ PkiCallback \/ PkiSticks \/ StopPki
\* With the failures, of which there may be any number.
Worker == WorkerStep \/ WorkerNowFails
Connect == ConnectStep \/ FlushNowFails \/ ConnectNowFails \/ DialFails \/ LinkLost
            \/ CallbackStays
Pki == PkiStep \/ PkiNowFails
Halting == HaltSession \/ HaltConn \/ HaltPki \/ HaltEnds \/ CloseChannels
            \/ (Shutdown /\ watcher = "shutdown")

Next == Starts \/ NewProcess \/ NewSession \/ App \/ Worker \/ EventSink \/ DeliverEvent
        \/ Connect \/ TakePacket \/ Pki \/ Shutdown \/ Halting \/ NewEpoch

Spec == Init /\ [][Next]_vars
-----------------------------------------------------------------------------
(* Every variable holds a value of its kind, and opCh no more than its     *)
(* capacity.                                                               *)
TypeOK ==
    /\ StartTypeOK
    /\ Len(opCh) <= OpChSize
    /\ opCh \in Seq({"up", "down", "document", "invalid"})
    /\ kops \in Seq({"up", "down"}) /\ Len(kops) <= 2
    /\ forceUpdateCh \in {0, 1} /\ doneWorkerCh \in {0, 1}
    /\ {doc, told, wnow, know} \subseteq 0 .. MaxEpoch
    /\ halted \subseteq {"session", "conn", "pki"}

(* A send never meets the closed fatalErrCh: halt closes it only when the  *)
(* session's goroutines have stopped.  The exception is a client that is   *)
(* shut down, by the application or after an error, before NewSession has  *)
(* assigned c.session.                                                     *)
NoSendOnClosed == wpc = "panic" \/ pc = "panic" => missed

(* minclient sets pki to nil only when the session worker and the connect  *)
(* worker, which call through it, have stopped; and when Shutdown has      *)
(* returned, no goroutine of the session is left.                          *)
PkiOutlivesUsers ==
    /\ "pki" \in halted => wpc = "stopped" /\ kpc = "stopped" /\ kops = <<>>
    /\ Closed /\ ~missed => epc = "stopped" /\ ppc = "stopped"

(* Once it has read what it was told, the session worker's view of the     *)
(* connection is the connect worker's, unless awaitFirstPKIDoc skipped the *)
(* news of the connection: no change is lost in opCh.                      *)
ConnectionKnown ==
    wpc = "select" /\ kops = <<>> /\ (\A i \in 1 .. Len(opCh) : opCh[i] \notin {"up", "down"})
        => isConnected = Linked \/ (Linked /\ ignored)

\* What can go on: the guards of the steps of each goroutine, and of Shutdown,
\* that change something.  The application need not receive events.
SessionHalted == "session" \in halted
HeardFatal == watcher = "recv" \/ Closed

AppCan == pc \in {"await", "assign"} \/ (pc = "fatal" /\ HeardFatal)
WorkerCan ==
    \/ wpc = "select" /\ (opCh # <<>> \/ isConnected \/ SessionHalted)
    \/ wpc \in {"start", "document"} /\ (doc = wnow \/ forceUpdateCh = 0)
    \/ wpc \in {"startWait", "wait"} /\ doneWorkerCh = 1
    \/ wpc = "send"
    \/ wpc = "enqueue" /\ kpc = "up" /\ kask = "no" /\ kops = <<>>
    \/ wpc \in {"fatal", "lastFatal"} /\ HeardFatal
SinkCan == epc = "select" \/ (SessionHalted /\ epc \in SinkWatches)
ConnectCan ==
    \/ kops # <<>> /\ Room
    \/ /\ kops = <<>> /\ kask = "no"
       /\ \/ kpc \in {"dial", "callbacks"}
          \/ kpc = "flush" /\ (~fresh \/ "conn" \in halted)
          \/ kpc = "up" /\ "conn" \in halted
          \/ kpc = "closing" /\ wpc # "enqueue"
    \/ kops = <<>> /\ kask = "load" /\ (doc = know \/ forceUpdateCh = 0)
    \/ kops = <<>> /\ kask = "wait" /\ doneWorkerCh = 1
PkiCan ==
    \/ ppc = "callback" /\ Room
    \/ /\ ppc = "select"
       /\ doc # epoch \/ told # epoch \/ doneWorkerCh = 0 \/ forceUpdateCh = 1
    \/ ppc \in {"select", "lapsed"} /\ "pki" \in halted
HaltCan ==
    \/ hpc \in {"check", "close"} \/ (hpc = "no" /\ watcher = "shutdown")
    \/ hpc = "session" /\ SessionStopped
    \/ hpc = "conn" /\ ConnStopped
    \/ hpc = "pki" /\ ppc = "stopped"

\* A goroutine that passes its guard has a step, without counting on a failure.
GuardsSuffice ==
    /\ AppCan     => ENABLED <<App>>_vars
    /\ WorkerCan  => ENABLED <<WorkerStep \/ TakePacket>>_vars
    /\ SinkCan    => ENABLED <<EventSink>>_vars
    /\ ConnectCan => ENABLED <<ConnectStep>>_vars
    /\ PkiCan     => ENABLED <<PkiStep>>_vars
    /\ HaltCan    => ENABLED <<Halting>>_vars

\* The worker has a second error and nobody to receive it.
ErrorUnheard == wpc \in {"fatal", "lastFatal"} /\ watcher = "shutdown"

\* The PKI worker lost its timer when it could not learn the epoch.
EpochUnknown == ppc \in {"lapsed", "stuck"}

\* sendPacket keeps the lock that onConnStatusChange needs to end the link.
SendDeadlock == wpc = "enqueue" /\ kpc = "closing"

\* cbWg.Wait for a callback that does not return.
CallbackHeld == kpc = "held"

\* opCh is full and its reader gone, or waits itself for who sends on opCh.
InCurrentDocument == {"start", "startWait", "document", "wait"}
OpChUnread == ~Room /\ wpc \in {"off", "stopped", "panic"} /\ pc # "await"
OpChCycle ==
    /\ ~Room
    /\ \/ wpc \in InCurrentDocument /\ ppc = "callback"
       \/ wpc = "enqueue" /\ (kops # <<>> \/ (kask # "no" /\ ppc = "callback"))

\* Whoever is inside a call goes on, or one of those that it waits for does,
\* but for the cases that can come about there.
CallsGoOn ==
    /\ pc \in {"await", "assign", "fatal"} => AppCan \/ HaltCan
    /\ wpc \in InCurrentDocument => WorkerCan \/ PkiCan \/ EpochUnknown \/ OpChCycle
    /\ wpc \in {"send", "enqueue"}
        => WorkerCan \/ ConnectCan \/ PkiCan \/ SendDeadlock \/ EpochUnknown \/ OpChCycle
    /\ wpc \in {"fatal", "lastFatal"} => WorkerCan \/ ErrorUnheard
    /\ kops # <<>> \/ kask # "no"
        => AppCan \/ WorkerCan \/ ConnectCan \/ PkiCan \/ EpochUnknown \/ ErrorUnheard
            \/ OpChUnread \/ OpChCycle
    /\ kpc \in {"dial", "closing", "callbacks", "held"} /\ kops = <<>>
        => ConnectCan \/ SendDeadlock \/ CallbackHeld
    /\ hpc = "session"
        => HaltCan \/ SinkCan \/ WorkerCan \/ ConnectCan \/ PkiCan \/ EpochUnknown
            \/ ErrorUnheard \/ SendDeadlock \/ OpChCycle
    /\ hpc = "conn"
        => HaltCan \/ ConnectCan \/ PkiCan \/ EpochUnknown \/ CallbackHeld \/ OpChUnread
    /\ hpc = "pki" => HaltCan \/ PkiCan \/ ppc = "stuck" \/ OpChUnread
    /\ hpc \in {"check", "close"} \/ (watcher = "shutdown" /\ hpc = "no") => HaltCan

(* NewSession, Shutdown and the calls between the goroutines do not hang   *)
(* over their channels and locks, also when nobody receives the events:    *)
(* whoever waits, itself or one of those it waits for can go on.  The code *)
(* has these exceptions, each at the calls it can reach:                   *)
(*   - the session worker has a second fatal error after the one that      *)
(*     began the Shutdown (ErrorUnheard);                                  *)
(*   - epochtime.Now failed in the PKI worker, which then has no timer:    *)
(*     the next caller of currentDocument waits for ever (EpochUnknown);   *)
(*   - a packet waits in sendPacket, with the lock, for a link that ended  *)
(*     (SendDeadlock);                                                     *)
(*   - a callback of the link never returns (CallbackHeld);                *)
(*   - opCh is full and its reader gone, or waiting for the one who sends  *)
(*     (OpChUnread, OpChCycle).                                            *)
(* No channel holds more than its capacity meanwhile.                      *)
HangsOnlySo == TypeOK /\ GuardsSuffice /\ CallsGoOn
=============================================================================
