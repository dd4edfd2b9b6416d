---------------------------- MODULE ClientProofs ----------------------------
(***************************************************************************)
(* Proofs about Client for every capacity of opCh, any configuration       *)
(* files, any number of starts, calls, epochs and failures.  The inductive *)
(* invariants:                                                             *)
(*   - LifeInv says which goroutines a Shutdown that found the session has *)
(*     already seen the end of, by how far it has come;                    *)
(*   - DbInv says where in the start the database is free;                 *)
(*   - KnownInv says that the last status on its way to the session's      *)
(*     worker is that of the connection, or that the worker knows it;      *)
(*   - FileInv says what is in the configuration file and in memory: a     *)
(*     configuration that loads as it is, but for one default;             *)
(*   - WaitInv says which goroutines run together, that those that halt    *)
(*     waits for have been told to stop, and where in its work the connect *)
(*     worker is when it calls currentDocument (AskingOK);                 *)
(*   - StartOK, LifeTypeOK and OpChOK are the types.                       *)
(***************************************************************************)
EXTENDS Client, TLAPS

\* A leaf that names no prover is tried with each of these in turn.
USE SMTT(30), Z3T(30), ZenonT(60)

-----------------------------------------------------------------------------
(* What the steps of the session worker, the connect worker and the PKI    *)
(* worker do, as far as the invariants are concerned.                      *)

Working    == {"start", "startWait", "document", "wait", "send", "enqueue", "fatal",
               "lastFatal", "select"}
Connecting == {"flush", "descriptor", "dial", "handshake", "up", "closing", "callbacks"}

WorkerDoes ==
    /\ UNCHANGED <<startVars, session, missed, hpc, halted, epc, kops, kask, know,
                   pkiVars, epoch>>
    /\ watcher' = watcher \/ (watcher = "recv" /\ watcher' = "shutdown")
    /\ wpc \in Working /\ wpc' \in (Working \ {"start"}) \cup {"stopped", "panic"}
    /\ wpc' = "panic" => Closed
    /\ wpc' = "enqueue" => Linked /\ kpc' = kpc
    /\ kpc' = kpc \/ (kpc = "up" /\ kask = "no" /\ kpc' = "closing")
    /\ wnow' \in {wnow, epoch, 0}
    /\ forceUpdateCh' \in {forceUpdateCh, 1} /\ doneWorkerCh' \in {doneWorkerCh, 0}

\* All but TakeOp.
WorkerReadsNothing == UNCHANGED <<opCh, isConnected, ignored>>

(* Every step of the session worker does what WorkerDoes says.             *)
LEMMA WorkerSteps ==
    ASSUME Worker \/ TakePacket
    PROVE  WorkerDoes /\ (TakeOp \/ WorkerReadsNothing)
<1> USE DEF WorkerDoes, WorkerReadsNothing, Working, haltVars, connVars, docChs
<1>1. CASE TakeOp
  BY <1>1 DEF TakeOp
<1>2. CASE WorkerSends
  BY <1>2 DEF WorkerSends, WorkerAt, WorkerOnly
<1>3. CASE WorkerHasDocument
  BY <1>3 DEF WorkerHasDocument, WorkerGets, WorkerOnly
<1>4. CASE WorkerNowFails
  BY <1>4 DEF WorkerNowFails, WorkerLacks, WorkerOnly
<1>5. CASE WorkerForces
  BY <1>5 DEF WorkerForces, WorkerAt, WorkerOnly
<1>6. CASE WorkerAwakes
  BY <1>6 DEF WorkerAwakes, WorkerGets, WorkerLacks, WorkerOnly
<1>7. CASE WorkerEnqueues
  BY <1>7 DEF WorkerEnqueues, WorkerAt, WorkerOnly
<1>8. CASE TakePacket
  BY <1>8 DEF TakePacket, WorkerAt, WorkerOnly
<1>9. CASE WorkerFatal
  BY <1>9 DEF WorkerFatal, WorkerAt
<1>10. CASE StopWorker
  BY <1>10 DEF StopWorker, WorkerAt, WorkerOnly
<1> QED BY Zenon, <1>1, <1>2, <1>3, <1>4, <1>5, <1>6, <1>7, <1>8, <1>9, <1>10 DEF Worker, WorkerStep

\* What the connect worker leaves alone, and a step that tells nothing.
ConnectKeeps == UNCHANGED <<startVars, haltVars, workVars, ignored, epc, pkiVars, epoch>>

\* The connect worker is in currentDocument only where it calls it.
AskingOK ==
    /\ kask # "no" => kpc \in {"descriptor", "handshake", "up"}
    /\ kpc \in {"descriptor", "handshake"} => kask # "no"

ConnectDoes ==
    /\ kops = <<>> /\ UNCHANGED opCh
    /\ \/ kpc \in Connecting /\ kpc' \in Connecting \cup {"held", "stopped"}
       \/ UNCHANGED <<kpc, kops>>
    /\ \/ kops' = <<>> /\ Linked' = Linked
       \/ kops' = <<"up">> /\ Linked'
       \/ kops' \in {<<"down">>, <<"down", "down">>} /\ ~Linked'
    /\ kpc' = "stopped" => kops' = <<>>
    /\ Linked /\ ~Linked' => wpc # "enqueue"
    /\ know' \in {know, epoch, 0} /\ kask' \in {"no", "load", "wait"}
    /\ AskingOK => AskingOK'
    /\ forceUpdateCh' \in {forceUpdateCh, 1} /\ doneWorkerCh' \in {doneWorkerCh, 0}

(* Where getDescriptor's caller goes on does what ConnectDoes says.        *)
LEMMA DescriptorSteps ==
    ASSUME kops = <<>>, UNCHANGED opCh, Descriptor \/ NotUsable \/ NoDescriptor,
           forceUpdateCh' \in {forceUpdateCh, 1}, doneWorkerCh' \in {doneWorkerCh, 0},
           kask \in {"load", "wait"}
    PROVE  ConnectDoes
<1> USE DEF ConnectDoes, Connecting, Linked, Asks, Returns, AskingOK
<1>1. CASE NoDescriptor
  BY <1>1 DEF NoDescriptor
<1>2. CASE Descriptor
  BY <1>2 DEF Descriptor
<1> QED BY <1>1, <1>2 DEF NotUsable

(* Every step of the connect worker is TellStatus or does what ConnectDoes *)
(* says.                                                                   *)
LEMMA ConnectSteps ==
    ASSUME Connect
    PROVE  ConnectKeeps /\ (TellStatus \/ ConnectDoes)
<1>1. ConnectKeeps
  BY Zenon DEF Connect, ConnectStep, ConnectKeeps, ConnOnly, ConnectAt, TellStatus, FlushTimer,
     FlushNowFails, StopConnect,
     ConnectHasDocument, ConnectNowFails, ConnectForces, ConnectAwakes, DialFails,
     DialCanceled, DialSucceeds, PeerAsked, LinkLost, LinkHalted, LinkClosed, CallbacksDone,
     CallbackStays
<1> SUFFICES TellStatus \/ ConnectDoes
  BY <1>1
<1>2. CASE ConnectHasDocument
  BY <1>2, DescriptorSteps DEF ConnectHasDocument, Descriptor, NotUsable
<1>3. CASE ConnectNowFails
  BY <1>3, DescriptorSteps DEF ConnectNowFails, docChs
<1>4. CASE ConnectAwakes
  BY <1>4, DescriptorSteps DEF ConnectAwakes, Descriptor, NotUsable
<1> USE DEF ConnectDoes, Connecting, Linked, Asks, ConnectAt, docChs, AskingOK
<1>5. CASE FlushTimer \/ FlushNowFails \/ StopConnect
  BY <1>5 DEF FlushTimer, FlushNowFails, StopConnect
<1>6. CASE ConnectForces
  BY <1>6 DEF ConnectForces
<1>7. CASE DialFails
  BY <1>7 DEF DialFails
<1>10. CASE DialCanceled \/ DialSucceeds
  BY <1>10 DEF DialCanceled, DialSucceeds
<1>8. CASE PeerAsked \/ LinkLost \/ LinkHalted
  BY <1>8 DEF PeerAsked, LinkLost, LinkHalted
<1>9. CASE LinkClosed \/ CallbacksDone \/ CallbackStays
  BY <1>9 DEF LinkClosed, CallbacksDone, CallbackStays, LostStatus
<1> QED BY Zenon, <1>2, <1>3, <1>4, <1>5, <1>6, <1>7, <1>8, <1>9, <1>10 DEF Connect, ConnectStep

PkiDoes ==
    /\ UNCHANGED <<startVars, haltVars, workVars, ignored, epc, connVars, epoch>>
    /\ ppc \in {"select", "callback", "lapsed"}
    /\ ppc' \in {"select", "callback", "lapsed", "stuck", "stopped"}
    /\ ppc' = "stopped" => "pki" \in halted
    /\ doc' \in {doc, epoch} /\ told' \in {told, doc}
    /\ forceUpdateCh' \in {forceUpdateCh, 0} /\ doneWorkerCh' \in {doneWorkerCh, 1}

(* Every step of the PKI worker does what PkiDoes says; only its callback  *)
(* sends on opCh.                                                          *)
LEMMA PkiSteps == ASSUME Pki PROVE PkiDoes /\ (PkiCallback \/ UNCHANGED opCh)
<1> USE DEF PkiDoes, PkiOnly, PkiAt, docChs
<1>1. CASE PkiRound
  BY <1>1 DEF PkiRound
<1>2. CASE PkiCallback
  BY <1>2 DEF PkiCallback
<1>3. CASE PkiNowFails \/ PkiSticks
  BY <1>3 DEF PkiNowFails, PkiSticks
<1>4. CASE StopPki
  BY <1>4 DEF StopPki
<1> QED BY Zenon, <1>1, <1>2, <1>3, <1>4 DEF Pki, PkiStep
-----------------------------------------------------------------------------
(* The order of a Shutdown.                                                *)

\* halt is past its stop of the session, of the connection, of the PKI worker.
PastSession == {"conn", "pki", "close", "done"}
PastConn    == {"pki", "close", "done"}
PastPki     == {"close", "done"}

LifeInv ==
    /\ session => pc = "up"
    /\ pc \notin {"assign", "up"} => wpc = "off"
    /\ hpc \in {"session"} \cup PastSession => missed \/ session
    /\ hpc \in {"no", "check"} \/ missed => halted = {}
    /\ missed => hpc \in PastPki
    /\ "pki" \in halted => hpc \in PastConn
    /\ hpc \in PastSession /\ ~missed => wpc = "stopped" /\ epc = "stopped"
    /\ hpc \in PastConn /\ ~missed => kpc = "stopped"
    /\ hpc \in PastPki /\ ~missed => ppc = "stopped"
    /\ kpc = "stopped" => kops = <<>>
    /\ NoSendOnClosed

(* No goroutine runs and nothing is shut down at the start.                *)
LEMMA LifeInit == Init => LifeInv
BY DEF Init, StartInit, LifeInv, PastSession, PastConn, PastPki, NoSendOnClosed

(* Steps of the start, NewSession and the application.                     *)
LEMMA LifeApp ==
    ASSUME LifeInv, Starts \/ NewProcess \/ NewSession \/ App
    PROVE  LifeInv'
<1> USE DEF LifeInv, NoSendOnClosed, PastSession, PastConn, PastPki, lifeVars, haltVars,
            workVars, connVars, pkiVars, docChs, startVars, At, AppAt
<1>1. CASE Starts
  <2>1. UNCHANGED <<session, missed, hpc, halted, wpc, epc, kpc, kops, ppc>>
    BY <1>1 DEF Starts
  <2>2. {pc, pc'} \cap {"assign", "up", "panic"} = {}
    BY <1>1, Zenon DEF Starts, Start, LoadFile, ABCIInfo, TrustFails, UpdateTrust, CreateFile,
       EncodeFile, SaveFails, OpenForRegistration, Register, NewFromConfig,
       PKIClientFails, CallAgain, NewBlock
  <2> QED BY <2>1, <2>2, Zenon
<1>2. CASE NewProcess
  BY <1>2 DEF NewProcess, Restart, Starting
<1>3. CASE NewSession
  BY <1>3 DEF NewSession, NewPKIClient
<1>4. CASE App
  <2>1. CASE AwaitSkips
    BY <2>1 DEF AwaitSkips
  <2>2. CASE AwaitDocument
    BY <2>2 DEF AwaitDocument
  <2>3. CASE AwaitFails
    BY <2>3 DEF AwaitFails
  <2>4. CASE AwaitFatal
    BY <2>4 DEF AwaitFatal, Closed
  <2>5. CASE AssignSession
    BY <2>5 DEF AssignSession
  <2> QED BY <1>4, <2>1, <2>2, <2>3, <2>4, <2>5 DEF App
<1> QED BY <1>1, <1>2, <1>3, <1>4

(* Steps of the session's goroutines: one that has stopped stays so.       *)
LEMMA LifeWorkers ==
    ASSUME LifeInv,
           \/ Worker \/ TakePacket \/ EventSink \/ DeliverEvent \/ Connect \/ Pki
           \/ NewEpoch
    PROVE  LifeInv'
<1> USE DEF LifeInv, NoSendOnClosed, PastSession, PastConn, PastPki, haltVars,
            workVars, connVars, pkiVars, docChs, startVars
<1>1. CASE Worker \/ TakePacket
  BY <1>1, WorkerSteps DEF WorkerDoes, Working, Closed
<1>2. CASE EventSink \/ DeliverEvent
  BY <1>2 DEF EventSink, TakeEvent, DeliverEvent, StopEventSink, SinkWatches
<1>3. CASE Connect
  <2>1. ConnectKeeps /\ (TellStatus \/ ConnectDoes)
    BY <1>3, ConnectSteps
  <2>2. UNCHANGED <<session, missed, hpc, halted, pc, wpc, epc, ppc>>
    BY <2>1 DEF ConnectKeeps
  <2>3. /\ kpc = "stopped" => kpc' = "stopped"
        /\ kpc' = "stopped" => kops' = <<>>
    BY <2>1 DEF TellStatus, ConnectDoes, Connecting
  <2> QED BY <2>2, <2>3
<1>4. CASE Pki
  BY <1>4, PkiSteps DEF PkiDoes
<1>5. CASE NewEpoch
  BY <1>5 DEF NewEpoch
<1> QED BY <1>1, <1>2, <1>3, <1>4, <1>5

(* Steps of Shutdown: each waits for what LifeInv says of the next.        *)
LEMMA LifeHalt == ASSUME LifeInv, Shutdown \/ Halting PROVE LifeInv'
<1> USE DEF LifeInv, NoSendOnClosed, PastSession, PastConn, PastPki, HaltAt, HaltOnly,
            workVars, connVars, pkiVars, docChs, startVars
<1>1. CASE Shutdown
  BY <1>1 DEF Shutdown
<1>2. CASE HaltSession
  BY <1>2 DEF HaltSession
<1>3. CASE HaltConn
  BY <1>3 DEF HaltConn, SessionStopped
<1>4. CASE HaltPki
  BY <1>4 DEF HaltPki, ConnStopped
<1>5. CASE HaltEnds
  BY <1>5 DEF HaltEnds
<1>6. CASE CloseChannels
  BY <1>6 DEF CloseChannels
<1> QED BY <1>1, <1>2, <1>3, <1>4, <1>5, <1>6 DEF Halting

(* LifeInv is inductive.                                                   *)
THEOREM LifeInvariant == Spec => []LifeInv
<1>1. LifeInv /\ [Next]_vars => LifeInv'
  <2> SUFFICES ASSUME LifeInv, [Next]_vars PROVE LifeInv'
    OBVIOUS
  <2>1. CASE Next
    BY <2>1, LifeApp, LifeWorkers, LifeHalt DEF Next
  <2>2. CASE UNCHANGED vars
    BY <2>2 DEF vars, lifeVars, haltVars, workVars, connVars, pkiVars, startVars,
       LifeInv, NoSendOnClosed
  <2> QED BY <2>1, <2>2
<1> QED BY LifeInit, <1>1, PTL DEF Spec

(* No goroutine sends on the closed fatalErrCh, but for a client that is   *)
(* shut down before NewSession has assigned c.session (client.go, halt).   *)
THEOREM NeverSendsOnClosed == Spec => []NoSendOnClosed
<1>1. LifeInv => NoSendOnClosed
  BY DEF LifeInv
<1> QED BY <1>1, LifeInvariant, PTL

(* minclient's halt sets pki to nil when its users have stopped, and when  *)
(* Shutdown has returned all goroutines of the session have.               *)
THEOREM ShutdownInOrder == Spec => []PkiOutlivesUsers
<1>1. LifeInv => PkiOutlivesUsers
  BY DEF LifeInv, PkiOutlivesUsers, Closed, PastSession, PastConn, PastPki
<1> QED BY <1>1, LifeInvariant, PTL
-----------------------------------------------------------------------------
(* The database, over the steps of one process and of the next.            *)

BeforeSession == {"load", "trust", "block", "save", "encode", "register", "new"}
WithSession   == {"await", "fatal", "assign", "up", "panic"}

DbInv ==
    /\ calls \in Nat
    /\ pc \in BeforeSession \/ (pc = "session" /\ calls = 0) => db = "free"
    /\ pc \in WithSession => calls = MaxCalls
    /\ pc = "failed" => calls > 0 \/ calls = MaxCalls

(* A step of a goroutine or of Shutdown is not one of the start.           *)
LEMMA StartUntouched ==
    Worker \/ TakePacket \/ EventSink \/ DeliverEvent \/ Connect \/ Pki \/ Shutdown
        \/ Halting \/ NewEpoch
      => UNCHANGED startVars
<1>1. Worker \/ TakePacket => UNCHANGED startVars
  BY WorkerSteps DEF WorkerDoes
<1>2. Connect => UNCHANGED startVars
  BY Zenon DEF Connect, ConnectStep, ConnOnly, ConnectAt, TellStatus, FlushTimer, FlushNowFails,
     StopConnect,
     ConnectHasDocument, ConnectNowFails, ConnectForces, ConnectAwakes, DialFails,
     DialCanceled, DialSucceeds, PeerAsked, LinkLost, LinkHalted, LinkClosed, CallbacksDone,
     CallbackStays
<1>3. Pki => UNCHANGED startVars
  BY PkiSteps DEF PkiDoes
<1>4. EventSink \/ DeliverEvent \/ Shutdown \/ Halting \/ NewEpoch => UNCHANGED startVars
  BY Zenon DEF EventSink, TakeEvent, StopEventSink, DeliverEvent, Shutdown, Halting,
     HaltOnly, HaltSession, HaltConn, HaltPki, HaltEnds, CloseChannels,
     NewEpoch
<1> QED BY Zenon, <1>1, <1>2, <1>3, <1>4

(* A step of the application inside NewSession only moves it on.           *)
LEMMA AppMoves ==
    ASSUME App
    PROVE  /\ UNCHANGED <<file, cfg, saved, info, height, db, calls, starts>>
           /\ pc \in {"await", "fatal", "assign"}
           /\ pc' \in {"await", "fatal", "assign", "up", "failed", "panic"}
<1>1. CASE AwaitSkips
  BY Zenon, <1>1 DEF AwaitSkips, startVars
<1>2. CASE AwaitDocument
  BY Zenon, <1>2 DEF AwaitDocument, AppAt, At
<1>3. CASE AwaitFails
  BY Zenon, <1>3 DEF AwaitFails, AppAt, At
<1>4. CASE AwaitFatal
  BY Zenon, <1>4 DEF AwaitFatal, AppAt, At
<1>5. CASE AssignSession
  BY Zenon, <1>5 DEF AssignSession, AppAt, At
<1> QED BY Zenon, <1>1, <1>2, <1>3, <1>4, <1>5 DEF App

(* The start finds the database free, since a registration that ends has   *)
(* released it, until a call of NewSession fails.                          *)
LEMMA DbStep == DbInv /\ [Next]_vars => DbInv'
<1> SUFFICES ASSUME DbInv, [Next]_vars PROVE DbInv'
  OBVIOUS
<1> USE StartupAssumption DEF DbInv, BeforeSession, WithSession
<1>1. CASE UNCHANGED startVars
  BY <1>1 DEF startVars
<1>2. CASE Starts
  BY <1>2 DEF Starts, Start, At, LoadFile, ABCIInfo, TrustFails, UpdateTrust, CreateFile,
     EncodeFile, SaveFails, OpenForRegistration, Register, Released, NewFromConfig,
     PKIClientFails, CallAgain, NewBlock
<1>3. CASE NewProcess
  BY <1>3 DEF NewProcess, Restart
<1>4. CASE NewSession
  BY <1>4 DEF NewSession, NewPKIClient
<1>5. CASE App
  BY <1>5, AppMoves
<1> QED BY <1>1, <1>2, <1>3, <1>4, <1>5, StartUntouched DEF Next, vars

(* The registration and the first NewSession of every process find the     *)
(* database free (session.go, NewSession; client.go,                       *)
(* AutoRegisterRandomClient), after any number of restarts and failures.   *)
THEOREM DatabaseAvailable == Spec => []DatabaseFree
<1>1. Init => DbInv
  BY DEF Init, StartInit, DbInv, BeforeSession, WithSession
<1>2. DbInv => DatabaseFree
  BY DEF DbInv, DatabaseFree, BeforeSession
<1> QED BY <1>1, <1>2, DbStep, PTL DEF Spec
-----------------------------------------------------------------------------
(* What the session worker knows of the connection.                        *)

Status == {"up", "down"}
Op     == Status \cup {"document", "invalid"}

\* No status is left in s; the last status in s says up.
NoStatus(s) == \A i \in 1 .. Len(s) : s[i] \notin Status
LastSays(s, up) == \A i \in 1 .. Len(s) :
    s[i] \in Status /\ (\A j \in i + 1 .. Len(s) : s[j] \notin Status) => (s[i] = "up") = up

View == isConnected = Linked \/ (Linked /\ ignored)

KnownInv ==
    /\ opCh \in Seq(Op) /\ kops \in Seq(Status)
    /\ pc \notin {"assign", "up"} => wpc = "off"
    /\ wpc = "off" => isConnected = FALSE
    /\ pc \in Starting => kpc = "off"
    /\ pc = "failed" => kpc = "off" \/ calls = MaxCalls
    /\ kpc = "off" => kops = <<>> /\ NoStatus(opCh)
    /\ \A i \in 1 .. Len(kops) : kops[i] = IF Linked THEN "up" ELSE "down"
    /\ kops = <<>> => LastSays(opCh, Linked)
    /\ kops = <<>> /\ NoStatus(opCh) => View

(* A status that is sent is the last one; another operation changes none.  *)
LEMMA Appended ==
    ASSUME NEW s \in Seq(Op), NEW x \in Op, NEW up \in BOOLEAN
    PROVE  /\ Append(s, x) \in Seq(Op)
           /\ x \in Status => ~NoStatus(Append(s, x)) /\ LastSays(Append(s, x), x = "up")
           /\ x \notin Status /\ NoStatus(s) => NoStatus(Append(s, x))
           /\ x \notin Status /\ LastSays(s, up) => LastSays(Append(s, x), up)
           /\ NoStatus(Append(s, x)) => NoStatus(s)
<1> DEFINE t == Append(s, x)
<1>1. /\ t \in Seq(Op) /\ Len(t) = Len(s) + 1 /\ t[Len(s) + 1] = x /\ Len(s) \in Nat
      /\ \A i \in 1 .. Len(s) : t[i] = s[i]
  OBVIOUS
<1> HIDE DEF t
<1>2. x \in Status => ~NoStatus(t) /\ LastSays(t, x = "up")
  <2> HAVE x \in Status
  <2>1. ~NoStatus(t)
    BY <1>1 DEF NoStatus
  <2>2. ASSUME NEW i \in 1 .. Len(t), \A j \in i + 1 .. Len(t) : t[j] \notin Status
        PROVE  i = Len(s) + 1
    BY <1>1, <2>2
  <2> QED BY <1>1, <2>1, <2>2 DEF LastSays
<1>3. x \notin Status /\ NoStatus(s) => NoStatus(t)
  BY <1>1 DEF NoStatus
<1>4. x \notin Status /\ LastSays(s, up) => LastSays(t, up)
  <2> SUFFICES ASSUME x \notin Status, LastSays(s, up), NEW i \in 1 .. Len(t),
                      t[i] \in Status, \A j \in i + 1 .. Len(t) : t[j] \notin Status
               PROVE  (t[i] = "up") = up
    BY DEF LastSays
  <2>1. i \in 1 .. Len(s)
    BY <1>1
  <2>2. \A j \in i + 1 .. Len(s) : s[j] \notin Status
    BY <1>1, <2>1
  <2> QED BY <1>1, <2>1, <2>2 DEF LastSays
<1>5. NoStatus(t) => NoStatus(s)
  BY <1>1 DEF NoStatus
<1> QED BY <1>1, <1>2, <1>3, <1>4, <1>5 DEF t

(* Receiving the head leaves the last status, or was of the last one.      *)
LEMMA Received ==
    ASSUME NEW s \in Seq(Op), s # <<>>, NEW up \in BOOLEAN
    PROVE  /\ Head(s) \in Op /\ Tail(s) \in Seq(Op)
           /\ NoStatus(s) => NoStatus(Tail(s)) /\ Head(s) \notin Status
           /\ LastSays(s, up) => LastSays(Tail(s), up)
           /\ NoStatus(Tail(s)) /\ Head(s) \notin Status => NoStatus(s)
           /\ LastSays(s, up) /\ NoStatus(Tail(s)) /\ Head(s) \in Status
                => (Head(s) = "up") = up
<1> DEFINE t == Tail(s)
<1>1. /\ t \in Seq(Op) /\ Len(s) = Len(t) + 1 /\ s[1] = Head(s) /\ Len(t) \in Nat
      /\ Head(s) \in Op /\ \A i \in 1 .. Len(t) : t[i] = s[i + 1]
  OBVIOUS
<1> HIDE DEF t
<1>2. \A i \in 2 .. Len(s) : i - 1 \in 1 .. Len(t) /\ s[i] = t[i - 1]
  BY <1>1
<1>3. NoStatus(s) => NoStatus(t) /\ Head(s) \notin Status
  BY <1>1 DEF NoStatus
<1>4. LastSays(s, up) => LastSays(t, up)
  <2> SUFFICES ASSUME LastSays(s, up), NEW i \in 1 .. Len(t), t[i] \in Status,
                      \A j \in i + 1 .. Len(t) : t[j] \notin Status
               PROVE  (t[i] = "up") = up
    BY DEF LastSays
  <2>1. \A j \in i + 2 .. Len(s) : s[j] \notin Status
    BY <1>1, <1>2
  <2> QED BY <1>1, <2>1 DEF LastSays
<1>5. NoStatus(t) /\ Head(s) \notin Status => NoStatus(s)
  <2> SUFFICES ASSUME NoStatus(t), Head(s) \notin Status, NEW i \in 1 .. Len(s)
               PROVE  s[i] \notin Status
    BY DEF NoStatus
  <2>1. i = 1 \/ i \in 2 .. Len(s)
    BY <1>1
  <2> QED BY <1>1, <1>2, <2>1 DEF NoStatus
<1>6. LastSays(s, up) /\ NoStatus(t) /\ Head(s) \in Status => (Head(s) = "up") = up
  <2> SUFFICES ASSUME LastSays(s, up), NoStatus(t), Head(s) \in Status
               PROVE  (Head(s) = "up") = up
    OBVIOUS
  <2>1. \A j \in 2 .. Len(s) : s[j] \notin Status
    BY <1>1, <1>2, Zenon DEF NoStatus
  <2> QED BY <1>1, <2>1 DEF LastSays
<1> QED BY <1>1, <1>3, <1>4, <1>5, <1>6 DEF t

\* What KnownInv is about.
knownVars == <<opCh, kops, pc, calls, wpc, isConnected, kpc, ignored>>

(* Steps of the start and of the application; the latter may skip a status. *)
LEMMA KnownApp ==
    ASSUME KnownInv, DbInv, Starts \/ NewProcess \/ NewSession \/ App
    PROVE  KnownInv'
<1> USE StartupAssumption
        DEF KnownInv, DbInv, View, Linked, BeforeSession, WithSession, Starting,
            lifeVars, haltVars, workVars, connVars, pkiVars, startVars, At, AppAt
<1>1. CASE Starts
  <2>1. UNCHANGED <<opCh, kops, wpc, isConnected, kpc, ignored>>
    BY <1>1 DEF Starts
  <2>2. {pc, pc'} \cap {"assign", "up"} = {}
    BY <1>1, Zenon DEF Starts, Start, LoadFile, ABCIInfo, TrustFails, UpdateTrust, CreateFile,
       EncodeFile, SaveFails, OpenForRegistration, Register, NewFromConfig,
       PKIClientFails, CallAgain, NewBlock
  <2>3. CASE CallAgain
    BY <2>1, <2>3 DEF CallAgain
  <2>4. CASE ~CallAgain
    <3>1. pc \in Starting
      BY <1>1, <2>4, Zenon DEF Starts, Start, LoadFile, ABCIInfo, TrustFails, UpdateTrust,
         CreateFile, EncodeFile, SaveFails, OpenForRegistration, Register, NewFromConfig,
         PKIClientFails, NewBlock
    <3> QED BY <2>1, <2>2, <3>1
  <2> QED BY <2>3, <2>4, Zenon
<1>2. CASE NewProcess
  BY <1>2 DEF NewProcess, Restart
<1>3. CASE NewSession
  BY <1>3 DEF NewSession, NewPKIClient
<1>4. CASE App
  <2>1. CASE AwaitSkips
    <3>1. /\ opCh # <<>> /\ Head(opCh) \in Status /\ opCh' = Tail(opCh)
          /\ ignored' = (Head(opCh) = "up") /\ pc = "await"
          /\ UNCHANGED <<kops, pc, calls, wpc, isConnected, kpc>>
      BY <2>1 DEF AwaitSkips, Status
    <3>2. Linked' = Linked /\ Linked \in BOOLEAN
      BY <3>1
    <3> HIDE DEF Linked
    <3>3. PICK up \in BOOLEAN : up = Linked
      BY <3>2, Zenon
    <3> QED BY <3>1, <3>2, <3>3, Received, Zenon
  <2>2. CASE AwaitDocument
    <3>1. /\ opCh # <<>> /\ Head(opCh) \notin Status /\ opCh' = Tail(opCh)
          /\ pc = "await" /\ pc' \in {"assign", "fatal"} /\ (pc' = "fatal" => wpc' = wpc)
          /\ wpc = "off"
          /\ UNCHANGED <<kops, calls, isConnected, kpc, ignored>>
      BY <2>2 DEF AwaitDocument, Status
    <3>2. Linked' = Linked /\ Linked \in BOOLEAN
      BY <3>1
    <3> HIDE DEF Linked
    <3>3. PICK up \in BOOLEAN : up = Linked
      BY <3>2, Zenon
    <3> QED BY <3>1, <3>2, <3>3, Received, Zenon
  <2>3. CASE AwaitFails
    BY <2>3 DEF AwaitFails
  <2>4. CASE AwaitFatal
    BY <2>4 DEF AwaitFatal
  <2>5. CASE AssignSession
    BY <2>5 DEF AssignSession
  <2> QED BY <1>4, <2>1, <2>2, <2>3, <2>4, <2>5, Zenon DEF App
<1> QED BY <1>1, <1>2, <1>3, <1>4, Zenon

(* The session worker reads a status, which may be the last.               *)
LEMMA KnownWorker == ASSUME KnownInv, Worker \/ TakePacket PROVE KnownInv'
<1>0. WorkerDoes /\ (TakeOp \/ WorkerReadsNothing)
  BY WorkerSteps
<1>1. /\ UNCHANGED <<kops, pc, calls>> /\ Linked' = Linked /\ wpc # "off" /\ wpc' # "off"
      /\ (kpc' = "off") = (kpc = "off")
  BY <1>0 DEF WorkerDoes, Working, Linked, startVars
<1> USE DEF KnownInv, View
<1>2. CASE TakeOp
  <2>1. /\ opCh # <<>> /\ opCh' = Tail(opCh)
        /\ isConnected' = IF Head(opCh) \in Status THEN Head(opCh) = "up" ELSE isConnected
        /\ ignored' = (ignored /\ Head(opCh) \notin Status)
    BY <1>2 DEF TakeOp, Status
  <2>2. Linked \in BOOLEAN
    BY DEF Linked
  <2>3. PICK up \in BOOLEAN : up = Linked
    BY <2>2, Zenon
  <2> QED BY <1>1, <2>1, <2>3, Received, Zenon
<1>3. CASE WorkerReadsNothing
  BY <1>1, <1>3 DEF WorkerReadsNothing
<1> QED BY <1>0, <1>2, <1>3, Zenon

(* The connect worker changes its state only with nothing left to tell.    *)
LEMMA KnownConnect == ASSUME KnownInv, Connect PROVE KnownInv'
<1>0. ConnectKeeps /\ (TellStatus \/ ConnectDoes)
  BY ConnectSteps
<1>1. UNCHANGED <<pc, calls, wpc, isConnected, ignored>>
  BY <1>0 DEF ConnectKeeps, workVars, startVars
<1> USE DEF KnownInv, View
<1>2. CASE TellStatus
  <2>1. /\ kops # <<>> /\ opCh' = Append(opCh, Head(kops)) /\ kops' = Tail(kops)
        /\ UNCHANGED kpc
    BY <1>2 DEF TellStatus
  <2>2. /\ Head(kops) = IF Linked THEN "up" ELSE "down"
        /\ kops' \in Seq(Status) /\ \A i \in 1 .. Len(kops') : kops'[i] = kops[i + 1]
        /\ Len(kops) = Len(kops') + 1 /\ Len(kops') \in Nat
    BY <2>1
  <2>3. PICK x \in Status : x = Head(kops)
    BY <2>2 DEF Status
  <2>4. x \in Op /\ (x = "up") = Linked
    BY <2>2, <2>3 DEF Op, Linked
  <2>5. opCh' \in Seq(Op) /\ ~NoStatus(opCh') /\ LastSays(opCh', x = "up")
    BY <2>1, <2>3, <2>4, Appended, Zenon
  <2>6. \A i \in 1 .. Len(kops') : kops'[i] = IF Linked THEN "up" ELSE "down"
    BY <2>2
  <2>7. LastSays(opCh', Linked') /\ Linked' = Linked
    BY <2>1, <2>4, <2>5 DEF Linked
  <2> QED BY <1>1, <2>1, <2>2, <2>5, <2>6, <2>7
<1>3. CASE ConnectDoes
  <2>1. /\ UNCHANGED opCh /\ kops = <<>>
        /\ (kpc' = "off") = (kpc = "off") /\ (kpc = "off" => kops' = <<>>)
        /\ \/ kops' = <<>> /\ Linked' = Linked
           \/ kops' = <<"up">> /\ Linked'
           \/ kops' \in {<<"down">>, <<"down", "down">>} /\ ~Linked'
    BY <1>3 DEF ConnectDoes, Connecting
  <2>3. CASE kops' = <<>> /\ Linked' = Linked
    BY <1>1, <2>1, <2>3
  <2>4. CASE kops' = <<"up">> /\ Linked'
    BY <1>1, <2>1, <2>4 DEF Status
  <2>5. CASE kops' = <<"down">> /\ ~Linked'
    BY <1>1, <2>1, <2>5 DEF Status
  <2>6. CASE kops' = <<"down", "down">> /\ ~Linked'
    BY <1>1, <2>1, <2>6 DEF Status
  <2> QED BY <2>1, <2>3, <2>4, <2>5, <2>6, Zenon
<1> QED BY <1>0, <1>2, <1>3, Zenon

(* The other steps: only a document or an error is sent on opCh.           *)
LEMMA KnownOthers ==
    ASSUME KnownInv, EventSink \/ DeliverEvent \/ Pki \/ Shutdown \/ Halting \/ NewEpoch
    PROVE  KnownInv'
<1> USE DEF KnownInv, View
<1>1. CASE PkiCallback
  <2>1. UNCHANGED <<kops, pc, calls, wpc, isConnected, kpc, ignored>> /\ Linked' = Linked
    BY <1>1 DEF PkiCallback, PkiOnly, workVars, connVars, startVars, Linked
  <2>2. PICK x \in Op : x \notin Status /\ opCh' = Append(opCh, x)
    BY <1>1 DEF PkiCallback, Op, Status
  <2>3. Linked \in BOOLEAN
    BY DEF Linked
  <2>4. PICK up \in BOOLEAN : up = Linked
    BY <2>3, Zenon
  <2>5. opCh \in Seq(Op)
    OBVIOUS
  <2> HIDE DEF KnownInv, View
  <2>6. /\ opCh' \in Seq(Op) /\ (NoStatus(opCh) => NoStatus(opCh'))
        /\ LastSays(opCh, up) => LastSays(opCh', up)
        /\ NoStatus(opCh') => NoStatus(opCh)
    BY <2>2, <2>5, Appended
  <2>7. LastSays(opCh, Linked) => LastSays(opCh', Linked)
    BY <2>4, <2>6, Zenon
  <2> QED BY <2>1, <2>6, <2>7, Zenon DEF KnownInv, View
<1>2. CASE UNCHANGED knownVars
  BY <1>2 DEF knownVars, Linked
<1>3. EventSink \/ DeliverEvent \/ (Pki /\ ~PkiCallback) \/ Shutdown \/ Halting \/ NewEpoch
        => UNCHANGED knownVars
  BY Zenon DEF EventSink, TakeEvent, StopEventSink, DeliverEvent, Pki, PkiStep, PkiOnly, PkiRound,
     PkiNowFails, PkiSticks, StopPki, Shutdown, Halting, HaltOnly, HaltSession, HaltConn,
     HaltPki, HaltEnds,
     CloseChannels, NewEpoch, knownVars, haltVars, workVars, connVars,
     startVars
<1> QED BY <1>1, <1>2, <1>3, Zenon

(* No change of the connection is lost between onConnection and the        *)
(* session's worker (minclient/connection.go, session.go), whatever the    *)
(* capacity of opCh: a worker that has read all it was told is right.      *)
THEOREM ConnectionViewRight == Spec => []ConnectionKnown
<1>1. Init => DbInv /\ KnownInv
  <2> SUFFICES ASSUME Init PROVE DbInv /\ KnownInv
    OBVIOUS
  <2>1. DbInv
    BY DEF Init, StartInit, DbInv, BeforeSession, WithSession
  <2>2. /\ opCh = <<>> /\ kops = <<>> /\ wpc = "off" /\ isConnected = FALSE
        /\ kpc = "off" /\ pc = "load"
    BY DEF Init, StartInit
  <2>3. NoStatus(opCh) /\ LastSays(opCh, Linked)
    BY <2>2 DEF NoStatus, LastSays
  <2>4. opCh \in Seq(Op) /\ kops \in Seq(Status) /\ Len(kops) = 0
    BY <2>2
  <2>5. View
    <3>1. Linked = FALSE
      BY <2>2 DEF Linked
    <3> QED BY <2>2, <3>1, Zenon DEF View
  <2> QED BY <2>1, <2>2, <2>3, <2>4, <2>5 DEF KnownInv, Starting
<1>2. DbInv /\ KnownInv /\ [Next]_vars => KnownInv'
  <2> SUFFICES ASSUME DbInv, KnownInv, [Next]_vars PROVE KnownInv'
    OBVIOUS
  <2>1. CASE Next
    BY <2>1, KnownApp, KnownWorker, KnownConnect, KnownOthers DEF Next
  <2>2. CASE UNCHANGED vars
    BY <2>2 DEF vars, lifeVars, workVars, connVars, startVars, KnownInv, View, Linked
  <2> QED BY <2>1, <2>2
<1>3. KnownInv => ConnectionKnown
  BY DEF KnownInv, ConnectionKnown, NoStatus, Status, View, Linked
<1> QED BY <1>1, <1>2, <1>3, DbStep, PTL DEF Spec
-----------------------------------------------------------------------------
(* The configuration, in memory and in the file.                           *)

\* What LoadFile makes of a file, and UpdateTrust of that: a configuration that
\* loads, and to which Load adds at most the SessionDialTimeout.
Fixed(c) ==
    /\ c \in Config /\ Loadable(c) /\ TrustConsistent(c)
    /\ c.Logging \in LoggingSection /\ c.Logging.Level = ToUpper(c.Logging.Level)
    /\ c.Debug \in DebugSection
    /\ c.Debug.PollingInterval # 0 /\ c.Debug.InitialMaxPKIRetrievalDelay # 0

\* A process in these has loaded its configuration and still needs it.
Loaded == {"trust", "block", "save", "encode", "register", "registering", "new", "session"}

FileInv ==
    /\ file \in Config /\ (file.Katzenmint # Nil => TrustConsistent(file))
    /\ pc \in Loaded \/ (pc = "failed" /\ calls < MaxCalls) => Fixed(cfg)
    /\ saved # Nil => Fixed(saved) /\ file \in {saved, Truncated}
    /\ info \in Nat /\ height \in Nat /\ pc # "dialPanic" /\ RestartSame

(* FixupAndMinimallyValidate makes a fixed configuration of what it does   *)
(* not refuse.                                                             *)
LEMMA FixupFixes ==
    ASSUME NEW c \in Config, Loadable(c), c.Katzenmint # Nil => TrustConsistent(c)
    PROVE  Fixed(Fixup(c))
<1> DEFINE l == IF c.Logging = Nil THEN defaultLogging ELSE c.Logging
           d == IF c.Debug = Nil THEN missingDebug ELSE DebugFixup(c.Debug)
           f == Fixup(c)
<1>1. l \in LoggingSection /\ LoggingValid(l)
  <2>1. CASE c.Logging = Nil
    <3>1. l = defaultLogging /\ l.Level = "NOTICE"
      BY <2>1 DEF defaultLogging
    <3>2. l \in LoggingSection
      <4>1. "NOTICE" \in STRING /\ "" \in STRING
        BY Zenon, StringAssumption
      <4>2. defaultLogging \in LoggingSection
        BY Zenon, <4>1 DEF LoggingSection, defaultLogging
      <4> QED BY <3>1, <4>2
    <3>3. ToUpper("NOTICE") = "NOTICE" /\ "NOTICE" \in Levels
      BY DEF ToUpper, Levels
    <3> HIDE DEF l
    <3> QED BY Zenon, <3>1, <3>2, <3>3 DEF LoggingValid
  <2>2. CASE c.Logging # Nil
    BY <2>2 DEF Config, Loadable
  <2> QED BY <2>1, <2>2
<1> HIDE DEF l
<1>2. /\ LoggingFixup(l) \in LoggingSection /\ LoggingValid(LoggingFixup(l))
      /\ LoggingFixup(l).Level = ToUpper(LoggingFixup(l).Level)
  <2> DEFINE u == ToUpper(l.Level)
  <2>1. u \in STRING /\ ToUpper(u) = u
    <3>1. l.Level \in STRING
      BY <1>1 DEF LoggingSection
    <3>2. "DEBUG" \in STRING /\ "DEBUG" # "debug"
      BY Zenon, StringAssumption
    <3> QED BY Zenon, <3>1, <3>2 DEF ToUpper
  <2> HIDE DEF u
  <2>2. LoggingFixup(l) = [l EXCEPT !.Level = u]
    BY DEF LoggingFixup, u
  <2>3. LoggingFixup(l) \in LoggingSection /\ LoggingFixup(l).Level = u
    BY <1>1, <2>1, <2>2 DEF LoggingSection
  <2>4. u \in Levels \cup {""}
    BY Zenon, <1>1 DEF LoggingValid, u
  <2> QED BY Zenon, <2>1, <2>3, <2>4 DEF LoggingValid
<1>3. /\ d \in DebugSection /\ d.PollingInterval # 0
      /\ d.InitialMaxPKIRetrievalDelay # 0
  BY DEF Config, DebugSection, missingDebug, DebugFixup, OrDefault,
         defaultPollingInterval, defaultInitialMaxPKIRetrievalDelay,
         defaultSessionDialTimeout
<1> HIDE DEF d
<1>4. f = [c EXCEPT !.Logging = LoggingFixup(l), !.Debug = d]
  BY Zenon DEF Fixup, l, d
<1> HIDE DEF f
<1>5. /\ f \in Config /\ f.Logging = LoggingFixup(l) /\ f.Debug = d
      /\ f.UpstreamProxy = c.UpstreamProxy /\ f.Katzenmint = c.Katzenmint
      /\ f.Panda = c.Panda
  BY Zenon, <1>2, <1>3, <1>4 DEF Config
<1>6. Loadable(f)
  BY <1>2, <1>5 DEF Loadable
<1>7. TrustConsistent(f)
  BY <1>5 DEF Loadable, TrustConsistent
<1> QED BY <1>2, <1>3, <1>5, <1>6, <1>7 DEF Fixed, f

(* Loading what was saved changes nothing but a SessionDialTimeout of 0.   *)
LEMMA FixupAgain ==
    ASSUME NEW c, Fixed(c)
    PROVE  Fixup(c) = [c EXCEPT !.Debug.SessionDialTimeout =
                                   OrDefault(@, defaultSessionDialTimeout)]
<1> DEFINE t == OrDefault(c.Debug.SessionDialTimeout, defaultSessionDialTimeout)
<1>1. /\ c \in Config /\ c.Logging \in LoggingSection /\ c.Debug \in DebugSection
      /\ c.Logging # Nil /\ c.Debug # Nil
  BY NilAssumption DEF Fixed
<1>2. LoggingFixup(c.Logging) = c.Logging
  BY <1>1 DEF Fixed, LoggingFixup, LoggingSection
<1>3. DebugFixup(c.Debug) = [c.Debug EXCEPT !.SessionDialTimeout = t]
  BY <1>1 DEF Fixed, DebugFixup, DebugSection, OrDefault
<1> HIDE DEF t
<1>4. Fixup(c) = [c EXCEPT !.Logging = c.Logging,
                           !.Debug = [c.Debug EXCEPT !.SessionDialTimeout = t]]
  BY Zenon, <1>1, <1>2, <1>3 DEF Fixup
<1>5. Fixup(c) = [c EXCEPT !.Debug = [c.Debug EXCEPT !.SessionDialTimeout = t]]
  BY Zenon, <1>1, <1>4 DEF Config
<1>6. Fixup(c) = [c EXCEPT !.Debug.SessionDialTimeout = t]
  BY <1>1, <1>5 DEF Config
<1> QED BY <1>6 DEF t

(* UpdateTrust keeps a configuration fixed: height and hash are of one     *)
(* block.                                                                  *)
LEMMA TrustFixed ==
    ASSUME NEW c, Fixed(c), info \in Nat, BlockAccepted(c)
    PROVE  Fixed([c EXCEPT !.Katzenmint.TrustOptions = Trust(c)])
<1> DEFINE k == c.Katzenmint
           n == [k EXCEPT !.TrustOptions = Trust(c)]
           f == [c EXCEPT !.Katzenmint.TrustOptions = Trust(c)]
<1>1. /\ c \in Config /\ k \in KatzenmintSection /\ KatzenmintValid(k)
      /\ info > 0 /\ k.ChainID = Chain
  BY DEF Fixed, Loadable, Config, BlockAccepted
<1>2. /\ Trust(c) \in [Height : Int, Hash : BlockHash \cup {Nil}]
      /\ Trust(c).Height = info /\ Trust(c).Hash = <<Chain, info>>
      /\ <<Chain, info>> # Nil
  BY FileAssumption, NilAssumption DEF Trust, BlockHash
<1>3. /\ n \in KatzenmintSection /\ n.TrustOptions = Trust(c)
      /\ n.Complete = k.Complete /\ n.ChainID = Chain
  BY <1>1, <1>2 DEF KatzenmintSection
<1>4. f = [c EXCEPT !.Katzenmint = n]
  BY <1>1 DEF Config
<1> HIDE DEF f, n
<1>5. /\ f \in Config /\ f.Katzenmint = n /\ f.Logging = c.Logging
      /\ f.UpstreamProxy = c.UpstreamProxy /\ f.Debug = c.Debug /\ f.Panda = c.Panda
  BY <1>1, <1>3, <1>4 DEF Config
<1>6. n # Nil /\ KatzenmintValid(n)
  BY <1>1, <1>2, <1>3, NilAssumption DEF KatzenmintValid, TrustValid
<1>7. Loadable(f)
  BY <1>5, <1>6 DEF Fixed, Loadable
<1>8. TrustConsistent(f)
  BY <1>2, <1>3, <1>5 DEF TrustConsistent
<1> QED BY <1>5, <1>7, <1>8 DEF Fixed, f

(* Every step keeps FileInv, and SaveConfig writes only fixed              *)
(* configurations.                                                         *)
LEMMA FileStep ==
    ASSUME FileInv, DbInv, [Next]_vars
    PROVE  /\ FileInv'
           /\ \/ file' = file \/ pc' \in {"await", "encode"}
              \/ Loadable(file') /\ TrustConsistent(file')
<1> DEFINE Kept == /\ FileInv'
                   /\ \/ file' = file \/ pc' \in {"await", "encode"}
                      \/ Loadable(file') /\ TrustConsistent(file')
<1> USE DEF FileInv
<1>1. Truncated \in Config /\ Truncated.Katzenmint = Nil /\ ~Loadable(Truncated)
  BY DEF Truncated, Config, Loadable
<1>2. CASE UNCHANGED startVars
  BY <1>2 DEF startVars, RestartSame
\* Most of the steps read neither the file nor the configuration.
<1>3. ASSUME UNCHANGED <<file, cfg, saved>>, info' \in Nat, height' \in Nat,
             pc' \notin {"trust", "dialPanic"}, pc \in Loaded \/ pc' \notin Loaded,
             pc' = "failed" => pc = "session" \/ ~(calls' < MaxCalls)
      PROVE  Kept
  BY <1>3 DEF RestartSame, Loaded
<1>4. CASE LoadFile
  <2>1. CASE Loadable(file)
    <3>1. cfg' = Fixup(file) /\ pc' = "trust" /\ UNCHANGED <<file, saved, info, height>>
      BY <1>4, <2>1 DEF LoadFile
    <3>2. Fixed(cfg')
      BY <2>1, <3>1, FixupFixes
    <3>3. saved # Nil => file = saved
      BY <1>1, <2>1
    <3>4. RestartSame'
      BY Zenon, <3>1, <3>3, FixupAgain DEF RestartSame
    <3> QED BY <3>1, <3>2, <3>4
  <2>2. CASE ~Loadable(file)
    BY <1>4, <2>2, <1>3 DEF LoadFile, Loaded
  <2> QED BY <2>1, <2>2
<1>5. CASE ABCIInfo \/ TrustFails \/ SaveFails \/ OpenForRegistration \/ Register
           \/ NewFromConfig \/ PKIClientFails
  BY <1>3, <1>5
     DEF ABCIInfo, TrustFails, SaveFails, OpenForRegistration, Register, NewFromConfig,
         PKIClientFails, At, Loaded
<1>6. CASE CallAgain
  BY <1>6 DEF CallAgain, At, RestartSame, Loaded
<1>7. CASE NewBlock
  BY <1>7 DEF NewBlock, RestartSame, Loaded
<1>8. CASE UpdateTrust
  <2>1. /\ Fixed(cfg) /\ BlockAccepted(cfg)
        /\ cfg' = [cfg EXCEPT !.Katzenmint.TrustOptions = Trust(cfg)]
    BY <1>8 DEF UpdateTrust, At, Loaded
  <2>2. Fixed(cfg')
    BY <2>1, TrustFixed
  <2> QED BY <1>8, <2>2 DEF UpdateTrust, At, RestartSame
<1>9. CASE CreateFile
  BY <1>1, <1>9 DEF CreateFile, At, RestartSame, Loaded
<1>10. CASE EncodeFile
  <2>1. /\ Fixed(cfg) /\ file' = cfg /\ saved' = cfg /\ pc' = "register"
        /\ UNCHANGED <<cfg, info, height>>
    BY <1>10 DEF EncodeFile, At, Loaded
  <2> QED BY <2>1 DEF Fixed, RestartSame
<1>11. CASE NewProcess
  BY <1>11 DEF NewProcess, Restart, RestartSame, Loaded
<1>12. CASE NewSession
  <2>1. /\ pc = "session" /\ file' = Truncated /\ cfg' = Nil /\ saved' = Nil /\ info' = 0
        /\ height' = 0
        /\ pc' = IF ProxyType(cfg.UpstreamProxy) \in ProxyTypes THEN "await" ELSE "dialPanic"
    BY <1>12 DEF NewSession, NewPKIClient
  <2>2. ProxyValid(cfg.UpstreamProxy)
    BY <2>1 DEF Loaded, Fixed, Loadable
  <2>3. ProxyType(cfg.UpstreamProxy) \in ProxyTypes
    BY ZenonT(60), <2>2 DEF ProxyValid, ProxyType, ProxyTypes, ToLower
  <2> QED BY <1>1, <2>1, <2>3 DEF RestartSame, Loaded
<1>13. CASE App
  <2>1. /\ UNCHANGED <<file, cfg, saved, info, height, calls>>
        /\ pc' \notin {"trust", "dialPanic"} /\ pc' \notin Loaded
    BY Zenon, <1>13, AppMoves DEF Loaded
  <2>2. ~(calls' < MaxCalls) /\ info' \in Nat /\ height' \in Nat
    BY <1>13, <2>1, AppMoves, StartupAssumption DEF DbInv, WithSession
  <2> QED BY <1>3, <2>1, <2>2
<1>14. CASE UNCHANGED vars
  BY <1>2, <1>14 DEF vars
<1> QED BY Zenon, <1>2, <1>4, <1>5, <1>6, <1>7, <1>8, <1>9, <1>10, <1>11, <1>12, <1>13, <1>14,
           StartUntouched DEF Next, Starts, Start

(* The first process finds one of the files, and the database free.        *)
LEMMA FileInit == Init => FileInv /\ DbInv
<1> SUFFICES ASSUME Init PROVE FileInv /\ DbInv
  OBVIOUS
<1>1. /\ file \in File /\ saved = Nil /\ info = 0 /\ height \in Nat /\ pc = "load"
  BY StartupAssumption DEF Init, StartInit
<1>2. FileInv
  BY <1>1, FileAssumption DEF FileInv, Loaded, RestartSame
<1>3. DbInv
  BY DEF Init, StartInit, DbInv, BeforeSession, WithSession
<1> QED BY <1>2, <1>3

(* A process that loads what an earlier one saved has the configuration    *)
(* that was saved (config.go, LoadFile and SaveConfig), whatever the file, *)
(* however often and wherever processes are killed and started again.      *)
THEOREM RestartsAlike == Spec => []RestartSame
<1>1. FileInv /\ DbInv /\ [Next]_vars => FileInv'
  BY FileStep
<1>2. FileInv => RestartSame
  BY DEF FileInv
<1> QED BY <1>1, <1>2, FileInit, DbStep, PTL DEF Spec

(* SaveConfig writes only files that load, whose trust is in one block,    *)
(* but for what Create leaves until Encode has written.                    *)
THEOREM SavedFilesLoad == Spec => SavedFileLoads
<1>1. FileInv /\ DbInv /\ [Next]_vars => FileInv'
  BY FileStep
<1>2. FileInv /\ DbInv /\ [Next]_vars =>
        [file' # file /\ pc' \notin {"await", "dialPanic"}
            => (Loadable(file') /\ TrustConsistent(file')) \/ pc' = "encode"]_startVars
  BY FileStep
<1> QED BY <1>1, <1>2, FileInit, DbStep, PTL DEF Spec, SavedFileLoads
-----------------------------------------------------------------------------
(* The types, and the capacity of the channels.                            *)

\* The variables of a session that has begun, but for the channels.
LifeTypeOK ==
    /\ kops \in Seq({"up", "down"}) /\ Len(kops) <= 2
    /\ forceUpdateCh \in {0, 1} /\ doneWorkerCh \in {0, 1}
    /\ doc \in 0 .. MaxEpoch /\ told \in 0 .. MaxEpoch
    /\ wnow \in 0 .. MaxEpoch /\ know \in 0 .. MaxEpoch
    /\ halted \subseteq {"session", "conn", "pki"} /\ epoch \in 1 .. MaxEpoch
OpChOK ==
    Len(opCh) <= OpChSize /\ opCh \in Seq({"up", "down", "document", "invalid"})
StartOK == StartTypeOK /\ (pc \in Loaded \cup {"load"} => calls < MaxCalls)

(* An operation is sent when there is room, and received when there is one. *)
LEMMA OpChStep ==
    ASSUME OpChOK,
           \/ opCh' = opCh \/ (opCh # <<>> /\ opCh' = Tail(opCh))
           \/ \E x \in {"up", "down", "document", "invalid"} :
                 Room /\ opCh' = Append(opCh, x)
    PROVE  OpChOK'
<1>1. OpChSize \in Nat /\ Len(opCh) \in Nat
  BY ClientAssumption DEF OpChOK
<1>2. CASE opCh' = opCh
  BY <1>2 DEF OpChOK
<1>3. CASE opCh # <<>> /\ opCh' = Tail(opCh)
  <2>1. Len(Tail(opCh)) = Len(opCh) - 1
        /\ Tail(opCh) \in Seq({"up", "down", "document", "invalid"})
    BY <1>3 DEF OpChOK
  <2>2. Len(opCh') <= OpChSize
    <3>1. Len(opCh') = Len(opCh) - 1
      BY Zenon, <1>3, <2>1
    <3> QED BY <1>1, <3>1 DEF OpChOK
  <2> QED BY Zenon, <1>3, <2>1, <2>2 DEF OpChOK
<1>4. ASSUME NEW x \in {"up", "down", "document", "invalid"}, Room,
             opCh' = Append(opCh, x)
      PROVE  OpChOK'
  <2>1. Len(Append(opCh, x)) = Len(opCh) + 1
        /\ Append(opCh, x) \in Seq({"up", "down", "document", "invalid"})
    BY <1>4 DEF OpChOK
  <2> QED BY <1>1, <1>4, <2>1 DEF OpChOK, Room
<1> QED BY <1>2, <1>3, <1>4

(* Every step of the start keeps its variables in their ranges.            *)
LEMMA StartTypeStep == ASSUME StartOK, FileInv', DbInv, [Next]_vars PROVE StartOK'
<1> USE StartupAssumption DEF StartOK, StartTypeOK, Loaded
<1>0. pc' # "dialPanic"
  BY DEF FileInv
<1>1. CASE UNCHANGED startVars
  BY <1>1 DEF startVars
<1>2. CASE LoadFile \/ ABCIInfo \/ TrustFails \/ UpdateTrust \/ CreateFile \/ EncodeFile
           \/ SaveFails
  BY <1>2 DEF LoadFile, ABCIInfo, TrustFails, UpdateTrust, CreateFile, EncodeFile,
     SaveFails, At
<1>3. CASE OpenForRegistration \/ Register \/ NewFromConfig \/ PKIClientFails \/ CallAgain
           \/ NewBlock
  BY <1>3 DEF OpenForRegistration, Register, Released, NewFromConfig, PKIClientFails,
     CallAgain, NewBlock, At
<1>4. CASE NewProcess
  BY <1>4 DEF NewProcess, Restart, Starting
<1>5. CASE NewSession
  BY <1>0, <1>5 DEF NewSession, NewPKIClient
<1>6. CASE App
  BY <1>6, AppMoves
<1> QED BY <1>1, <1>2, <1>3, <1>4, <1>5, <1>6, StartUntouched DEF Next, Starts, Start, vars

(* Every step keeps the variables of the session in their ranges: no       *)
(* status is told with two left to tell, and a document is of an epoch     *)
(* that has begun.                                                         *)
LEMMA LifeTypeStep ==
    ASSUME LifeTypeOK, OpChOK, [Next]_vars
    PROVE  LifeTypeOK' /\ OpChOK'
<1> USE ClientAssumption DEF LifeTypeOK
<1>1. CASE Starts \/ NewProcess \/ NewSession \/ UNCHANGED vars
  <2>1. UNCHANGED <<kops, forceUpdateCh, doneWorkerCh, doc, told, wnow, know, epoch, opCh>>
        /\ halted' \in {halted, {}}
    BY <1>1 DEF Starts, NewProcess, NewSession, vars, lifeVars, haltVars, workVars,
       connVars, pkiVars, docChs
  <2> QED BY <2>1, OpChStep
<1>2. CASE App
  <2>1. UNCHANGED <<kops, forceUpdateCh, doneWorkerCh, doc, told, know, epoch, halted>>
        /\ wnow' \in {wnow, epoch}
        /\ (opCh' = opCh \/ (opCh # <<>> /\ opCh' = Tail(opCh)))
    BY <1>2 DEF App, AwaitSkips, AwaitDocument, AwaitFails, AwaitFatal, AssignSession,
       lifeVars, haltVars, workVars, connVars, pkiVars, docChs
  <2>2. OpChOK'
    BY <2>1, OpChStep
  <2>3. wnow' \in 0 .. MaxEpoch
    BY <2>1
  <2> QED BY <2>1, <2>2, <2>3
<1>3. CASE Worker \/ TakePacket
  <2>1. UNCHANGED <<kops, doc, told, know, epoch, halted>>
        /\ wnow' \in {wnow, epoch, 0}
        /\ forceUpdateCh' \in {forceUpdateCh, 1} /\ doneWorkerCh' \in {doneWorkerCh, 0}
    BY <1>3, WorkerSteps DEF WorkerDoes, pkiVars
  <2>2. opCh' = opCh \/ (opCh # <<>> /\ opCh' = Tail(opCh))
    BY <1>3, WorkerSteps DEF WorkerReadsNothing, TakeOp
  <2>3. OpChOK'
    BY <2>2, OpChStep
  <2>4. wnow' \in 0 .. MaxEpoch
    BY <2>1
  <2> QED BY <2>1, <2>3, <2>4
<1>4. CASE EventSink \/ DeliverEvent \/ Shutdown \/ Halting
  <2>1. UNCHANGED <<kops, forceUpdateCh, doneWorkerCh, doc, told, wnow, know, epoch, opCh>>
        /\ halted' \in {halted, {"session"}, halted \cup {"conn"}, halted \cup {"pki"}}
    BY Zenon, <1>4 DEF EventSink, TakeEvent, StopEventSink, DeliverEvent, Shutdown, Halting,
       HaltOnly, HaltSession, HaltConn, HaltPki, HaltEnds, CloseChannels,
       haltVars, workVars, connVars, pkiVars, docChs
  <2> QED BY <2>1, OpChStep
<1>5. CASE Connect
  <2>1. ConnectKeeps /\ (TellStatus \/ ConnectDoes)
    BY <1>5, ConnectSteps
  <2>2. UNCHANGED <<doc, told, wnow, epoch, halted>>
    BY <2>1 DEF ConnectKeeps, haltVars, workVars, pkiVars
  <2>3. CASE TellStatus
    <3>1. /\ UNCHANGED <<forceUpdateCh, doneWorkerCh>> /\ know' \in {know, epoch}
          /\ kops # <<>> /\ kops' = Tail(kops) /\ Room /\ opCh' = Append(opCh, Head(kops))
      BY <2>3 DEF TellStatus, docChs
    <3>2. Head(kops) \in {"up", "down"} /\ kops' \in Seq({"up", "down"}) /\ Len(kops') <= 2
      BY <3>1
    <3>3. OpChOK'
      BY <3>1, <3>2, OpChStep
    <3> QED BY <2>2, <3>1, <3>2, <3>3
  <2>4. CASE ConnectDoes
    <3>1. /\ know' \in {know, epoch, 0} /\ UNCHANGED opCh
          /\ forceUpdateCh' \in {forceUpdateCh, 1} /\ doneWorkerCh' \in {doneWorkerCh, 0}
          /\ kops' \in {<<>>, <<"up">>, <<"down">>, <<"down", "down">>}
      BY <2>4 DEF ConnectDoes
    <3>2. kops' \in Seq({"up", "down"}) /\ Len(kops') <= 2
      <4>1. CASE kops' = <<"up">>
        BY <4>1
      <4>2. CASE kops' = <<"down">>
        BY <4>2
      <4>3. CASE kops' = <<"down", "down">>
        BY <4>3
      <4>4. CASE kops' = <<>>
        BY <4>4
      <4> QED BY <3>1, <4>1, <4>2, <4>3, <4>4
    <3>3. OpChOK'
      BY <3>1, OpChStep
    <3> QED BY <2>2, <3>1, <3>2, <3>3
  <2> QED BY Zenon, <2>1, <2>3, <2>4
<1>7. CASE Pki
  <2>1. UNCHANGED <<kops, wnow, know, epoch, halted>>
        /\ doc' \in {doc, epoch} /\ told' \in {told, doc}
        /\ forceUpdateCh' \in {forceUpdateCh, 0} /\ doneWorkerCh' \in {doneWorkerCh, 1}
    BY <1>7, PkiSteps DEF PkiDoes, haltVars, workVars, connVars
  <2>2. opCh' = opCh \/ \E x \in {"document", "invalid"} : Room /\ opCh' = Append(opCh, x)
    BY <1>7, PkiSteps DEF PkiCallback
  <2>3. OpChOK'
    BY <2>2, OpChStep
  <2> QED BY <2>1, <2>3
<1>8. CASE NewEpoch
  <2>1. UNCHANGED <<kops, forceUpdateCh, doneWorkerCh, doc, told, wnow, know, halted, opCh>>
        /\ epoch' = epoch + 1 /\ epoch < MaxEpoch
    BY <1>8 DEF NewEpoch, haltVars, workVars, pkiVars, docChs
  <2> QED BY <2>1, OpChStep
<1> QED BY Zenon, <1>1, <1>2, <1>3, <1>4, <1>5, <1>7, <1>8 DEF Next

(* The types of the client and its start: opCh never holds more than its   *)
(* capacity, no process calls NewSession more often than it may, and the   *)
(* proxy's type never surprises ToDialContext.                             *)
THEOREM ClientTypes == Spec => []TypeOK
<1>1. Init => StartOK /\ LifeTypeOK /\ OpChOK
  BY StartupAssumption, ClientAssumption
     DEF Init, StartInit, StartOK, StartTypeOK, LifeTypeOK, OpChOK, Loaded
<1>2. StartOK /\ LifeTypeOK /\ OpChOK => TypeOK
  BY DEF StartOK, LifeTypeOK, OpChOK, TypeOK
<1>3. FileInv /\ DbInv /\ [Next]_vars => FileInv'
  BY FileStep
<1>4. StartOK /\ FileInv' /\ DbInv /\ [Next]_vars => StartOK'
  BY StartTypeStep
<1>5. LifeTypeOK /\ OpChOK /\ [Next]_vars => (LifeTypeOK /\ OpChOK)'
  BY LifeTypeStep
<1> QED BY <1>1, <1>2, <1>3, <1>4, <1>5, FileInit, DbStep, PTL DEF Spec
-----------------------------------------------------------------------------
(* Who waits for whom.                                                     *)

\* Where NewSession, the goroutines and Shutdown can be.
PointsOK ==
    /\ hpc \in {"no", "check", "session"} \cup PastSession
    /\ watcher \in {"recv", "shutdown", "done"}
    /\ wpc \in Working \cup {"off", "stopped", "panic"}
    /\ epc \in {"off", "select", "deliver", "stopped"}
    /\ kpc \in Connecting \cup {"off", "held", "stopped"} /\ kask \in {"no", "load", "wait"}
    /\ ppc \in {"off", "select", "callback", "lapsed", "stuck", "stopped"}

\* The goroutines of a session start together, and the worker after them;
\* halt has told those that it waits for to stop, and nobody else has
\* stopped the PKI worker, which serves the others.
WaitInv ==
    /\ PointsOK
    /\ watcher = "done" => Closed
    /\ (epc = "off") = (ppc = "off") /\ (kpc = "off") = (ppc = "off")
    /\ pc \in WithSession => ppc # "off"
    /\ pc \in {"assign", "up"} => wpc # "off"
    /\ pc \in Starting => ppc = "off"
    /\ pc = "failed" => ppc = "off" \/ calls = MaxCalls
    /\ hpc \in {"session"} \cup PastSession /\ ~missed => "session" \in halted
    /\ hpc \in PastSession /\ ~missed => "conn" \in halted
    /\ hpc \in PastConn /\ ~missed => "pki" \in halted
    /\ ppc = "stopped" => "pki" \in halted
    /\ kops # <<>> => kpc # "off"
    /\ wpc = "enqueue" => Linked
    /\ AskingOK

(* No goroutine runs at the start.                                         *)
LEMMA WaitInit == Init => WaitInv
BY DEF Init, StartInit, WaitInv, PointsOK, PastSession, PastConn, PastPki, WithSession,
   Starting, Closed, Working, Connecting, AskingOK

(* Steps of the start and of NewSession.                                   *)
LEMMA WaitStart ==
    ASSUME WaitInv, DbInv, Starts \/ NewProcess \/ NewSession
    PROVE  WaitInv'
<1> USE DEF WaitInv, PointsOK, Closed, Working, Connecting, Linked, AskingOK
<1>1. CASE Starts
  <2>1. UNCHANGED <<hpc, watcher, missed, halted, wpc, epc, kpc, kops, kask, ppc>>
    BY Zenon, <1>1 DEF Starts, lifeVars, haltVars, workVars, connVars, pkiVars
  <2>2. /\ pc \in Starting \/ (pc = "failed" /\ calls < MaxCalls)
        /\ pc' \in Starting \cup {"failed"}
    BY Zenon, <1>1 DEF Starts, Start, LoadFile, ABCIInfo, TrustFails, UpdateTrust, CreateFile,
       EncodeFile, SaveFails, OpenForRegistration, Register, NewFromConfig,
       PKIClientFails, CallAgain, NewBlock, At, Starting
  <2>3. ppc = "off"
    BY <2>2, StartupAssumption DEF DbInv
  <2>4. pc' \notin WithSession
    BY <2>2 DEF Starting, WithSession
  <2> QED BY <2>1, <2>2, <2>3, <2>4 DEF WithSession
<1>2. CASE NewProcess
  <2>1. /\ pc \in Starting /\ pc' = "load" /\ missed' = FALSE /\ watcher' = "recv"
        /\ hpc' = "no" /\ halted' = {} /\ UNCHANGED <<wpc, epc, kpc, kops, kask, ppc>>
    BY Zenon, <1>2 DEF NewProcess, Restart, workVars, connVars, pkiVars
  <2> QED BY <2>1 DEF PastSession, PastConn, PastPki, WithSession
<1>3. CASE NewSession
  <2>1. /\ pc = "session" /\ pc' \in {"await", "dialPanic"}
        /\ pc' = "await" => epc' = "select" /\ kpc' = "flush" /\ ppc' = "select"
        /\ pc' # "await" => UNCHANGED <<epc, kpc, ppc>>
        /\ UNCHANGED <<missed, watcher, hpc, halted, wpc, kops, kask>>
    BY Zenon, <1>3 DEF NewSession, NewPKIClient, haltVars, workVars
  <2>2. pc \in Starting /\ pc' \notin Starting
    BY <2>1 DEF Starting
  <2> QED BY <2>1, <2>2 DEF WithSession
<1> QED BY Zenon, <1>1, <1>2, <1>3

(* Steps of the application inside NewSession.                             *)
LEMMA WaitApp == ASSUME WaitInv, DbInv, App PROVE WaitInv'
<1>1. UNCHANGED <<hpc, missed, halted, epc, kpc, kops, kask, ppc>>
  BY Zenon DEF App, AwaitSkips, AwaitDocument, AwaitFails, AwaitFatal, AssignSession,
     lifeVars, haltVars, connVars, pkiVars
<1>2. watcher' = watcher \/ (watcher = "recv" /\ watcher' = "shutdown")
  BY Zenon DEF App, AwaitSkips, AwaitDocument, AwaitFails, AwaitFatal, AssignSession,
     lifeVars, haltVars
<1>3. /\ wpc' \in {wpc, "start"}
      /\ pc' = "assign" => wpc' = "start" \/ (pc = "assign" /\ wpc' = wpc)
      /\ pc' = "up" => pc = "assign" /\ wpc' = wpc
  <2>1. CASE AwaitSkips
    BY Zenon, <2>1 DEF AwaitSkips, workVars, startVars
  <2>2. CASE AwaitDocument
    BY <2>2 DEF AwaitDocument, AppAt, At
  <2>3. CASE AwaitFails
    BY <2>3 DEF AwaitFails, AppAt, At, lifeVars, workVars
  <2>4. CASE AwaitFatal
    BY <2>4 DEF AwaitFatal, AppAt, At, workVars
  <2>5. CASE AssignSession
    BY <2>5 DEF AssignSession, AppAt, At, workVars
  <2> QED BY Zenon, <2>1, <2>2, <2>3, <2>4, <2>5 DEF App
<1>4. /\ pc \in WithSession /\ calls' = MaxCalls /\ ppc # "off"
      /\ pc' \in WithSession \cup {"failed"} /\ pc' \notin Starting
  BY AppMoves DEF WaitInv, DbInv, WithSession, Starting
<1> QED BY <1>1, <1>2, <1>3, <1>4 DEF WaitInv, PointsOK, Closed, Working, Connecting, Linked, AskingOK

(* Steps of the session's goroutines.                                      *)
LEMMA WaitWorkers ==
    ASSUME WaitInv, LifeInv,
           \/ Worker \/ TakePacket \/ EventSink \/ DeliverEvent \/ Connect \/ Pki
           \/ NewEpoch
    PROVE  WaitInv'
<1>0. UNCHANGED <<pc, calls>>
  BY Zenon, StartUntouched DEF startVars
<1> USE DEF WaitInv, PointsOK, Closed, Working, Connecting, Linked, AskingOK
<1>1. CASE Worker \/ TakePacket
  <2>1. WorkerDoes
    BY Zenon, <1>1, WorkerSteps
  <2>2. /\ UNCHANGED <<hpc, missed, halted, epc, kops, kask, ppc>>
        /\ watcher' = watcher \/ (watcher = "recv" /\ watcher' = "shutdown")
    BY Zenon, <2>1 DEF WorkerDoes, pkiVars
  <2>3. /\ wpc' \in (Working \ {"start"}) \cup {"stopped", "panic"}
        /\ wpc' = "enqueue" => Linked /\ kpc' = kpc
        /\ kpc' = kpc \/ (kpc = "up" /\ kask = "no" /\ kpc' = "closing")
    BY Zenon, <2>1 DEF WorkerDoes
  <2> QED BY <1>0, <2>2, <2>3
<1>2. CASE EventSink \/ DeliverEvent
  <2>1. UNCHANGED <<hpc, watcher, missed, halted, wpc, kpc, kops, kask, ppc>>
    BY Zenon, <1>2 DEF EventSink, TakeEvent, StopEventSink, DeliverEvent, haltVars, workVars,
       connVars, pkiVars
  <2>2. {epc, epc'} \subseteq {"select", "deliver", "stopped"}
    BY <1>2 DEF EventSink, TakeEvent, StopEventSink, DeliverEvent, SinkWatches
  <2> QED BY <1>0, <2>1, <2>2
<1>3. CASE Connect
  <2>1. ConnectKeeps /\ (TellStatus \/ ConnectDoes)
    BY <1>3, ConnectSteps
  <2>2. UNCHANGED <<hpc, watcher, missed, halted, wpc, epc, ppc>>
    BY Zenon, <2>1 DEF ConnectKeeps, haltVars, workVars, pkiVars
  <2>3. CASE TellStatus
    <3>1. kops # <<>> /\ UNCHANGED <<kpc, kask>>
      BY Zenon, <2>3 DEF TellStatus
    <3> QED BY <1>0, <2>2, <3>1
  <2>4. CASE ConnectDoes
    <3>1. /\ \/ kpc \in Connecting /\ kpc' \in Connecting \cup {"held", "stopped"}
             \/ UNCHANGED <<kpc, kops>>
          /\ Linked /\ ~Linked' => wpc # "enqueue"
          /\ kask' \in {"no", "load", "wait"}
          /\ AskingOK'
      BY <2>4 DEF ConnectDoes
    <3> QED BY <1>0, <2>2, <3>1
  <2> QED BY Zenon, <2>1, <2>3, <2>4
<1>4. CASE Pki
  <2>1. PkiDoes
    BY Zenon, <1>4, PkiSteps
  <2>2. UNCHANGED <<hpc, watcher, missed, halted, wpc, epc, kpc, kops, kask>>
    BY Zenon, <2>1 DEF PkiDoes, haltVars, workVars, connVars
  <2>3. /\ ppc \in {"select", "callback", "lapsed"}
        /\ ppc' \in {"select", "callback", "lapsed", "stuck", "stopped"}
        /\ ppc' = "stopped" => "pki" \in halted
    BY Zenon, <2>1 DEF PkiDoes
  <2> QED BY <1>0, <2>2, <2>3
<1>5. CASE NewEpoch
  <2>1. UNCHANGED <<hpc, watcher, missed, halted, wpc, epc, kpc, kops, kask, ppc>>
    BY Zenon, <1>5 DEF NewEpoch, haltVars, workVars, pkiVars
  <2> QED BY <1>0, <2>1
<1> QED BY Zenon, <1>1, <1>2, <1>3, <1>4, <1>5

(* Steps of Shutdown and of the watcher: each tells one more to stop.      *)
LEMMA WaitHalt == ASSUME WaitInv, LifeInv, Shutdown \/ Halting PROVE WaitInv'
<1>1. UNCHANGED <<pc, calls, wpc, epc, kpc, kops, kask, ppc>>
  BY Zenon DEF Shutdown, Halting, HaltOnly, HaltSession, HaltConn, HaltPki, HaltEnds,
     CloseChannels, startVars, workVars, connVars, pkiVars
<1>2. hpc \in {"no", "check"} => halted = {}
  BY DEF LifeInv
<1> USE DEF WaitInv, PointsOK, PastSession, PastConn, PastPki, Closed, HaltAt, Linked, AskingOK
<1>3. CASE Shutdown
  BY <1>1, <1>3 DEF Shutdown
<1>4. CASE HaltSession
  BY <1>1, <1>2, <1>4 DEF HaltSession
<1>5. CASE HaltConn
  BY <1>1, <1>5 DEF HaltConn
<1>6. CASE HaltPki
  BY <1>1, <1>6 DEF HaltPki
<1>7. CASE HaltEnds
  BY <1>1, <1>7 DEF HaltEnds
<1>8. CASE CloseChannels
  BY <1>1, <1>8 DEF CloseChannels
<1> QED BY Zenon, <1>3, <1>4, <1>5, <1>6, <1>7, <1>8 DEF Halting

(* WaitInv is inductive, with LifeInv and DbInv.                           *)
THEOREM WaitInvariant == Spec => []WaitInv
<1>1. WaitInv /\ LifeInv /\ DbInv /\ [Next]_vars => WaitInv'
  <2> SUFFICES ASSUME WaitInv, LifeInv, DbInv, [Next]_vars PROVE WaitInv'
    OBVIOUS
  <2>1. CASE UNCHANGED vars
    <3>1. UNCHANGED <<pc, calls, hpc, watcher, missed, halted, wpc, epc, kpc, kops, kask, ppc>>
      BY Zenon, <2>1 DEF vars, lifeVars, haltVars, workVars, connVars, pkiVars, startVars
    <3> QED BY <3>1 DEF WaitInv, PointsOK, Closed, Working, Connecting, Linked, AskingOK
  <2> QED BY Zenon, <2>1, WaitStart, WaitApp, WaitWorkers, WaitHalt DEF Next
<1>2. Init => DbInv
  BY FileInit
<1> QED BY WaitInit, <1>1, <1>2, DbStep, LifeInvariant, PTL DEF Spec

(* Whoever is inside currentDocument finds room in forceUpdateCh and a     *)
(* token in doneWorkerCh, or a PKI worker that will see to it.             *)
LEMMA ServedByPki ==
    ASSUME WaitInv, LifeInv, TypeOK, wpc \in InCurrentDocument \/ kask # "no"
    PROVE  \/ forceUpdateCh = 0 /\ doneWorkerCh = 1
           \/ PkiCan \/ EpochUnknown \/ (ppc = "callback" /\ ~Room)
<1>1. forceUpdateCh \in {0, 1} /\ doneWorkerCh \in {0, 1}
  BY DEF TypeOK
<1>2. ppc \in {"select", "callback", "lapsed", "stuck"}
  <2>1. wpc \notin {"off", "stopped"} \/ kpc \notin {"off", "stopped"}
    BY DEF InCurrentDocument, WaitInv, AskingOK
  <2>2. ppc # "off"
    BY <2>1 DEF WaitInv, WithSession, LifeInv
  <2>3. ppc # "stopped"
    BY <2>1 DEF WaitInv, LifeInv, PastSession, PastConn, PastPki
  <2> QED BY <2>2, <2>3 DEF WaitInv, PointsOK
<1> QED BY <1>1, <1>2 DEF PkiCan, EpochUnknown

(* Whoever sends on a full opCh has a reader that goes on or waits for     *)
(* somebody who does, but for the cases that CallsGoOn names.              *)
LEMMA ReaderServed ==
    ASSUME WaitInv, LifeInv, TypeOK, ~Room,
           kops # <<>> \/ (kask # "no" /\ ppc = "callback")
    PROVE  AppCan \/ WorkerCan \/ PkiCan \/ EpochUnknown \/ ErrorUnheard \/ OpChUnread
             \/ OpChCycle
<1>1. PointsOK /\ (watcher = "done" => Closed)
  BY DEF WaitInv
<1>2. opCh # <<>>
  BY ClientAssumption DEF Room
<1>3. CASE wpc \in {"off", "stopped", "panic"}
  BY <1>3 DEF OpChUnread, AppCan
<1>4. CASE wpc \in InCurrentDocument
  BY <1>4, ServedByPki DEF WorkerCan, OpChCycle, InCurrentDocument
<1>5. CASE wpc \in {"fatal", "lastFatal"}
  BY <1>1, <1>5 DEF WorkerCan, ErrorUnheard, HeardFatal, PointsOK
<1>6. CASE wpc \in {"select", "send"}
  BY <1>2, <1>6 DEF WorkerCan
<1>7. CASE wpc = "enqueue"
  BY <1>7 DEF OpChCycle
<1> QED BY <1>1, <1>3, <1>4, <1>5, <1>6, <1>7 DEF PointsOK, Working, InCurrentDocument

(* A call that waits has somebody to wait for: whoever is inside           *)
(* NewSession, currentDocument, sendPacket, a callback or Shutdown can go  *)
(* on, or one of the goroutines it waits for can (session.go,              *)
(* connection.go, pki.go, client.go), but for the cases that HangsOnlySo   *)
(* lists.  It holds whatever the capacity of opCh.                         *)
THEOREM NobodyHangs == Spec => []CallsGoOn
<1>1. ASSUME WaitInv, LifeInv, TypeOK PROVE CallsGoOn
  <2>1. PointsOK /\ (watcher = "done" => Closed)
    BY <1>1 DEF WaitInv
  <2>2. pc \in {"await", "assign", "fatal"} => AppCan \/ HaltCan
    <3>1. pc = "fatal" => hpc \in {"no", "check", "close", "done"}
      BY <1>1, <2>1 DEF LifeInv, PointsOK, PastSession, PastPki
    <3> QED BY <2>1, <3>1 DEF AppCan, HaltCan, HeardFatal, Closed, PointsOK
  <2>3. wpc \in {"fatal", "lastFatal"} => WorkerCan \/ ErrorUnheard
    BY <2>1 DEF WorkerCan, ErrorUnheard, HeardFatal, PointsOK
  <2>4. wpc \in InCurrentDocument => WorkerCan \/ PkiCan \/ EpochUnknown \/ OpChCycle
    BY <1>1, ServedByPki DEF WorkerCan, OpChCycle, InCurrentDocument
  <2>5. wpc \in {"send", "enqueue"}
          => WorkerCan \/ ConnectCan \/ PkiCan \/ SendDeadlock \/ EpochUnknown \/ OpChCycle
    <3>1. CASE wpc = "send"
      BY <3>1 DEF WorkerCan
    <3>2. CASE wpc = "enqueue" /\ kops # <<>>
      BY <3>2 DEF ConnectCan, OpChCycle
    <3>3. CASE wpc = "enqueue" /\ kops = <<>> /\ kask # "no"
      BY <1>1, <2>1, <3>3, ServedByPki DEF ConnectCan, OpChCycle, PointsOK
    <3>4. CASE wpc = "enqueue" /\ kops = <<>> /\ kask = "no"
      BY <1>1, <3>4 DEF WorkerCan, SendDeadlock, WaitInv, Linked
    <3> QED BY <3>1, <3>2, <3>3, <3>4
  <2>6. kops # <<>> \/ kask # "no"
          => AppCan \/ WorkerCan \/ ConnectCan \/ PkiCan \/ EpochUnknown \/ ErrorUnheard
               \/ OpChUnread \/ OpChCycle
    <3>1. CASE kops # <<>>
      BY <1>1, <3>1, ReaderServed DEF ConnectCan
    <3>2. CASE kops = <<>> /\ kask # "no"
      BY <1>1, <2>1, <3>2, ServedByPki, ReaderServed DEF ConnectCan, PointsOK
    <3> QED BY <3>1, <3>2
  <2>7. kpc \in {"dial", "closing", "callbacks", "held"} /\ kops = <<>>
          => ConnectCan \/ SendDeadlock \/ CallbackHeld
    BY <1>1 DEF ConnectCan, SendDeadlock, CallbackHeld, WaitInv, AskingOK
  <2>8. hpc = "session"
          => HaltCan \/ SinkCan \/ WorkerCan \/ ConnectCan \/ PkiCan \/ EpochUnknown
               \/ ErrorUnheard \/ SendDeadlock \/ OpChCycle
    <3> SUFFICES ASSUME hpc = "session", ~SinkCan, ~HaltCan
                 PROVE  WorkerCan \/ ConnectCan \/ PkiCan \/ EpochUnknown \/ ErrorUnheard
                          \/ SendDeadlock \/ OpChCycle
      OBVIOUS
    <3>1. ~missed /\ session /\ pc = "up" /\ SessionHalted
      BY <1>1 DEF WaitInv, LifeInv, SessionHalted, PastSession, PastPki
    <3>2. epc = "stopped" /\ wpc # "stopped"
      BY <1>1, <2>1, <3>1 DEF SinkCan, SinkWatches, HaltCan, SessionStopped, WaitInv, PointsOK,
         WithSession
    <3>3. wpc \notin {"off", "panic"}
      BY <1>1, <3>1 DEF WaitInv, LifeInv, NoSendOnClosed
    <3>4. wpc = "select" => WorkerCan
      BY <3>1 DEF WorkerCan
    <3> QED BY <2>1, <2>3, <2>4, <2>5, <3>2, <3>3, <3>4
            DEF PointsOK, Working, InCurrentDocument
  <2>9. hpc = "conn"
          => HaltCan \/ ConnectCan \/ PkiCan \/ EpochUnknown \/ CallbackHeld \/ OpChUnread
    <3> SUFFICES ASSUME hpc = "conn", ~HaltCan
                 PROVE  ConnectCan \/ PkiCan \/ EpochUnknown \/ CallbackHeld \/ OpChUnread
      OBVIOUS
    <3>1. ~missed /\ session /\ pc = "up" /\ "conn" \in halted /\ wpc = "stopped"
      BY <1>1 DEF WaitInv, LifeInv, PastSession, PastPki
    <3>2. kpc \in Connecting \cup {"held"}
      BY <1>1, <2>1, <3>1 DEF HaltCan, ConnStopped, WaitInv, PointsOK, WithSession
    <3>3. ~Room => OpChUnread
      BY <3>1 DEF OpChUnread
    <3>4. CASE kops # <<>>
      BY <3>3, <3>4 DEF ConnectCan
    <3>5. CASE kops = <<>> /\ kask # "no"
      BY <1>1, <2>1, <3>3, <3>5, ServedByPki DEF ConnectCan, PointsOK
    <3>6. CASE kops = <<>> /\ kask = "no"
      BY <1>1, <3>1, <3>2, <3>6 DEF ConnectCan, CallbackHeld, Connecting, WaitInv, AskingOK
    <3> QED BY <3>4, <3>5, <3>6
  <2>10. hpc = "pki" => HaltCan \/ PkiCan \/ ppc = "stuck" \/ OpChUnread
    <3> SUFFICES ASSUME hpc = "pki", ~HaltCan PROVE PkiCan \/ ppc = "stuck" \/ OpChUnread
      OBVIOUS
    <3>1. ~missed /\ session /\ pc = "up" /\ "pki" \in halted /\ wpc = "stopped"
      BY <1>1 DEF WaitInv, LifeInv, PastSession, PastConn, PastPki
    <3>2. ppc \in {"select", "callback", "lapsed", "stuck"}
      BY <1>1, <2>1, <3>1 DEF HaltCan, WaitInv, PointsOK, WithSession
    <3> QED BY <3>1, <3>2 DEF PkiCan, OpChUnread
  <2>11. hpc \in {"check", "close"} \/ (watcher = "shutdown" /\ hpc = "no")
           => HaltCan
    BY DEF HaltCan, Closed
  <2> QED BY Zenon, <2>2, <2>3, <2>4, <2>5, <2>6, <2>7, <2>8, <2>9, <2>10, <2>11 DEF CallsGoOn
<1> QED BY <1>1, WaitInvariant, LifeInvariant, ClientTypes, PTL
=============================================================================
