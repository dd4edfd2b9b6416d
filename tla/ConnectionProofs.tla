-------------------------- MODULE ConnectionProofs --------------------------
(***************************************************************************)
(* Proofs about Connection for any senders and items, any retry delays and *)
(* any number of faults.                                                   *)
(***************************************************************************)
EXTENDS Connection, SequenceTheorems, TLAPS

\* A leaf that names no prover is tried with each of these in turn.
USE SMTT(30), Z3T(30), ZenonT(60)

\* Nothing is connected, or the connection has no reader yet.
Off == Connecting \cup {"status", "announce", "again", "stopped"}

IsReply(c) == c.type \in Replies

\* ConnectionsApart, with what is known just before and after the status
\* changes.
ApartInv ==
    /\ ConnectionsApart
    /\ cpc = "status" => ~isConnected /\ ~notified
    /\ cpc = "announce" => isConnected

\* A sender is served from TakePacket to DonePacket, and sendErr tells what
\* has become of its packet.
SendInv ==
    /\ cpc = "done" => serving \in Sender /\ (sendErr <=> serving \notin written)
    /\ \A s \in Sender :
        /\ spc[s] \in {"unlock", "wait"} => cpc = "done" /\ serving = s
        /\ spc[s] \in {"idle", "enqueue", "failed", "refused"} => s \notin written
        /\ spc[s] = "sent" => s \in written

\* Between Add and the Store that clamps it, retryDelay may exceed the limit.
DelayInv ==
    /\ cpc \notin {"load", "store"} => retryDelay <= MaxRetryDelay
    /\ cpc = "store" /\ ~over => retryDelay <= MaxRetryDelay

\* Of the one fetch that is outstanding there is one request or one reply,
\* and it has the sequence of onWireConn.
FetchInv ==
    /\ req # <<>> => /\ Len(req) = 1 /\ req[1] = seq /\ outstanding = 1
                     /\ \A i \in 1 .. Len(inbox) : ~IsReply(inbox[i])
                     /\ ~IsReply(rcmd) /\ ~IsReply(cmd)
    /\ \A i \in 1 .. Len(inbox) :
        IsReply(inbox[i]) => /\ inbox[i].seq = seq /\ outstanding = 1
                             /\ ~IsReply(rcmd) /\ ~IsReply(cmd)
                             /\ \A j \in 1 .. Len(inbox) : IsReply(inbox[j]) => j = i
    /\ IsReply(rcmd) => rcmd.seq = seq /\ outstanding = 1 /\ ~IsReply(cmd)
    /\ IsReply(cmd) => cmd.seq = seq /\ outstanding = 1

\* A reply is of the head of the spool, as long as the Provider has not been
\* asked for the next.
Fits(c) == /\ provSeq = seq
           /\ c.item # None => spool # <<>> /\ c.item = Head(spool)

\* The Provider is at most one behind, and then its head was delivered.
SpoolInv ==
    /\ NoSpoolLoss
    /\ seq = provSeq \/ (seq = provSeq + 1 /\ spool # <<>> /\ Head(spool) \in delivered)
    /\ \A i \in 1 .. Len(inbox) : IsReply(inbox[i]) => Fits(inbox[i])
    /\ IsReply(rcmd) => Fits(rcmd)
    /\ IsReply(cmd) => Fits(cmd)

\* Without a connection nothing is on the wire.
WireInv ==
    /\ cpc \in Off => rpc = "gone" /\ req = <<>> /\ inbox = <<>> /\ ~IsReply(rcmd)
    /\ cpc # "check" => ~IsReply(cmd)

DeliveryInv == FetchInv /\ SpoolInv /\ WireInv
ConnInv == TypeOK /\ ApartInv /\ SendInv /\ DelayInv /\ DeliveryInv
-----------------------------------------------------------------------------
(* Before the first connection.                                            *)
LEMMA ConnInit == Init => ConnInv
<1> SUFFICES ASSUME Init PROVE ConnInv
  OBVIOUS
<1> USE DEF Init
<1>1. Bare("NoOp") \in Command /\ ~IsReply(Bare("NoOp"))
  BY DEF Bare, Command, IsReply, Replies
<1>2. TypeOK
  <2>1. req \in Seq(Nat) /\ inbox \in Seq(Command) /\ spool \in Seq(Item)
    OBVIOUS
  <2>2. faults \in 0 .. MaxFaults /\ fetchCh \in 0 .. 1
    BY DelayAssumption
  <2>3. /\ fresh \in BOOLEAN /\ over \in BOOLEAN /\ straggler \in BOOLEAN
        /\ isConnected \in BOOLEAN /\ notified \in BOOLEAN /\ sendErr \in BOOLEAN
        /\ closeConnCh \in BOOLEAN /\ halted \in BOOLEAN
    BY Zenon
  <2>4. spc \in [Sender -> SendStates] /\ cpc \in ConnStates
    BY DEF SendStates, ConnStates, Connecting
  <2> QED BY <1>1, <2>1, <2>2, <2>3, <2>4 DEF TypeOK
<1>3. ApartInv
  BY DEF ApartInv, ConnectionsApart, Connecting
<1>4. SendInv /\ DelayInv
  BY DelayAssumption DEF SendInv, DelayInv
<1>5. DeliveryInv
  BY <1>1 DEF DeliveryInv, FetchInv, SpoolInv, WireInv, NoSpoolLoss, Off, Connecting
<1> QED BY <1>2, <1>3, <1>4, <1>5 DEF ConnInv
-----------------------------------------------------------------------------
(* The status of the connection changes where ApartInv says.               *)
LEMMA ApartStep == ApartInv /\ [Next]_vars => ApartInv'
<1> SUFFICES ASSUME ApartInv, [Next]_vars PROVE ApartInv'
  OBVIOUS
<1> USE DEF ApartInv, ConnectionsApart, Connecting, ConnAt, statusVars, callVars
<1>1. CASE ConnectStep \/ StopConnect \/ CancelConnect
  <2>1. CASE FlushTimer \/ Descriptor \/ Dial \/ Handshake
    BY <2>1 DEF FlushTimer, Descriptor, Dial, Handshake
  <2>2. CASE Backoff \/ RaiseDelay \/ LoadDelay \/ StoreDelay \/ StopConnect
    BY <2>2 DEF Backoff, RaiseDelay, LoadDelay, StoreDelay, StopConnect
  <2>3. CASE Connected \/ StartReader \/ CancelConnect
    BY <2>3 DEF Connected, StatusChange, StatusOf, StartReader, CancelConnect
  <2> QED BY <1>1, <2>1, <2>2, <2>3 DEF ConnectStep
<1>2. CASE LoopStep \/ CheckStep
  <2>1. CASE Fetch \/ DonePacket \/ TakeCommand \/ TakeReadError \/ LeaveLoop
    BY <2>1 DEF Fetch, DonePacket, TakeCommand, TakeReadError, LeaveLoop
  <2>2. ASSUME NEW s \in Sender, TakePacket(s) PROVE ApartInv'
    BY <2>2 DEF TakePacket
  <2>3. CASE DropCommand \/ PeerInvalid \/ HandleCommand
    BY <2>3 DEF DropCommand, PeerInvalid, HandleCommand
  <2> QED BY <1>2, <2>1, <2>2, <2>3 DEF LoopStep, CheckStep
<1>3. CASE Teardown
  BY <1>3 DEF Teardown, Disconnected, StatusChange, StatusOf, CloseCmdCh, WireClosed,
     CallbacksDone, Reconnect
<1>4. CASE ReaderStep \/ Environment \/ UNCHANGED vars
  BY <1>4 DEF ReaderStep, Receive, ClearDelay, ReaderReturns, Environment, ForceFetch,
     Serve, Unsolicited, NewEpoch, Halt, Arrive, vars
<1>5. ASSUME NEW c \in Item \cup {Empty}, CallbackReturns(c) PROVE ApartInv'
  BY <1>5 DEF CallbackReturns
<1>6. ASSUME NEW s \in Sender, SendStep(s) PROVE ApartInv'
  BY <1>6 DEF SendStep, sendPacket, AwaitVerdict
<1> QED BY <1>1, <1>2, <1>3, <1>4, <1>5, <1>6 DEF Next

(* The delay is raised and clamped, or cleared in between.                 *)
LEMMA DelayStep == TypeOK /\ DelayInv /\ [Next]_vars => DelayInv'
<1> SUFFICES ASSUME TypeOK, DelayInv, [Next]_vars PROVE DelayInv'
  OBVIOUS
<1>0. retryDelay \in Nat /\ MaxRetryDelay \in Nat
  BY DelayAssumption DEF TypeOK
<1> USE DEF DelayInv, ConnAt, backVars
<1>1. CASE RaiseDelay \/ LoadDelay \/ StoreDelay
  <2>1. CASE RaiseDelay
    BY <2>1 DEF RaiseDelay
  <2>2. CASE LoadDelay
    <3>1. over' = Exceeds(retryDelay) /\ cpc' = "store" /\ retryDelay' = retryDelay
      BY <2>2, Zenon DEF LoadDelay
    <3>2. ~Exceeds(retryDelay) => retryDelay <= MaxRetryDelay
      BY <1>0 DEF Exceeds
    <3> QED BY <3>1, <3>2, Zenon
  <2>3. CASE StoreDelay
    BY <1>0, <2>3 DEF StoreDelay
  <2> QED BY <1>1, <2>1, <2>2, <2>3
<1>2. CASE ReaderStep
  BY <1>0, <1>2 DEF ReaderStep, Receive, ClearDelay, ReaderReturns
<1>3. CASE UNCHANGED retryDelay /\ cpc \notin {"load", "store"} /\ cpc' \notin {"load", "store"}
  BY <1>3
<1>4. CASE UNCHANGED <<retryDelay, over, cpc>>
  BY <1>4
<1>5. CASE ConnectStep \/ StopConnect \/ CancelConnect
  <2>1. CASE FlushTimer \/ Descriptor \/ Dial \/ Handshake \/ Backoff
    BY <1>3, <2>1 DEF FlushTimer, Descriptor, Dial, Handshake, Backoff
  <2>2. CASE Connected \/ StartReader \/ StopConnect \/ CancelConnect
    BY <1>3, <2>2, ZenonT(30) DEF Connected, StatusChange, StartReader, StopConnect, CancelConnect
  <2> QED BY <1>1, <1>5, <2>1, <2>2 DEF ConnectStep
<1>6. CASE LoopStep \/ CheckStep
  <2>1. CASE Fetch \/ DonePacket \/ TakeCommand \/ TakeReadError \/ LeaveLoop
    BY <1>3, <2>1 DEF Fetch, DonePacket, TakeCommand, TakeReadError, LeaveLoop
  <2>2. ASSUME NEW s \in Sender, TakePacket(s) PROVE DelayInv'
    BY <1>3, <2>2 DEF TakePacket
  <2>3. CASE DropCommand \/ PeerInvalid \/ HandleCommand
    BY <1>3, <2>3 DEF DropCommand, PeerInvalid, HandleCommand
  <2> QED BY <1>6, <2>1, <2>2, <2>3 DEF LoopStep, CheckStep
<1>7. CASE Teardown
  BY <1>3, <1>7, ZenonT(30) DEF Teardown, Disconnected, StatusChange, CloseCmdCh, WireClosed, Reconnect
<1>8. CASE Environment \/ UNCHANGED vars
  BY <1>4, <1>8 DEF Environment, ForceFetch, Serve, Unsolicited, NewEpoch, Halt, Arrive, vars
<1>9. ASSUME NEW c \in Item \cup {Empty}, CallbackReturns(c) PROVE DelayInv'
  BY <1>4, <1>9 DEF CallbackReturns
<1>10. ASSUME NEW s \in Sender, SendStep(s) PROVE DelayInv'
  BY <1>4, <1>10 DEF SendStep, sendPacket, AwaitVerdict
<1> QED BY <1>1, <1>2, <1>5, <1>6, <1>7, <1>8, <1>9, <1>10 DEF Next

(* Only TakePacket and DonePacket, with the packet in hand, and the sender *)
(* itself change what is known of a packet.                                *)
LEMMA SendKept == TypeOK /\ SendInv /\ [Next]_vars => SendInv'
<1> SUFFICES ASSUME TypeOK, SendInv, [Next]_vars PROVE SendInv'
  OBVIOUS
<1>0. spc \in [Sender -> SendStates] /\ sendErr \in BOOLEAN
  BY DEF TypeOK
<1> USE DEF SendInv
<1>1. ASSUME NEW s \in Sender, TakePacket(s) PROVE SendInv'
  <2>1. /\ cpc = "loop" /\ cpc' = "done" /\ spc[s] = "enqueue" /\ serving' = s
        /\ spc' = [spc EXCEPT ![s] = "unlock"]
    BY <1>1 DEF TakePacket, ConnAt
  <2>2. \/ sendErr' = FALSE /\ written' = written \cup {s}
        \/ sendErr' = TRUE /\ written' = written
    BY <1>1 DEF TakePacket
  <2>3. s \notin written
    BY <2>1
  <2>4. sendErr' <=> serving' \notin written'
    BY <2>1, <2>2, <2>3
  <2>5. \A q \in Sender : q # s => spc'[q] = spc[q] /\ (q \in written' <=> q \in written)
    BY <1>0, <2>1, <2>2
  <2>6. spc'[s] = "unlock"
    BY <1>0, <2>1
  <2> QED BY <2>1, <2>4, <2>5, <2>6
<1>2. CASE DonePacket
  <2>1. /\ cpc = "done" /\ serving \in Sender /\ cpc' # "done" /\ written' = written
        /\ spc' = [spc EXCEPT ![serving] = SendVerdict]
    BY <1>2 DEF DonePacket, sendVars
  <2>2. SendVerdict \in {"failed", "sent"} /\ (SendVerdict = "sent" <=> serving \in written)
    BY <1>0, <2>1 DEF SendVerdict
  <2>3. \A q \in Sender : q # serving => spc'[q] = spc[q]
    BY <1>0, <2>1
  <2>4. spc'[serving] = SendVerdict
    BY <1>0, <2>1
  <2> QED BY <2>1, <2>2, <2>3, <2>4
<1>3. ASSUME NEW s \in Sender, SendStep(s) PROVE SendInv'
  <2>1. UNCHANGED <<cpc, serving, sendErr, written>>
    BY <1>3 DEF SendStep, sendPacket, AwaitVerdict, loopVars
  <2>2. \E to \in {"refused", "enqueue", "wait"} :
            /\ spc' = [spc EXCEPT ![s] = to]
            /\ IF to = "wait" THEN spc[s] = "unlock" ELSE spc[s] = "idle"
    BY <1>3 DEF SendStep, sendPacket, AwaitVerdict
  <2> QED BY <1>0, <2>1, <2>2
<1>4. CASE UNCHANGED <<serving, sendErr, spc, written>> /\ (cpc = "done" <=> cpc' = "done")
  BY <1>4
<1> USE DEF ConnAt, loopVars, sendVars
<1>5. CASE ConnectStep \/ StopConnect \/ CancelConnect
  <2>1. CASE FlushTimer \/ Descriptor \/ Dial \/ Handshake \/ Backoff
    BY <1>4, <2>1 DEF FlushTimer, Descriptor, Dial, Handshake, Backoff
  <2>2. CASE Connected \/ StartReader \/ StopConnect \/ CancelConnect
    BY <1>4, <2>2, ZenonT(30) DEF Connected, StatusChange, StartReader, StopConnect, CancelConnect
  <2>3. CASE RaiseDelay \/ LoadDelay \/ StoreDelay
    BY <1>4, <2>3 DEF RaiseDelay, LoadDelay, StoreDelay
  <2> QED BY <1>5, <2>1, <2>2, <2>3 DEF ConnectStep
<1>6. CASE Fetch \/ TakeCommand \/ TakeReadError \/ LeaveLoop
  BY <1>4, <1>6 DEF Fetch, TakeCommand, TakeReadError, LeaveLoop
<1>7. CASE CheckStep
  BY <1>4, <1>7 DEF CheckStep, DropCommand, PeerInvalid, HandleCommand
<1>8. CASE Teardown
  BY <1>4, <1>8, ZenonT(30) DEF Teardown, Disconnected, StatusChange, CloseCmdCh, WireClosed, Reconnect
<1>9. CASE ReaderStep \/ Environment \/ UNCHANGED vars
  BY <1>4, <1>9 DEF ReaderStep, Receive, ClearDelay, ReaderReturns, Environment, ForceFetch,
     Serve, Unsolicited, NewEpoch, Halt, Arrive, vars
<1>10. ASSUME NEW c \in Item \cup {Empty}, CallbackReturns(c) PROVE SendInv'
  BY <1>4, <1>10 DEF CallbackReturns
<1> QED BY <1>1, <1>2, <1>3, <1>5, <1>6, <1>7, <1>8, <1>9, <1>10 DEF Next, LoopStep
-----------------------------------------------------------------------------
(* The types, but for the data on the wire and in the spool.               *)
dataVars == <<seq, outstanding, cmd, rcmd, req, inbox, spool, provSeq, arrived>>

DataType ==
    /\ seq \in Nat /\ outstanding \in Nat /\ cmd \in Command /\ rcmd \in Command
    /\ req \in Seq(Nat) /\ inbox \in Seq(Command) /\ spool \in Seq(Item)
    /\ provSeq \in Nat /\ arrived \subseteq Item

FlagType ==
    /\ fresh \in BOOLEAN /\ over \in BOOLEAN /\ straggler \in BOOLEAN
    /\ isConnected \in BOOLEAN /\ notified \in BOOLEAN /\ sendErr \in BOOLEAN
    /\ closeConnCh \in BOOLEAN /\ halted \in BOOLEAN

PlaceType ==
    /\ cpc \in ConnStates /\ rpc \in {"recv", "reset", "hand", "error", "gone"}
    /\ lock \in Sender \cup {None} /\ serving \in Sender \cup {None}
    /\ spc \in [Sender -> SendStates] /\ written \subseteq Sender
    /\ running \subseteq Item \cup {Empty} /\ delivered \subseteq Item

CountType == retryDelay \in Nat /\ fetchCh \in 0 .. 1 /\ faults \in 0 .. MaxFaults

(* TypeOK in four parts.                                                   *)
LEMMA TypeParts == TypeOK <=> DataType /\ FlagType /\ PlaceType /\ CountType
BY Zenon DEF TypeOK, DataType, FlagType, PlaceType, CountType

(* The flags stay flags.                                                   *)
LEMMA FlagKept == FlagType /\ [Next]_vars => FlagType'
<1> SUFFICES ASSUME FlagType, [Next]_vars PROVE FlagType'
  OBVIOUS
<1> USE DEF FlagType, statusVars, loopVars, backVars
<1>1. CASE ConnectStep
  <2>1. LoadDelay => over' \in BOOLEAN
    BY SMT DEF LoadDelay, Exceeds
  <2>2. CASE LoadDelay
    BY <2>1, <2>2, Zenon DEF LoadDelay
  <2>3. CASE ~LoadDelay
    BY <1>1, <2>3, ZenonT(60) DEF ConnectStep, FlushTimer, Descriptor, Backoff, RaiseDelay,
       StoreDelay, Dial, Handshake, Connected, StartReader, StatusChange, StatusOf
  <2> QED BY <2>2, <2>3
<1>2. CASE StopConnect \/ CancelConnect \/ Teardown
  BY <1>2, ZenonT(60) DEF StopConnect, CancelConnect, Teardown, Disconnected, StatusChange, StatusOf,
     CloseCmdCh, WireClosed, Reconnect
<1>3. CASE LoopStep
  BY <1>3, ZenonT(60) DEF LoopStep, Fetch, DonePacket, TakeCommand, TakeReadError, LeaveLoop, TakePacket
<1>4. CASE CheckStep \/ ReaderStep
  BY <1>4, ZenonT(60) DEF CheckStep, DropCommand, PeerInvalid, HandleCommand, ReaderStep, Receive,
     ClearDelay, ReaderReturns
<1>5. CASE Environment \/ UNCHANGED vars
  <2>1. CASE ForceFetch \/ NewEpoch \/ Halt \/ UNCHANGED vars
    BY <2>1, ZenonT(60) DEF ForceFetch, NewEpoch, Halt, vars
  <2>2. CASE Serve \/ Unsolicited \/ (\E m \in Item : Arrive(m))
    BY <2>2, ZenonT(60) DEF Serve, Unsolicited, Arrive
  <2> QED BY <1>5, <2>1, <2>2, Zenon DEF Environment
<1>6. ASSUME NEW c \in Item \cup {Empty}, CallbackReturns(c) PROVE FlagType'
  BY <1>6, Zenon DEF CallbackReturns
<1>7. ASSUME NEW s \in Sender, SendStep(s) PROVE FlagType'
  BY <1>7, ZenonT(60) DEF SendStep, sendPacket, AwaitVerdict
<1> QED BY <1>1, <1>2, <1>3, <1>4, <1>5, <1>6, <1>7 DEF Next

(* retryDelay, fetchCh and the faults stay in range.                       *)
LEMMA CountKept == CountType /\ [Next]_vars => CountType'
<1> SUFFICES ASSUME CountType, [Next]_vars PROVE CountType'
  OBVIOUS
<1> USE DelayAssumption DEF CountType, backVars, Fault
<1>1. CASE ConnectStep
  <2>1. CASE RaiseDelay \/ LoadDelay \/ StoreDelay
    BY <2>1 DEF RaiseDelay, LoadDelay, StoreDelay
  <2>2. CASE FlushTimer \/ Descriptor \/ Backoff \/ Dial \/ Handshake
    BY <2>2 DEF FlushTimer, Descriptor, Backoff, Dial, Handshake
  <2>3. CASE Connected \/ StartReader
    BY <2>3, ZenonT(30) DEF Connected, StartReader, StatusChange
  <2> QED BY <1>1, <2>1, <2>2, <2>3 DEF ConnectStep
<1>2. CASE StopConnect \/ CancelConnect \/ Teardown
  <2>1. CASE StopConnect \/ CancelConnect \/ CloseCmdCh \/ WireClosed
    BY <2>1, Zenon DEF StopConnect, CancelConnect, CloseCmdCh, WireClosed
  <2>2. CASE Disconnected \/ Reconnect
    <3>1. fetchCh' = 0 /\ UNCHANGED <<retryDelay, faults>>
      BY <2>2, Zenon DEF Disconnected, Reconnect, StatusChange
    <3> QED BY <3>1
  <2> QED BY <1>2, <2>1, <2>2 DEF Teardown
<1>3. CASE LoopStep
  <2>1. CASE Fetch
    BY <2>1 DEF Fetch
  <2>2. CASE LoopStep /\ ~Fetch
    BY <2>2 DEF LoopStep, DonePacket, TakeCommand, TakeReadError, LeaveLoop, TakePacket
  <2> QED BY <1>3, <2>1, <2>2
<1>4. CASE CheckStep \/ ReaderStep
  BY <1>4 DEF CheckStep, DropCommand, PeerInvalid, HandleCommand, ReaderStep, Receive,
     ClearDelay, ReaderReturns
<1>5. CASE Environment \/ UNCHANGED vars
  BY <1>5 DEF Environment, ForceFetch, Poke, Serve, Unsolicited, NewEpoch, Halt, Arrive, vars
<1>6. ASSUME NEW c \in Item \cup {Empty}, CallbackReturns(c) PROVE CountType'
  BY <1>6 DEF CallbackReturns
<1>7. ASSUME NEW s \in Sender, SendStep(s) PROVE CountType'
  BY <1>7 DEF SendStep, sendPacket, AwaitVerdict
<1> QED BY <1>1, <1>2, <1>3, <1>4, <1>5, <1>6, <1>7 DEF Next

(* Everybody is somewhere, and works on what there is.                     *)
LEMMA PlaceKept == DataType /\ PlaceType /\ [Next]_vars => PlaceType'
<1> SUFFICES ASSUME DataType, PlaceType, [Next]_vars PROVE PlaceType'
  OBVIOUS
<1> USE DEF PlaceType, ConnStates, Connecting, SendStates, ConnAt, statusVars, loopVars,
            readVars, sendVars, callVars
<1>1. CASE ConnectStep
  BY <1>1, ZenonT(30) DEF ConnectStep, FlushTimer, Descriptor, Backoff, RaiseDelay, LoadDelay,
     StoreDelay, Dial, Handshake, Connected, StartReader, StatusChange
<1>2. CASE StopConnect \/ CancelConnect \/ Teardown
  BY <1>2, ZenonT(30) DEF StopConnect, CancelConnect, Teardown, Disconnected, StatusChange,
     CloseCmdCh, WireClosed, Reconnect
<1>3. CASE Fetch \/ TakeCommand \/ TakeReadError \/ LeaveLoop
  BY <1>3 DEF Fetch, TakeCommand, TakeReadError, LeaveLoop
<1>4. CASE DonePacket
  BY <1>4, ZenonT(30) DEF DonePacket, SendVerdict
<1>5. ASSUME NEW s \in Sender, TakePacket(s) PROVE PlaceType'
  BY <1>5 DEF TakePacket
<1>6. CASE DropCommand \/ PeerInvalid
  BY <1>6 DEF DropCommand, PeerInvalid
<1>7. CASE HandleCommand
  <2>1. Callbacks(cmd) \subseteq Item \cup {Empty}
    BY DEF Callbacks, DataType, Command
  <2> QED BY <1>7, <2>1 DEF HandleCommand
<1>8. CASE ReaderStep
  BY <1>8 DEF ReaderStep, Receive, ClearDelay, ReaderReturns
<1>9. CASE Environment \/ UNCHANGED vars
  BY ZenonT(60), <1>9 DEF Environment, ForceFetch, Serve, Unsolicited, NewEpoch, Halt, Arrive, vars
<1>10. ASSUME NEW c \in Item \cup {Empty}, CallbackReturns(c) PROVE PlaceType'
  BY <1>10 DEF CallbackReturns
<1>11. ASSUME NEW s \in Sender, SendStep(s) PROVE PlaceType'
  BY <1>11 DEF SendStep, sendPacket, AwaitVerdict
<1> QED BY <1>1, <1>2, <1>3, <1>4, <1>5, <1>6, <1>7, <1>8, <1>9, <1>10, <1>11
        DEF Next, LoopStep, CheckStep
-----------------------------------------------------------------------------
(* The fetch that is outstanding, and the spool.                           *)

DataInv == DataType /\ DeliveryInv

(* A NoOp is a command and no reply, and so is a Disconnect.               *)
LEMMA BareCommands ==
    \A t \in {"NoOp", "Disconnect"} : Bare(t) \in Command /\ ~IsReply(Bare(t))
BY DEF Bare, Command, IsReply, Replies

(* Steps that touch no data keep DataInv, if they neither end a connection *)
(* nor leave the check of a command.                                       *)
LEMMA DataUntouched ==
    ASSUME DataInv, UNCHANGED dataVars, UNCHANGED delivered, cpc = "check" <=> cpc' = "check",
           cpc' \in Off => cpc \in Off /\ rpc' = rpc
    PROVE  DataInv'
<1> USE DEF dataVars
<1>1. DataType'
  BY DEF DataInv, DataType
<1>2. FetchInv'
  BY DEF DataInv, DeliveryInv, FetchInv
<1>3. SpoolInv'
  BY DEF DataInv, DeliveryInv, SpoolInv, NoSpoolLoss, Fits
<1>4. WireInv'
  BY DEF DataInv, DeliveryInv, WireInv
<1> QED BY <1>1, <1>2, <1>3, <1>4 DEF DataInv, DeliveryInv

(* The steps of doConnect, the senders and the loop that are so.           *)
LEMMA DataControl ==
    ASSUME DataInv,
           \/ (ConnectStep /\ ~StartReader) \/ StopConnect \/ CancelConnect
           \/ DonePacket \/ TakeReadError \/ LeaveLoop \/ (\E s \in Sender : TakePacket(s))
           \/ Disconnected \/ CloseCmdCh \/ Reconnect \/ ClearDelay
           \/ ForceFetch \/ NewEpoch \/ Halt \/ UNCHANGED vars
           \/ (\E c \in Item \cup {Empty} : CallbackReturns(c))
           \/ (\E s \in Sender : SendStep(s))
    PROVE  DataInv'
<1> USE DEF dataVars, Off, Connecting, ConnAt, loopVars, readVars, wireVars, spoolVars, callVars
<1>1. UNCHANGED dataVars /\ UNCHANGED delivered
  BY ZenonT(60) DEF ConnectStep, FlushTimer, Descriptor, Backoff, RaiseDelay, LoadDelay,
     StoreDelay, Dial, Handshake, Connected, StatusChange, StopConnect, CancelConnect,
     DonePacket, TakeReadError, LeaveLoop, TakePacket, Disconnected, CloseCmdCh, Reconnect,
     ClearDelay, ForceFetch, NewEpoch, Halt, vars, CallbackReturns, SendStep, sendPacket,
     AwaitVerdict
<1>2. /\ cpc = "check" <=> cpc' = "check"
      /\ cpc' \in Off => cpc \in Off
  BY ZenonT(60) DEF ConnectStep, FlushTimer, Descriptor, Backoff, RaiseDelay, LoadDelay,
     StoreDelay, Dial, Handshake, Connected, StatusChange, StopConnect, CancelConnect,
     DonePacket, TakeReadError, LeaveLoop, TakePacket, Disconnected, CloseCmdCh, Reconnect,
     ClearDelay, ForceFetch, NewEpoch, Halt, vars, CallbackReturns, SendStep, sendPacket,
     AwaitVerdict
<1>3. cpc' \in Off => rpc' = rpc
  <2>1. cpc \in Off => rpc = "gone"
    BY DEF DataInv, DeliveryInv, WireInv
  <2> QED BY <1>2, <2>1, ZenonT(30) DEF ConnectStep, FlushTimer, Descriptor, Backoff, RaiseDelay,
     LoadDelay, StoreDelay, Dial, Handshake, Connected, StatusChange, StopConnect,
     CancelConnect, DonePacket, TakeReadError, LeaveLoop, TakePacket, Disconnected,
     CloseCmdCh, Reconnect, ClearDelay, ForceFetch, NewEpoch, Halt, vars, CallbackReturns,
     SendStep, sendPacket, AwaitVerdict
<1> QED BY <1>1, <1>2, <1>3, DataUntouched

(* A connection begins and ends with nothing on the wire, in sequence 0.   *)
LEMMA DataReset == ASSUME DataInv, StartReader \/ WireClosed PROVE DataInv'
<1> USE DEF DataInv, DeliveryInv
<1>1. /\ seq' = 0 /\ outstanding' = 0 /\ provSeq' = 0
      /\ UNCHANGED <<cmd, spool, arrived, delivered>>
      /\ cpc \in {"announce", "drain"} /\ cpc' # "check"
      /\ rpc' = "gone" \/ cpc' = "loop"
  BY DEF StartReader, WireClosed, ConnAt, spoolVars, callVars
<1>2. /\ req' = <<>> /\ inbox' = <<>> /\ rcmd' \in Command /\ ~IsReply(rcmd') /\ ~IsReply(cmd')
  <2>1. ~IsReply(cmd')
    BY <1>1 DEF WireInv
  <2>2. CASE StartReader
    BY <1>1, <2>1, <2>2 DEF StartReader, ConnAt, wireVars, WireInv, Off, DataType
  <2>3. CASE WireClosed
    BY <2>1, <2>3, BareCommands DEF WireClosed
  <2> QED BY <2>2, <2>3
<1>3. DataType'
  BY <1>1, <1>2 DEF DataType
<1>4. FetchInv'
  BY <1>2 DEF FetchInv
<1>5. SpoolInv'
  BY <1>1, <1>2 DEF SpoolInv, NoSpoolLoss
<1>6. WireInv'
  BY <1>1, <1>2 DEF WireInv, Off, Connecting
<1> QED BY <1>3, <1>4, <1>5, <1>6

(* A fetch is sent when none is outstanding, so nothing is on its way.     *)
LEMMA DataFetch == ASSUME DataInv, Fetch PROVE DataInv'
<1> USE DEF DataInv, DeliveryInv
<1>1. /\ UNCHANGED <<seq, cmd, rcmd, inbox, spool, provSeq, arrived, delivered>>
      /\ cpc = "loop" /\ cpc' \in {"loop", "closing"}
  BY DEF Fetch, readVars, spoolVars, callVars
<1>2. CASE UNCHANGED <<req, outstanding>>
  BY <1>1, <1>2, DataUntouched DEF dataVars, Off, Connecting
<1>3. CASE outstanding = 0 /\ req' = Append(req, seq) /\ outstanding' = 1
  <2>1. req = <<>> /\ (\A i \in 1 .. Len(inbox) : ~IsReply(inbox[i]))
        /\ ~IsReply(rcmd) /\ ~IsReply(cmd)
    BY <1>3 DEF FetchInv
  <2>2. seq \in Nat /\ req' \in Seq(Nat) /\ Len(req') = 1 /\ req'[1] = seq
    BY <1>3, <2>1 DEF DataType
  <2>3. DataType'
    BY <1>1, <1>3, <2>2 DEF DataType
  <2>4. FetchInv'
    BY <1>1, <1>3, <2>1, <2>2 DEF FetchInv
  <2>5. SpoolInv'
    BY <1>1, <2>1 DEF SpoolInv, NoSpoolLoss
  <2>6. WireInv'
    BY <1>1, <2>1 DEF WireInv, Off, Connecting
  <2> QED BY <2>3, <2>4, <2>5, <2>6
<1>4. \/ UNCHANGED <<req, outstanding>>
      \/ outstanding = 0 /\ req' = Append(req, seq) /\ outstanding' = 1
  BY DEF Fetch, NoFetchOutstanding, DataType
<1> QED BY <1>2, <1>3, <1>4

(* The loop takes the command that the reader read, or drops it.           *)
LEMMA DataTake ==
    ASSUME DataInv, TakeCommand \/ DropCommand \/ PeerInvalid \/ ReaderReturns
    PROVE  DataInv'
<1> USE DEF DataInv, DeliveryInv
<1>1. UNCHANGED <<seq, outstanding, req, inbox, spool, provSeq, arrived, delivered>>
      /\ cpc' \notin Off /\ (cpc' # "check" => cpc # "check" \/ cmd' = Bare("NoOp"))
  BY DEF TakeCommand, DropCommand, PeerInvalid, ReaderReturns, wireVars, spoolVars, callVars,
     loopVars, ConnAt, Off, Connecting
<1>2. \/ cmd' = rcmd /\ rcmd' = Bare("NoOp") /\ cpc' = "check"
      \/ cmd' = Bare("NoOp") /\ rcmd' = rcmd
      \/ cmd' = cmd /\ rcmd' = Bare("NoOp") /\ cpc' = cpc
  BY DEF TakeCommand, DropCommand, PeerInvalid, ReaderReturns, readVars, loopVars, ConnAt
<1>3. DataType'
  BY <1>1, <1>2, BareCommands DEF DataType
<1>4. FetchInv'
  <2>1. (IsReply(cmd') => (IsReply(rcmd) /\ cmd' = rcmd /\ rcmd' = Bare("NoOp"))
                          \/ (IsReply(cmd) /\ cmd' = cmd))
        /\ (IsReply(rcmd') => IsReply(rcmd) /\ rcmd' = rcmd /\ ~IsReply(cmd'))
    BY <1>2, BareCommands DEF FetchInv
  <2> QED BY <1>1, <2>1, BareCommands DEF FetchInv
<1>5. SpoolInv'
  BY <1>1, <1>2, BareCommands DEF SpoolInv, NoSpoolLoss, Fits
<1>6. WireInv'
  BY <1>1, <1>2, BareCommands DEF WireInv
<1> QED BY <1>3, <1>4, <1>5, <1>6

(* A reply is handled: the item at the head of the spool is delivered.     *)
LEMMA DataHandle == ASSUME DataInv, HandleCommand PROVE DataInv'
<1> USE DEF DataInv, DeliveryInv
<1>1. /\ UNCHANGED <<rcmd, req, inbox, spool, provSeq, arrived>> /\ cmd' = Bare("NoOp")
      /\ cpc = "check" /\ cpc' \in {"loop", "closing"}
  BY DEF HandleCommand, readVars, wireVars, spoolVars
<1>2. WireInv'
  BY <1>1, BareCommands DEF WireInv, Off, Connecting
<1>3. CASE UNCHANGED <<seq, outstanding, delivered>>
  <2>1. DataType'
    BY <1>1, <1>3, BareCommands DEF DataType
  <2>2. FetchInv'
    BY <1>1, <1>3, BareCommands DEF FetchInv
  <2>3. SpoolInv'
    BY <1>1, <1>3, BareCommands DEF SpoolInv, NoSpoolLoss, Fits
  <2> QED BY <1>2, <2>1, <2>2, <2>3
<1>4. CASE /\ IsReply(cmd) /\ seq' = Advance(cmd) /\ outstanding' = Answered(cmd)
           /\ delivered' = delivered \cup (Callbacks(cmd) \ {Empty})
  <2>1. /\ seq \in Nat /\ outstanding = 1 /\ seq' \in {seq, seq + 1} /\ outstanding' = 0
        /\ req = <<>> /\ ~IsReply(rcmd) /\ \A i \in 1 .. Len(inbox) : ~IsReply(inbox[i])
    BY <1>4 DEF FetchInv, DataType, Advance, Answered
  <2>2. DataType'
    BY <1>1, <2>1, BareCommands DEF DataType
  <2>3. FetchInv'
    BY <1>1, <2>1, BareCommands DEF FetchInv
  <2>4. provSeq = seq
    BY <1>4 DEF SpoolInv, Fits
  <2>5. CASE cmd.item = None
    <3>1. seq' = seq /\ delivered \subseteq delivered'
      BY <1>4, <2>5 DEF Advance
    <3> QED BY <1>1, <1>2, <2>1, <2>2, <2>3, <2>4, <3>1, BareCommands DEF SpoolInv, NoSpoolLoss
  <2>6. CASE cmd.item # None
    <3>1. seq' = seq + 1 /\ delivered \subseteq delivered' /\ cmd.item \in delivered'
      <4>1. cmd.item \in Item
        BY <2>6 DEF DataType, Command
      <4>2. cmd.item \in Callbacks(cmd) \ {Empty}
        BY <2>6, <4>1, ItemAssumption DEF Callbacks
      <4> QED BY <1>4, <2>6, <4>2 DEF Advance
    <3>2. spool # <<>> /\ cmd.item = Head(spool)
      BY <1>4, <2>6 DEF SpoolInv, Fits
    <3>3. SpoolInv'
      BY <1>1, <2>1, <2>4, <3>1, <3>2, BareCommands DEF SpoolInv, NoSpoolLoss
    <3> QED BY <1>2, <2>2, <2>3, <3>3
  <2> QED BY <2>5, <2>6
<1>5. \/ UNCHANGED <<seq, outstanding, delivered>>
      \/ /\ IsReply(cmd) /\ seq' = Advance(cmd) /\ outstanding' = Answered(cmd)
         /\ delivered' = delivered \cup (Callbacks(cmd) \ {Empty})
  BY DEF HandleCommand, IsReply
<1> QED BY <1>3, <1>4, <1>5

(* The reader takes the first command of the inbox.                        *)
LEMMA DataReceive == ASSUME DataInv, Receive PROVE DataInv'
<1> USE DEF DataInv, DeliveryInv
<1>1. /\ UNCHANGED <<seq, outstanding, cmd, req, spool, provSeq, arrived, delivered, cpc>>
      /\ rpc = "recv"
  BY DEF Receive, loopVars, spoolVars, callVars
<1>2. cpc \notin Off
  BY <1>1 DEF WireInv
<1>3. CASE UNCHANGED <<rcmd, inbox>>
  BY <1>1, <1>2, <1>3, DataUntouched DEF dataVars
<1>4. CASE inbox # <<>> /\ rcmd' = Head(inbox) /\ inbox' = Tail(inbox)
  <2>1. /\ Len(inbox) = Len(inbox') + 1 /\ rcmd' = inbox[1] /\ Len(inbox') \in Nat
        /\ rcmd' \in Command /\ inbox' \in Seq(Command)
        /\ \A i \in 1 .. Len(inbox') : inbox'[i] = inbox[i + 1] /\ i + 1 \in 1 .. Len(inbox)
    BY <1>4 DEF DataType
  <2>2. DataType'
    BY <1>1, <2>1 DEF DataType
  <2>3. IsReply(rcmd') => \A i \in 1 .. Len(inbox') : ~IsReply(inbox'[i])
    BY <2>1 DEF FetchInv
  <2>4. ASSUME req # <<>>
        PROVE  ~IsReply(rcmd') /\ \A i \in 1 .. Len(inbox') : ~IsReply(inbox'[i])
    BY <2>1, <2>4 DEF FetchInv
  <2>5. ASSUME NEW i \in 1 .. Len(inbox'), IsReply(inbox'[i])
        PROVE  /\ inbox'[i].seq = seq /\ outstanding = 1 /\ ~IsReply(cmd)
               /\ \A j \in 1 .. Len(inbox') : IsReply(inbox'[j]) => j = i
    BY <2>1, <2>5 DEF FetchInv
  <2>6. IsReply(rcmd') => rcmd'.seq = seq /\ outstanding = 1 /\ ~IsReply(cmd)
    BY <2>1 DEF FetchInv
  <2>7. FetchInv'
    BY <1>1, <2>3, <2>4, <2>5, <2>6, ZenonT(60) DEF FetchInv
  <2>8. SpoolInv'
    <3>1. ASSUME NEW i \in 1 .. Len(inbox'), IsReply(inbox'[i])
          PROVE  /\ provSeq = seq
                 /\ inbox'[i].item # None => spool # <<>> /\ inbox'[i].item = Head(spool)
      BY <2>1, <3>1 DEF SpoolInv, Fits
    <3>2. IsReply(rcmd') => /\ provSeq = seq
                            /\ rcmd'.item # None => spool # <<>> /\ rcmd'.item = Head(spool)
      BY <2>1 DEF SpoolInv, Fits
    <3> QED BY <1>1, <3>1, <3>2, Zenon DEF SpoolInv, NoSpoolLoss, Fits
  <2>9. WireInv'
    BY <1>1, <1>2 DEF WireInv
  <2> QED BY <2>2, <2>7, <2>8, <2>9
<1>5. UNCHANGED <<rcmd, inbox>> \/ (inbox # <<>> /\ rcmd' = Head(inbox) /\ inbox' = Tail(inbox))
  BY DEF Receive
<1> QED BY <1>3, <1>4, <1>5

(* A command is put in the inbox that is no reply, or the only one.        *)
LEMMA Inboxed ==
    ASSUME NEW s \in Seq(Command), NEW c \in Command
    PROVE  /\ Append(s, c) \in Seq(Command) /\ Len(Append(s, c)) = Len(s) + 1
           /\ Len(s) \in Nat /\ Append(s, c)[Len(s) + 1] = c
           /\ \A i \in 1 .. Len(s) : Append(s, c)[i] = s[i]
OBVIOUS

(* An item arrives at the end of the spool.                                *)
LEMMA DataArrive == ASSUME DataInv, NEW m \in Item, Arrive(m) PROVE DataInv'
<1> USE DEF DataInv, DeliveryInv
<1>1. /\ UNCHANGED <<seq, outstanding, cmd, rcmd, req, inbox, provSeq, delivered, cpc, rpc>>
      /\ spool' = Append(spool, m) /\ arrived' = arrived \cup {m}
  BY DEF Arrive, loopVars, readVars, wireVars, callVars
<1>2. /\ spool \in Seq(Item) /\ spool' \in Seq(Item) /\ Len(spool') = Len(spool) + 1
      /\ Len(spool) \in Nat /\ spool'[Len(spool) + 1] = m
      /\ \A i \in 1 .. Len(spool) : spool'[i] = spool[i]
  BY <1>1 DEF DataType
<1>3. spool # <<>> => spool' # <<>> /\ Head(spool') = Head(spool)
  BY <1>1, <1>2
<1>4. DataType'
  BY <1>1, <1>2 DEF DataType
<1>5. FetchInv' /\ WireInv'
  BY <1>1 DEF FetchInv, WireInv
<1>6. NoSpoolLoss'
  <2> SUFFICES ASSUME NEW a \in arrived', a \notin delivered'
               PROVE  \E i \in 1 .. Len(spool') : spool'[i] = a
    BY DEF NoSpoolLoss
  <2>1. CASE a = m
    BY <1>2, <2>1
  <2>2. CASE a # m
    <3>1. PICK i \in 1 .. Len(spool) : spool[i] = a
      BY <1>1, <2>2 DEF SpoolInv, NoSpoolLoss
    <3> QED BY <1>2, <3>1
  <2> QED BY <2>1, <2>2
<1>7. SpoolInv'
  BY <1>1, <1>3, <1>6 DEF SpoolInv, Fits
<1> QED BY <1>4, <1>5, <1>7

(* The Provider sends a NoOp or a Disconnect.                              *)
LEMMA DataUnsolicited == ASSUME DataInv, Unsolicited PROVE DataInv'
<1> USE DEF DataInv, DeliveryInv
<1>1. /\ UNCHANGED <<seq, outstanding, cmd, rcmd, req, spool, provSeq, arrived, delivered,
                     cpc, rpc>>
      /\ rpc # "gone"
  BY DEF Unsolicited, loopVars, readVars, spoolVars, callVars
<1>2. PICK c \in Command : inbox' = <<c>> /\ ~IsReply(c)
  BY BareCommands DEF Unsolicited
<1>3. inbox' \in Seq(Command) /\ \A i \in 1 .. Len(inbox') : ~IsReply(inbox'[i])
  BY <1>2
<1>4. DataType'
  BY <1>1, <1>3 DEF DataType
<1>5. FetchInv'
  BY <1>1, <1>3 DEF FetchInv
<1>6. SpoolInv'
  BY <1>1, <1>3 DEF SpoolInv, NoSpoolLoss, Fits
<1>7. WireInv'
  BY <1>1 DEF WireInv
<1> QED BY <1>4, <1>5, <1>6, <1>7

(* The Provider answers the one request, and drops an item only if it has  *)
(* been delivered.                                                         *)
LEMMA DataServe == ASSUME DataInv, Serve PROVE DataInv'
<1> DEFINE s == Head(req)
           left == IF s > provSeq /\ spool # <<>> THEN Tail(spool) ELSE spool
           type == IF left = <<>> THEN "MessageEmpty"
                   ELSE IF Head(left) \in Surb THEN "MessageACK" ELSE "Message"
           c == [type |-> type, seq |-> s, last |-> Len(left) = 1,
                 item |-> IF left = <<>> THEN None ELSE Head(left)]
<1> USE DEF DataInv, DeliveryInv
<1>1. /\ UNCHANGED <<seq, outstanding, cmd, rcmd, arrived, delivered, cpc, rpc>>
      /\ req # <<>> /\ req' = Tail(req) /\ spool' = left /\ provSeq' = s
      /\ inbox' = Append(inbox, c)
  BY DEF Serve, loopVars, readVars, callVars
<1>2. /\ s = seq /\ req' = <<>> /\ outstanding = 1 /\ ~IsReply(rcmd) /\ ~IsReply(cmd)
      /\ \A i \in 1 .. Len(inbox) : ~IsReply(inbox[i])
  <2>1. req \in Seq(Nat) /\ Len(req) = 1 /\ req[1] = seq
    BY <1>1 DEF FetchInv, DataType
  <2>2. s = seq
    BY <2>1
  <2>3. Tail(req) = <<>>
    <3>1. Tail(req) \in Seq(Nat) /\ Len(Tail(req)) = 0
      BY <2>1
    <3> QED BY <3>1, EmptySeq, ZenonT(30)
  <2>4. /\ outstanding = 1 /\ ~IsReply(rcmd) /\ ~IsReply(cmd)
        /\ \A i \in 1 .. Len(inbox) : ~IsReply(inbox[i])
    BY <1>1 DEF FetchInv
  <2> QED BY <1>1, <2>2, <2>3, <2>4
<1>3. left \in Seq(Item) /\ seq \in Nat /\ provSeq \in Nat
  BY DEF DataType
<1>4. c \in Command /\ IsReply(c) /\ c.seq = seq
      /\ (c.item # None => left # <<>> /\ c.item = Head(left))
  <2>1. left # <<>> => Head(left) \in Item
    BY <1>3
  <2>2. (Len(left) = 1) \in BOOLEAN
    OBVIOUS
  <2> HIDE DEF left
  <2> QED BY <1>2, <1>3, <2>1, <2>2, ZenonT(30) DEF Command, IsReply, Replies
<1>5. \A a \in arrived : a \in delivered \/ \E i \in 1 .. Len(left) : left[i] = a
  <2>1. CASE left = spool
    BY <2>1 DEF SpoolInv, NoSpoolLoss
  <2>2. CASE left # spool
    <3>1. spool \in Seq(Item) /\ spool # <<>> /\ left = Tail(spool) /\ s > provSeq
      BY <2>2 DEF DataType
    <3>2. Head(spool) \in delivered
      BY <1>2, <1>3, <3>1 DEF SpoolInv
    <3>3. \A i \in 1 .. Len(spool) : spool[i] = Head(spool)
                                     \/ \E j \in 1 .. Len(left) : left[j] = spool[i]
      <4> SUFFICES ASSUME NEW i \in 1 .. Len(spool), i # 1
                   PROVE  i - 1 \in 1 .. Len(left) /\ left[i - 1] = spool[i]
        BY <3>1
      <4> QED BY <3>1
    <3> QED BY <3>2, <3>3, ZenonT(30) DEF SpoolInv, NoSpoolLoss
  <2> QED BY <2>1, <2>2, ZenonT(30)
<1> HIDE DEF c, left, s
<1>6. inbox \in Seq(Command)
  BY DEF DataType
<1>7. /\ inbox' \in Seq(Command) /\ Len(inbox') = Len(inbox) + 1 /\ Len(inbox) \in Nat
      /\ inbox'[Len(inbox) + 1] = c /\ \A i \in 1 .. Len(inbox) : inbox'[i] = inbox[i]
  BY <1>1, <1>4, <1>6, Inboxed
<1>8. \A i \in 1 .. Len(inbox') : IsReply(inbox'[i]) => i = Len(inbox) + 1
  BY <1>2, <1>7
<1>9. DataType'
  BY <1>1, <1>2, <1>3, <1>7 DEF DataType
<1>10. FetchInv'
  BY <1>1, <1>2, <1>4, <1>7, <1>8, ZenonT(60) DEF FetchInv
<1>11. SpoolInv'
  BY <1>1, <1>2, <1>4, <1>5, <1>7, <1>8, ZenonT(30) DEF SpoolInv, NoSpoolLoss, Fits
<1>12. WireInv'
  BY <1>1 DEF WireInv
<1> QED BY <1>9, <1>10, <1>11, <1>12

(* DataInv is kept by every step.                                          *)
LEMMA DataKept == DataInv /\ [Next]_vars => DataInv'
<1> SUFFICES ASSUME DataInv, [Next]_vars PROVE DataInv'
  OBVIOUS
<1>1. CASE ConnectStep \/ StopConnect \/ CancelConnect \/ Teardown
  BY <1>1, DataControl, DataReset, Zenon DEF Teardown
<1>2. CASE LoopStep \/ CheckStep
  BY <1>2, DataControl, DataFetch, DataTake, DataHandle, Zenon DEF LoopStep, CheckStep
<1>3. CASE ReaderStep
  BY <1>3, DataControl, DataReceive, DataTake, Zenon DEF ReaderStep
<1>4. CASE Environment
  BY <1>4, DataControl, DataServe, DataUnsolicited, DataArrive, Zenon DEF Environment
<1>5. CASE UNCHANGED vars \/ (\E c \in Item \cup {Empty} : CallbackReturns(c))
                          \/ (\E s \in Sender : SendStep(s))
  BY <1>5, DataControl, Zenon
<1> QED BY <1>1, <1>2, <1>3, <1>4, <1>5, Zenon DEF Next
-----------------------------------------------------------------------------
(* ConnInv is inductive.                                                   *)
THEOREM ConnInvariant == Spec => []ConnInv
<1>1. ConnInv /\ [Next]_vars => ConnInv'
  <2> SUFFICES ASSUME ConnInv, [Next]_vars PROVE ConnInv'
    OBVIOUS
  <2>1. DataInv /\ FlagType /\ PlaceType /\ CountType
    BY TypeParts DEF ConnInv, DataInv
  <2>2. DataInv'
    BY <2>1, DataKept
  <2>3. FlagType' /\ PlaceType' /\ CountType'
    BY <2>1, FlagKept, PlaceKept, CountKept DEF DataInv
  <2>4. TypeOK'
    BY <2>2, <2>3, Zenon DEF DataInv, TypeOK, DataType, FlagType, PlaceType, CountType
  <2>5. ApartInv' /\ SendInv' /\ DelayInv'
    BY ApartStep, SendKept, DelayStep DEF ConnInv
  <2> QED BY <2>2, <2>4, <2>5 DEF ConnInv, DataInv
<1> QED BY ConnInit, <1>1, PTL DEF Spec

(* No item that leaves the Provider's spool is lost                        *)
(* (minclient/connection.go, onWireConn), however often the connection is  *)
(* lost and whatever was on the wire.                                      *)
THEOREM SpoolNeverLost == Spec => []NoSpoolLoss
<1>1. ConnInv => NoSpoolLoss
  BY DEF ConnInv, DeliveryInv, SpoolInv
<1> QED BY <1>1, ConnInvariant, PTL

(* checkSeq (minclient/connection.go, onWireConn) accepts every reply of a *)
(* correct Provider.                                                       *)
THEOREM SequenceRight == Spec => []SequenceAgrees
<1>1. ConnInv => SequenceAgrees
  BY DEF ConnInv, DeliveryInv, FetchInv, SequenceAgrees, InTransit, IsReply
<1> QED BY <1>1, ConnInvariant, PTL

(* doConnect waits no longer than maxRetryDelay                            *)
(* (minclient/connection.go, doConnect), for every increment and maximum.  *)
THEOREM DelayBounded == Spec => []RetryBounded
<1>1. ConnInv => RetryBounded
  BY DEF ConnInv, DelayInv, RetryBounded
<1> QED BY <1>1, ConnInvariant, PTL

(* Connections and their callbacks do not overlap                          *)
(* (minclient/connection.go, onWireConn and onConnStatusChange).           *)
THEOREM NoOverlap == Spec => []ConnectionsApart
<1>1. ConnInv => ConnectionsApart
  BY DEF ConnInv, ApartInv
<1> QED BY <1>1, ConnInvariant, PTL

(* sendPacket reports what became of its packet                            *)
(* (minclient/connection.go, sendPacket), for any number of senders.       *)
THEOREM SendsTruthful == Spec => []SendTruthful
<1>1. ConnInv => SendTruthful
  BY DEF ConnInv, SendInv, SendTruthful
<1> QED BY <1>1, ConnInvariant, PTL
-----------------------------------------------------------------------------
(* Who waits for whom.                                                     *)

\* From onConnStatusChange(nil) to onConnStatusChange(wireErr).
Up == {"announce", "loop", "done", "check", "closing"}

\* sendPacket holds the lock from its check of isConnected until the loop has
\* taken its packet, and finds a connection that is up; the loop then waits
\* for that sender.
LockInv ==
    /\ \A s \in Sender : lock = s <=> spc[s] \in {"enqueue", "unlock"}
    /\ isConnected \/ lock # None => cpc \in Up
    /\ cpc = "done" => serving \in Sender /\ spc[serving] \in {"unlock", "wait"}

\* The sender holds the lock until the loop takes its packet, and the loop is
\* left: onConnStatusChange waits for the lock.
Deadlocked(s) == spc[s] = "enqueue" /\ lock = s /\ cpc = "closing"

\* The connection has a step to take that serves a sender, or is about to.
LoopCan ==
    \/ cpc \in {"announce", "check"}
    \/ cpc = "loop" /\ \E s \in Sender : spc[s] = "enqueue"
    \/ cpc = "done" /\ spc[serving] = "wait"

\* Only the sender that Deadlocked describes waits for nobody who can go on,
\* and only for it onConnStatusChange waits.
SendersServed ==
    /\ \A s \in Sender : spc[s] \in {"enqueue", "unlock", "wait"} =>
           LoopCan \/ Deadlocked(s) \/ \E t \in Sender : spc[t] = "unlock"
    /\ lock # None /\ cpc \in {"status", "closing", "again"} => Deadlocked(lock)

(* A step that leaves the senders and the lock alone, and takes the        *)
(* connection neither down nor to a sender.                                *)
LEMMA LockUntouched ==
    ASSUME LockInv, UNCHANGED <<lock, isConnected, spc>>, cpc \in Up => cpc' \in Up,
           cpc' = "done" => cpc = "done" /\ serving' = serving
    PROVE  LockInv'
BY DEF LockInv

(* Every step keeps LockInv.                                               *)
LEMMA LockKept == ASSUME TypeOK, LockInv, [Next]_vars PROVE LockInv'
<1> USE DEF ConnAt, statusVars, loopVars, sendVars
<1>0. /\ spc \in [Sender -> SendStates] /\ None \notin Sender
      /\ isConnected \in BOOLEAN /\ lock \in Sender \cup {None}
  BY Zenon, ItemAssumption DEF TypeOK
<1>1. CASE ConnectStep /\ ~Connected /\ ~StartReader
  <2>1. /\ UNCHANGED <<lock, isConnected, spc>> /\ cpc' # "done"
        /\ cpc \in Connecting
    BY ZenonT(60), <1>1 DEF ConnectStep, FlushTimer, Descriptor, Backoff, RaiseDelay,
       LoadDelay, StoreDelay, Dial, Handshake, Connecting
  <2> QED BY <2>1, LockUntouched DEF Up, Connecting
<1>2. CASE StartReader
  BY <1>2, LockUntouched DEF StartReader, Up
<1>3. CASE StopConnect \/ CancelConnect \/ CloseCmdCh \/ WireClosed
  <2>1. /\ UNCHANGED <<lock, isConnected, spc>> /\ cpc' # "done"
        /\ cpc \in {"flush", "delay", "dial", "down", "drain"}
    BY ZenonT(60), <1>3 DEF StopConnect, CancelConnect, CloseCmdCh, WireClosed
  <2> QED BY <2>1, LockUntouched DEF Up
<1>4. CASE Fetch \/ TakeCommand \/ TakeReadError \/ LeaveLoop \/ CheckStep
  <2>1. /\ UNCHANGED <<lock, isConnected, spc>> /\ cpc' \in {"loop", "check", "closing"}
    BY ZenonT(60), <1>4 DEF Fetch, TakeCommand, TakeReadError, LeaveLoop, CheckStep,
       DropCommand, PeerInvalid, HandleCommand
  <2> QED BY <2>1, LockUntouched DEF Up
<1>5. CASE Connected \/ Disconnected \/ Reconnect
  <2>1. /\ lock = None /\ UNCHANGED <<lock, spc>> /\ cpc' # "done"
        /\ isConnected' => cpc' = "announce"
    BY ZenonT(60), <1>5 DEF Connected, Disconnected, Reconnect, StatusChange, StatusOf
  <2> QED BY <2>1 DEF LockInv, Up
<1>6. CASE ReaderStep \/ Environment \/ UNCHANGED vars
           \/ (\E c \in Item \cup {Empty} : CallbackReturns(c))
  <2>1. UNCHANGED <<lock, isConnected, spc, cpc, serving>>
    BY ZenonT(60), <1>6 DEF ReaderStep, Receive, ClearDelay, ReaderReturns, Environment,
       ForceFetch, Serve, Unsolicited, NewEpoch, Halt, Arrive, CallbackReturns, vars
  <2> QED BY <2>1, LockUntouched
<1>7. ASSUME NEW s \in Sender, TakePacket(s) PROVE LockInv'
  <2>1. /\ spc[s] = "enqueue" /\ spc' = [spc EXCEPT ![s] = "unlock"] /\ serving' = s
        /\ cpc' = "done" /\ UNCHANGED <<lock, isConnected>>
    BY Zenon, <1>7 DEF TakePacket
  <2> QED BY <1>0, <2>1 DEF LockInv, Up
<1>8. CASE DonePacket
  <2>1. /\ cpc = "done" /\ spc[serving] = "wait" /\ cpc' \in {"loop", "closing"}
        /\ spc' = [spc EXCEPT ![serving] = SendVerdict] /\ UNCHANGED <<lock, isConnected>>
    BY Zenon, <1>8 DEF DonePacket
  <2>2. SendVerdict \notin {"enqueue", "unlock"}
    BY DEF SendVerdict
  <2> QED BY <1>0, <2>1, <2>2 DEF LockInv, Up
<1>9. ASSUME NEW s \in Sender, sendPacket(s) PROVE LockInv'
  <2>1. /\ spc[s] = "idle" /\ lock = None /\ UNCHANGED <<isConnected, cpc, serving>>
        /\ \/ lock' = lock /\ spc' = [spc EXCEPT ![s] = "refused"]
           \/ isConnected /\ lock' = s /\ spc' = [spc EXCEPT ![s] = "enqueue"]
    BY Zenon, <1>9 DEF sendPacket
  <2> QED BY <1>0, <2>1 DEF LockInv
<1>10. ASSUME NEW s \in Sender, AwaitVerdict(s) PROVE LockInv'
  <2>1. /\ spc[s] = "unlock" /\ lock' = None /\ UNCHANGED <<isConnected, cpc, serving>>
        /\ spc' = [spc EXCEPT ![s] = "wait"]
    BY Zenon, <1>10 DEF AwaitVerdict
  <2> QED BY <1>0, <2>1 DEF LockInv
<1> QED BY Zenon, <1>1, <1>2, <1>3, <1>4, <1>5, <1>6, <1>7, <1>8, <1>9, <1>10
        DEF Next, LoopStep, Teardown, SendStep, ConnectStep

(* sendPacket and onConnStatusChange wait for each other in one way only   *)
(* (minclient/connection.go, sendPacket and onWireConn), for any number of *)
(* senders: a sender that waits has the loop or another sender at work for *)
(* it, unless it holds the lock with its packet not taken when the loop is *)
(* left; and a status change waits for the lock only then.                 *)
THEOREM OnlyOneDeadlock == Spec => []SendersServed
<1>1. Init => LockInv
  BY ItemAssumption DEF Init, LockInv
<1>2. ConnInv /\ LockInv /\ [Next]_vars => LockInv'
  BY LockKept DEF ConnInv
<1>3. ConnInv /\ LockInv => SendersServed
  <2> SUFFICES ASSUME ConnInv, LockInv PROVE SendersServed
    OBVIOUS
  <2>0. lock \in Sender \cup {None} /\ None \notin Sender
    BY ItemAssumption DEF ConnInv, TypeOK
  <2>1. ASSUME NEW s \in Sender, spc[s] \in {"enqueue", "unlock", "wait"}
        PROVE  LoopCan \/ Deadlocked(s) \/ \E t \in Sender : spc[t] = "unlock"
    <3>1. cpc = "done" => spc[serving] \in {"unlock", "wait"} /\ serving \in Sender
      BY DEF LockInv
    <3>2. CASE spc[s] = "enqueue"
      <4>1. lock = s /\ cpc \in Up
        BY <2>0, <3>2 DEF LockInv
      <4> QED BY <3>1, <3>2, <4>1 DEF LoopCan, Deadlocked, Up
    <3>3. CASE spc[s] \in {"unlock", "wait"}
      BY <3>1, <3>3 DEF ConnInv, SendInv, LoopCan
    <3> QED BY <2>1, <3>2, <3>3
  <2>2. ASSUME lock # None, cpc \in {"status", "closing", "again"} PROVE Deadlocked(lock)
    <3>1. lock \in Sender /\ cpc = "closing" /\ spc[lock] \in {"enqueue", "unlock"}
      BY <2>0, <2>2 DEF LockInv, Up
    <3>2. spc[lock] # "unlock"
      BY <3>1 DEF ConnInv, SendInv
    <3> QED BY <3>1, <3>2 DEF Deadlocked
  <2> QED BY <2>1, <2>2 DEF SendersServed
<1> QED BY <1>1, <1>2, <1>3, ConnInvariant, PTL DEF Spec
=============================================================================
