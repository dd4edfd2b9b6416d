----------------------------- MODULE Connection -----------------------------
(***************************************************************************)
(* minclient/connection.go: the connection to the Provider.  Goroutines:   *)
(* the connect worker (connectWorker, doConnect, onTCPConn, onWireConn),   *)
(* the peer reader it starts per connection, the callbacks it starts per   *)
(* command, the callers of sendPacket and ForceFetch, and the Provider.    *)
(*                                                                         *)
(* What may fail (descriptor, dial, handshake, peer check, reads, writes,  *)
(* callbacks) does so at most MaxFaults times.  The two counters nrReqs    *)
(* and nrResps appear as their difference.  No code sends on               *)
(* getConsensusCh, so a Consensus command is always spurious: it ends the  *)
(* connection, as Disconnect and unknown commands do.                      *)
(***************************************************************************)
EXTENDS Naturals, Sequences, FiniteSets

CONSTANTS
    Sender,           \* the callers of sendPacket
    Item,             \* what arrives in the user's spool
    Surb,             \* the items that are SURB replies (MessageACK)
    None,             \* nobody, nothing
    Empty,            \* the OnEmptyFn callback
    RetryIncrement, MaxRetryDelay,
    MaxFaults,
    MayHalt           \* whether Shutdown may be called

ASSUME ItemAssumption ==
    /\ Surb \subseteq Item /\ Empty \notin Item
    /\ None \notin Sender \cup Item \cup {Empty}
ASSUME DelayAssumption ==
    /\ RetryIncrement \in Nat /\ MaxRetryDelay \in Nat /\ MaxFaults \in Nat
    /\ MayHalt \in BOOLEAN

VARIABLES
    cpc,              \* the connect worker: where it is
    fresh,            \* pkiEpoch is the current epoch
    retryDelay, over, \* the back-off; what doConnect's Load found
    lock,             \* who holds the connection's mutex
    isConnected,
    notified,         \* what OnConnFn was last told
    seq, outstanding, \* onWireConn: seq, nrReqs - nrResps
    cmd,              \* onWireConn: the command being handled
    serving, sendErr, \* onWireConn: the ctx from sendCh, SendCommand's error
    fetchCh, closeConnCh,
    running,          \* the callbacks cbWg counts
    rpc, rcmd,        \* the reader: where it is, what it read
    straggler,        \* an old reader has not yet cleared retryDelay
    spc, written,     \* the senders; the packets SendCommand wrote
    req, inbox,       \* on the wire: fetch requests, the Provider's commands
    spool, provSeq,   \* the Provider: the spool, the sequence it serves
    arrived, delivered,
    faults, halted

statusVars == <<lock, isConnected, notified>>
loopVars   == <<seq, outstanding, cmd, serving, sendErr, closeConnCh>>
backVars   == <<retryDelay, over, straggler>>
readVars   == <<rpc, rcmd>>
sendVars   == <<spc, written>>
wireVars   == <<req, inbox>>
spoolVars  == <<spool, provSeq, arrived>>
callVars   == <<running, delivered>>
vars == <<cpc, fresh, statusVars, loopVars, backVars, fetchCh, readVars,
          sendVars, wireVars, spoolVars, callVars, faults, halted>>

Command == [type : {"NoOp", "Disconnect", "MessageEmpty", "Message", "MessageACK"},
            seq : Nat, item : Item \cup {None}, last : BOOLEAN]
Replies == {"MessageEmpty", "Message", "MessageACK"}
Bare(type) == [type |-> type, seq |-> 0, item |-> None, last |-> FALSE]

\* Outside onWireConn.
Connecting == {"flush", "top", "delay", "add", "load", "store", "dial", "handshake"}
ConnStates == Connecting \cup {"status", "announce", "loop", "done", "check",
                               "closing", "down", "drain", "again", "stopped"}
SendStates == {"idle", "enqueue", "unlock", "wait", "sent", "failed", "refused"}

Init ==
    /\ cpc = "flush" /\ fresh = FALSE
    /\ retryDelay = 0 /\ over = FALSE /\ straggler = FALSE
    /\ lock = None /\ isConnected = FALSE /\ notified = FALSE
    /\ seq = 0 /\ outstanding = 0 /\ cmd = Bare("NoOp")
    /\ serving = None /\ sendErr = FALSE /\ closeConnCh = FALSE /\ fetchCh = 0
    /\ running = {} /\ rpc = "gone" /\ rcmd = Bare("NoOp")
    /\ spc = [s \in Sender |-> "idle"] /\ written = {}
    /\ req = <<>> /\ inbox = <<>> /\ spool = <<>> /\ provSeq = 0
    /\ arrived = {} /\ delivered = {} /\ faults = 0 /\ halted = FALSE

ConnAt(from, to) == cpc = from /\ cpc' = to
Fault == faults < MaxFaults /\ faults' = faults + 1
-----------------------------------------------------------------------------
(* connectWorker and doConnect.                                            *)

\* connectWorker: the flush timer fired.  A new epoch: getDescriptor, connect.
FlushTimer ==
    /\ cpc = "flush" /\ ~fresh
    /\ \/ fresh' = TRUE /\ cpc' = "top" /\ UNCHANGED <<notified, faults>>
       \/ Fault /\ notified' = FALSE /\ UNCHANGED <<fresh, cpc>>
    /\ UNCHANGED <<lock, isConnected, loopVars, backVars, fetchCh, readVars,
                   sendVars, wireVars, spoolVars, callVars, halted>>

\* connectWorker: HaltCh.
StopConnect ==
    /\ halted /\ ConnAt("flush", "stopped")
    /\ UNCHANGED <<fresh, statusVars, loopVars, backVars, fetchCh, readVars,
                   sendVars, wireVars, spoolVars, callVars, faults, halted>>

\* doConnect: getDescriptor and the list of addresses.  Without a descriptor
\* pkiEpoch is reset; without an address it is kept till the next document.
Descriptor ==
    /\ cpc = "top"
    /\ \/ fresh' = TRUE /\ cpc' = "delay" /\ UNCHANGED <<notified, faults>>
       \/ Fault /\ fresh' \in BOOLEAN /\ cpc' = "flush" /\ notified' = FALSE
    /\ UNCHANGED <<lock, isConnected, loopVars, backVars, fetchCh, readVars,
                   sendVars, wireVars, spoolVars, callVars, halted>>

\* doConnect: the delay has passed.
Backoff ==
    /\ ConnAt("delay", "add")
    /\ UNCHANGED <<fresh, statusVars, loopVars, backVars, fetchCh, readVars,
                   sendVars, wireVars, spoolVars, callVars, faults, halted>>

\* doConnect: HaltCh, during the delay or seen after the dial.
CancelConnect ==
    /\ cpc' = "flush" /\ notified' = FALSE
    /\ cpc \in {"delay", "dial"} /\ halted
    /\ UNCHANGED <<fresh, lock, isConnected, loopVars, backVars, fetchCh, readVars,
                   sendVars, wireVars, spoolVars, callVars, faults, halted>>

\* doConnect: retryDelay is raised and clamped in three atomic accesses, with
\* the reader free to clear it in between.
RaiseDelay ==
    /\ ConnAt("add", "load")
    /\ retryDelay' = retryDelay + RetryIncrement
    /\ UNCHANGED <<fresh, statusVars, loopVars, over, straggler, fetchCh, readVars,
                   sendVars, wireVars, spoolVars, callVars, faults, halted>>

\* Mutant: the limit itself is taken for exceeded only one increment later.
ExceedsLate(d) == d > MaxRetryDelay + RetryIncrement

Exceeds(d) == d > MaxRetryDelay

LoadDelay ==
    /\ ConnAt("load", "store")
    /\ over' = Exceeds(retryDelay)
    /\ UNCHANGED <<fresh, statusVars, loopVars, retryDelay, straggler, fetchCh,
                   readVars, sendVars, wireVars, spoolVars, callVars, faults, halted>>

StoreDelay ==
    /\ ConnAt("store", "dial")
    /\ retryDelay' = IF over THEN MaxRetryDelay ELSE retryDelay
    /\ over' = FALSE
    /\ UNCHANGED <<fresh, statusVars, loopVars, straggler, fetchCh, readVars,
                   sendVars, wireVars, spoolVars, callVars, faults, halted>>

\* doConnect: dialFn.  After a failure: the next address, or from the top.
Dial ==
    /\ cpc = "dial" /\ ~halted
    /\ \/ cpc' = "handshake" /\ UNCHANGED <<notified, faults>>
       \/ Fault /\ notified' = FALSE /\ cpc' \in {"delay", "top"}
    /\ UNCHANGED <<fresh, lock, isConnected, loopVars, backVars, fetchCh, readVars,
                   sendVars, wireVars, spoolVars, callVars, halted>>

\* onTCPConn: the session is set up and the handshake made, which asks
\* IsPeerValid and with it refreshes the descriptor.
Handshake ==
    /\ cpc = "handshake"
    /\ \/ cpc' = "status" /\ fresh' = TRUE /\ UNCHANGED <<notified, faults>>
       \/ Fault /\ notified' = FALSE /\ cpc' = "again" /\ fresh' \in BOOLEAN
    /\ UNCHANGED <<lock, isConnected, loopVars, backVars, fetchCh, readVars,
                   sendVars, wireVars, spoolVars, callVars, halted>>
-----------------------------------------------------------------------------
(* onConnStatusChange and onWireConn.                                      *)

StatusOf(up) == up

\* onConnStatusChange under the lock.  On a disconnection fetchCh is drained;
\* sendCh has nothing to drain, as a sender that waits on it holds the lock.
StatusChange(from, up, to) ==
    /\ lock = None /\ ConnAt(from, to)
    /\ isConnected' = StatusOf(up)
    /\ fetchCh' = IF up THEN fetchCh ELSE 0
    /\ UNCHANGED <<fresh, lock, loopVars, backVars, readVars, sendVars, wireVars,
                   spoolVars, callVars, faults, halted>>

Connected == StatusChange("status", TRUE, "announce") /\ UNCHANGED notified

\* onConnStatusChange's OnConnFn(nil); the reader and the loop start.
StartReader ==
    /\ ConnAt("announce", "loop")
    /\ notified' = TRUE /\ rpc' = "recv"
    /\ seq' = 0 /\ outstanding' = 0 /\ provSeq' = 0 /\ closeConnCh' = FALSE
    /\ UNCHANGED <<fresh, lock, isConnected, cmd, serving, sendErr, backVars, fetchCh,
                   rcmd, sendVars, wireVars, spool, arrived, callVars, faults, halted>>

\* Mutant: a fetch is sent although one is outstanding.
FetchAgain == TRUE

NoFetchOutstanding == outstanding = 0

\* onWireConn: a fetch, because fetchDelay passed or ForceFetch poked.
Fetch ==
    /\ cpc = "loop"
    /\ fetchCh' \in {fetchCh} \cup (IF fetchCh > 0 THEN {fetchCh - 1} ELSE {})
    /\ \/ /\ ~NoFetchOutstanding /\ fetchCh' # fetchCh
          /\ UNCHANGED <<req, outstanding, cpc, faults>>
       \/ /\ NoFetchOutstanding
          /\ req' = Append(req, seq) /\ outstanding' = outstanding + 1
          /\ UNCHANGED <<cpc, faults>>
       \/ /\ NoFetchOutstanding /\ Fault /\ cpc' = "closing"
          /\ UNCHANGED <<req, outstanding>>
    /\ UNCHANGED <<fresh, statusVars, seq, cmd, serving, sendErr, closeConnCh, backVars,
                   readVars, sendVars, inbox, spoolVars, callVars, halted>>

\* onWireConn: ctx := <-sendCh, and SendCommand.
TakePacket(s) ==
    /\ ConnAt("loop", "done") /\ spc[s] = "enqueue"
    /\ spc' = [spc EXCEPT ![s] = "unlock"] /\ serving' = s
    /\ \/ sendErr' = FALSE /\ written' = written \cup {s} /\ UNCHANGED faults
       \/ Fault /\ sendErr' = TRUE /\ UNCHANGED written
    /\ UNCHANGED <<fresh, statusVars, seq, outstanding, cmd, closeConnCh, backVars,
                   fetchCh, readVars, wireVars, spoolVars, callVars, halted>>

\* Mutant: doneFn is told of a success whatever happened.
VerdictAlwaysSent == "sent"

SendVerdict == IF sendErr THEN "failed" ELSE "sent"

\* onWireConn: ctx.doneFn(wireErr), a rendezvous with the sender.
DonePacket ==
    /\ cpc = "done" /\ spc[serving] = "wait"
    /\ spc' = [spc EXCEPT ![serving] = SendVerdict]
    /\ cpc' = IF sendErr THEN "closing" ELSE "loop"
    /\ serving' = None /\ sendErr' = FALSE
    /\ UNCHANGED <<fresh, statusVars, seq, outstanding, cmd, closeConnCh, backVars, fetchCh,
                   readVars, written, wireVars, spoolVars, callVars, faults, halted>>

\* onWireConn: tmp := <-cmdCh is a command.
TakeCommand ==
    /\ ConnAt("loop", "check") /\ rpc = "hand"
    /\ rpc' = "recv" /\ cmd' = rcmd /\ rcmd' = Bare("NoOp")
    /\ UNCHANGED <<fresh, statusVars, seq, outstanding, serving, sendErr, closeConnCh,
                   backVars, fetchCh, sendVars, wireVars, spoolVars, callVars,
                   faults, halted>>

\* onWireConn: tmp := <-cmdCh is an error.
TakeReadError ==
    /\ ConnAt("loop", "closing") /\ rpc = "error" /\ rpc' = "gone"
    /\ UNCHANGED <<fresh, statusVars, loopVars, backVars, fetchCh, rcmd, sendVars,
                   wireVars, spoolVars, callVars, faults, halted>>

\* Mutant: the loop does not watch HaltCh.
LoopDeaf == closeConnCh

LoopEnds == halted \/ closeConnCh

\* onWireConn: HaltCh, or an error from a callback.
LeaveLoop ==
    /\ LoopEnds
    /\ ConnAt("loop", "closing")
    /\ UNCHANGED <<fresh, statusVars, loopVars, backVars, fetchCh, readVars, sendVars,
                   wireVars, spoolVars, callVars, faults, halted>>

\* onWireConn: PeerCredentials fails once the reader met an error: the command
\* is dropped and the error follows on cmdCh.
DropCommand ==
    /\ ConnAt("check", "loop") /\ rpc = "error"
    /\ cmd' = Bare("NoOp")
    /\ UNCHANGED <<fresh, statusVars, seq, outstanding, serving, sendErr, closeConnCh,
                   backVars, fetchCh, readVars, sendVars, wireVars, spoolVars,
                   callVars, faults, halted>>

\* onWireConn: IsPeerValid fails, for want of a descriptor or for its keys.
PeerInvalid ==
    /\ ConnAt("check", "closing") /\ Fault
    /\ fresh' \in BOOLEAN /\ cmd' = Bare("NoOp")
    /\ UNCHANGED <<statusVars, seq, outstanding, serving, sendErr, closeConnCh, backVars,
                   fetchCh, readVars, sendVars, wireVars, spoolVars, callVars, halted>>

\* Mutant: an empty spool advances the sequence.
AdvanceAlways(c) == seq + 1

\* The sequence of the next fetch: a message is acknowledged by seq++.
Advance(c) == IF c.item = None THEN seq ELSE seq + 1

\* Mutant: MessageEmpty is not counted in nrResps.
AnsweredUnlessEmpty(c) == IF c.item = None THEN outstanding ELSE outstanding - 1

Answered(c) == outstanding - 1

\* The callbacks a reply starts; QueueSizeHint 0 also starts OnEmptyFn.
Callbacks(c) ==
    (IF c.item = None THEN {} ELSE {c.item})
        \cup (IF c.type = "MessageEmpty" \/ (c.type = "Message" /\ c.last)
                THEN {Empty} ELSE {})

\* onWireConn: the peer is valid and the command is handled.
HandleCommand ==
    /\ cpc = "check" /\ fresh' = TRUE /\ cmd' = Bare("NoOp")
    /\ \/ /\ cmd.type = "NoOp" /\ cpc' = "loop"
          /\ UNCHANGED <<seq, outstanding, running, delivered>>
       \/ /\ cmd.type = "Disconnect" \/ (cmd.type \in Replies /\ cmd.seq # seq)
          /\ cpc' = "closing"
          /\ UNCHANGED <<seq, outstanding, running, delivered>>
       \/ /\ cmd.type \in Replies /\ cmd.seq = seq
          /\ cpc' = "loop"
          /\ seq' = Advance(cmd) /\ outstanding' = Answered(cmd)
          /\ running' = running \cup Callbacks(cmd)
          /\ delivered' = delivered \cup (Callbacks(cmd) \ {Empty})
    /\ UNCHANGED <<statusVars, serving, sendErr, closeConnCh, backVars, fetchCh, readVars,
                   sendVars, wireVars, spoolVars, faults, halted>>

\* onWireConn's teardown: onConnStatusChange(wireErr), OnConnFn(wireErr) and
\* close(cmdCloseCh), cbWg.Wait.
Disconnected == StatusChange("closing", FALSE, "down") /\ UNCHANGED notified
CloseCmdCh ==
    /\ ConnAt("down", "drain") /\ notified' = FALSE
    /\ UNCHANGED <<fresh, lock, isConnected, loopVars, backVars, fetchCh, readVars,
                   sendVars, wireVars, spoolVars, callVars, faults, halted>>

\* Mutant: the callbacks are not waited for.
NotWaited == TRUE

CallbacksDone == running = {}

\* cbWg.Wait has returned: onWireConn and onTCPConn return, closing the wire.
WireClosed ==
    /\ ConnAt("drain", "again") /\ CallbacksDone
    /\ straggler' = (straggler \/ rpc = "reset")
    /\ rpc' = "gone" /\ rcmd' = Bare("NoOp") /\ req' = <<>> /\ inbox' = <<>>
    /\ seq' = 0 /\ outstanding' = 0 /\ provSeq' = 0 /\ closeConnCh' = FALSE
    /\ UNCHANGED <<fresh, statusVars, cmd, serving, sendErr, retryDelay, over, fetchCh,
                   sendVars, spool, arrived, callVars, faults, halted>>

\* doConnect: onConnStatusChange(ErrNotConnected), again.
Reconnect == StatusChange("again", FALSE, "top") /\ notified' = FALSE
-----------------------------------------------------------------------------
(* The reader, the callbacks and the callers.                              *)

\* RecvCommand returns a command, or an error.
Receive ==
    /\ rpc = "recv"
    /\ \/ /\ inbox # <<>> /\ rcmd' = Head(inbox) /\ inbox' = Tail(inbox)
          /\ rpc' = "reset" /\ UNCHANGED faults
       \/ Fault /\ rpc' = "error" /\ UNCHANGED <<rcmd, inbox>>
    /\ UNCHANGED <<cpc, fresh, statusVars, loopVars, backVars, fetchCh, sendVars, req,
                   spoolVars, callVars, halted>>

\* The reader clears retryDelay; one of a closed connection may do so late.
ClearDelay ==
    /\ \/ rpc = "reset" /\ rpc' = "hand" /\ UNCHANGED straggler
       \/ straggler /\ straggler' = FALSE /\ UNCHANGED rpc
    /\ retryDelay' = 0
    /\ UNCHANGED <<cpc, fresh, statusVars, loopVars, over, fetchCh, rcmd, sendVars,
                   wireVars, spoolVars, callVars, faults, halted>>

\* The reader finds cmdCloseCh closed.
ReaderReturns ==
    /\ rpc = "hand" /\ cpc = "drain" /\ rpc' = "gone" /\ rcmd' = Bare("NoOp")
    /\ UNCHANGED <<cpc, fresh, statusVars, loopVars, backVars, fetchCh, sendVars,
                   wireVars, spoolVars, callVars, faults, halted>>

\* A callback returns; an error makes forceCloseConn poke closeConnCh.
CallbackReturns(c) ==
    /\ c \in running /\ running' = running \ {c}
    /\ \/ UNCHANGED <<closeConnCh, faults>>
       \/ Fault /\ closeConnCh' = TRUE
    /\ UNCHANGED <<cpc, fresh, statusVars, seq, outstanding, cmd, serving, sendErr,
                   backVars, fetchCh, readVars, sendVars, wireVars, spoolVars,
                   delivered, halted>>

Poke == IF fetchCh < 1 THEN fetchCh + 1 ELSE fetchCh

ForceFetch ==
    /\ fetchCh' = Poke
    /\ UNCHANGED <<cpc, fresh, statusVars, loopVars, backVars, readVars, sendVars,
                   wireVars, spoolVars, callVars, faults, halted>>

\* sendPacket: up to the send on sendCh, which it makes holding the lock.
sendPacket(s) ==
    /\ spc[s] = "idle" /\ lock = None
    /\ \/ ~isConnected /\ spc' = [spc EXCEPT ![s] = "refused"] /\ UNCHANGED lock
       \/ isConnected /\ spc' = [spc EXCEPT ![s] = "enqueue"] /\ lock' = s
    /\ UNCHANGED <<cpc, fresh, isConnected, notified, loopVars, backVars, fetchCh,
                   readVars, written, wireVars, spoolVars, callVars, faults, halted>>

\* sendPacket: the lock is released and errCh awaited.
AwaitVerdict(s) ==
    /\ spc[s] = "unlock" /\ spc' = [spc EXCEPT ![s] = "wait"] /\ lock' = None
    /\ UNCHANGED <<cpc, fresh, isConnected, notified, loopVars, backVars, fetchCh,
                   readVars, written, wireVars, spoolVars, callVars, faults, halted>>
-----------------------------------------------------------------------------
(* The Provider, as the client uses it: a fetch with the sequence it last  *)
(* served repeats the head of the spool, the next sequence drops it first. *)

Arrive(m) ==
    /\ m \notin arrived
    /\ spool' = Append(spool, m) /\ arrived' = arrived \cup {m}
    /\ UNCHANGED <<cpc, fresh, statusVars, loopVars, backVars, fetchCh, readVars,
                   sendVars, wireVars, provSeq, callVars, faults, halted>>

Serve ==
    /\ req # <<>> /\ req' = Tail(req)
    /\ LET s == Head(req)
           left == IF s > provSeq /\ spool # <<>> THEN Tail(spool) ELSE spool
           type == IF left = <<>> THEN "MessageEmpty"
                   ELSE IF Head(left) \in Surb THEN "MessageACK" ELSE "Message"
       IN /\ spool' = left /\ provSeq' = s
          /\ inbox' = Append(inbox,
               [type |-> type, seq |-> s, last |-> Len(left) = 1,
                item |-> IF left = <<>> THEN None ELSE Head(left)])
    /\ UNCHANGED <<cpc, fresh, statusVars, loopVars, backVars, fetchCh, readVars,
                   sendVars, arrived, callVars, faults, halted>>

\* A NoOp, or a Disconnect.
Unsolicited ==
    /\ rpc # "gone" /\ inbox = <<>>
    /\ \/ inbox' = <<Bare("NoOp")>> /\ UNCHANGED faults
       \/ Fault /\ inbox' = <<Bare("Disconnect")>>
    /\ UNCHANGED <<cpc, fresh, statusVars, loopVars, backVars, fetchCh, readVars,
                   sendVars, req, spoolVars, callVars, halted>>

\* The epoch changes: pkiEpoch is the old one.
NewEpoch ==
    /\ fresh /\ fresh' = FALSE
    /\ UNCHANGED <<cpc, statusVars, loopVars, backVars, fetchCh, readVars, sendVars,
                   wireVars, spoolVars, callVars, faults, halted>>

Halt ==
    /\ MayHalt /\ ~halted /\ halted' = TRUE
    /\ UNCHANGED <<cpc, fresh, statusVars, loopVars, backVars, fetchCh, readVars,
                   sendVars, wireVars, spoolVars, callVars, faults>>

Teardown == Disconnected \/ CloseCmdCh \/ WireClosed \/ Reconnect
ConnectStep == \/ FlushTimer \/ Descriptor \/ Backoff \/ RaiseDelay \/ LoadDelay
               \/ StoreDelay \/ Dial \/ Handshake \/ Connected \/ StartReader
CheckStep == DropCommand \/ PeerInvalid \/ HandleCommand
LoopStep == \/ Fetch \/ DonePacket \/ TakeCommand \/ TakeReadError \/ LeaveLoop
            \/ \E s \in Sender : TakePacket(s)
ReaderStep == Receive \/ ClearDelay \/ ReaderReturns
SendStep(s) == sendPacket(s) \/ AwaitVerdict(s)
Environment == \/ ForceFetch \/ Serve \/ Unsolicited \/ NewEpoch \/ Halt
               \/ \E m \in Item : Arrive(m)

Next ==
    \/ ConnectStep \/ StopConnect \/ CancelConnect \/ LoopStep \/ CheckStep \/ Teardown
    \/ ReaderStep \/ Environment
    \/ \E c \in Item \cup {Empty} : CallbackReturns(c)
    \/ \E s \in Sender : SendStep(s)

Spec == Init /\ [][Next]_vars
-----------------------------------------------------------------------------
(* Every variable of the connection holds a value of its kind; fetchCh     *)
(* never holds more than its capacity.                                     *)
TypeOK ==
    /\ cpc \in ConnStates /\ fresh \in BOOLEAN /\ retryDelay \in Nat
    /\ over \in BOOLEAN /\ straggler \in BOOLEAN /\ lock \in Sender \cup {None}
    /\ isConnected \in BOOLEAN /\ notified \in BOOLEAN
    /\ seq \in Nat /\ outstanding \in Nat /\ cmd \in Command
    /\ serving \in Sender \cup {None} /\ sendErr \in BOOLEAN
    /\ fetchCh \in 0 .. 1 /\ closeConnCh \in BOOLEAN
    /\ running \subseteq Item \cup {Empty} /\ delivered \subseteq Item
    /\ rpc \in {"recv", "reset", "hand", "error", "gone"} /\ rcmd \in Command
    /\ spc \in [Sender -> SendStates] /\ written \subseteq Sender
    /\ req \in Seq(Nat) /\ inbox \in Seq(Command) /\ spool \in Seq(Item)
    /\ provSeq \in Nat /\ arrived \subseteq Item
    /\ faults \in 0 .. MaxFaults /\ halted \in BOOLEAN

(* No item is lost: one that has left the Provider's spool was handed to a *)
(* callback, across any reconnections, dropped commands and refetches.     *)
NoSpoolLoss ==
    \A m \in arrived : m \in delivered \/ \E i \in 1 .. Len(spool) : spool[i] = m

\* The replies on their way to onWireConn.
InTransit == {inbox[i] : i \in 1 .. Len(inbox)} \cup {rcmd, cmd}

(* checkSeq never rejects the reply of a correct Provider: while a reply   *)
(* is on its way its fetch is the only one outstanding and seq stands.     *)
SequenceAgrees ==
    cpc \notin {"closing", "down", "drain"} =>
        \A c \in InTransit : c.type \in Replies => c.seq = seq /\ outstanding = 1

(* doConnect never waits longer than maxRetryDelay, although the reader    *)
(* clears the delay between the steps that raise and clamp it; the other   *)
(* variables stay within their types, fetchCh within its capacity.         *)
RetryBounded == TypeOK /\ (cpc = "delay" => retryDelay <= MaxRetryDelay)

(* Connections do not overlap.  sendPacket and the application know of one *)
(* while its loop runs; while doConnect is at work on the next neither     *)
(* does, and the callbacks of the last one, which the teardown waits for,  *)
(* have returned.                                                          *)
ConnectionsApart ==
    /\ cpc \in {"loop", "done", "check"} => isConnected /\ notified
    /\ cpc \in Connecting \cup {"stopped"} => ~isConnected /\ ~notified
    /\ cpc \in Connecting \cup {"status", "announce", "again", "stopped"}
           => running = {}

(* sendPacket returns nil only if its packet was written to the wire, and  *)
(* an error only if it was not.                                            *)
SendTruthful ==
    \A s \in Sender : /\ spc[s] = "sent" => s \in written
                      /\ spc[s] \in {"failed", "refused"} => s \notin written
-----------------------------------------------------------------------------
(* Fairness: goroutines run, timers fire, epochs pass, callbacks return    *)
(* and the Provider answers; select takes a case that stays ready, since   *)
(* it picks among the ready ones at random.  The timer of the fetches is   *)
(* made anew each time round the loop, so it fires only in a loop that     *)
(* stays idle: weak fairness.                                              *)
Fairness ==
    /\ WF_vars(ConnectStep) /\ WF_vars(CheckStep) /\ WF_vars(Teardown)
    /\ WF_vars(ReaderStep) /\ WF_vars(Serve) /\ WF_vars(NewEpoch)
    /\ WF_vars(DonePacket) /\ SF_vars(StopConnect) /\ SF_vars(CancelConnect)
    /\ SF_vars(TakeCommand) /\ SF_vars(TakeReadError) /\ SF_vars(LeaveLoop)
    /\ WF_vars(Fetch)
    /\ \A c \in Item \cup {Empty} : WF_vars(CallbackReturns(c))
    /\ \A s \in Sender : SF_vars(TakePacket(s)) /\ WF_vars(AwaitVerdict(s))

FairSpec == Spec /\ Fairness

(* As long as nobody sends, whatever arrives in the spool is handed to a   *)
(* callback after finitely many faults, unless the client is shut down, or *)
(* the Provider sends for ever what was not asked for: each NoOp makes     *)
(* onWireConn begin anew to wait for its next fetch.                       *)
SpoolDelivered ==
    \/ \A m \in Item : m \in arrived ~> (m \in delivered \/ halted)
    \/ []<><<Unsolicited>>_vars

(* Shutdown ends the connect worker, wherever it is.                       *)
HaltStops == halted ~> cpc = "stopped"

(* sendPacket does not deadlock with onConnStatusChange: a connection that *)
(* is being torn down gets its status changed.                             *)
StatusChangeReturns == cpc = "closing" ~> cpc # "closing"
=============================================================================
