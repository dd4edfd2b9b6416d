# Verification of Meson-client

TLA+ specifications of Meson-client, from its configuration file to the end of Shutdown, checked with
TLC on small instances, and TLAPS proofs about eight of the modules. Every definition is translated from the
Go code under `src/`; `PROJECT.json` maps each one to its lines.

## The system

A `Client` (client.go) owns a `Session`. A session queues the application's messages, sends them and
its decoys through a mix network, and hands back replies. Underneath, a `minclient.Client` keeps one
connection to the Provider and a PKI worker that follows the network's epochs; the PKI client of both
is a cache in front of a remote PKI.

| part | state | operations | what is hard |
|---|---|---|---|
| egress queue (queue.go) | ring, heads, length | Push, Pop, Peek | wrap-around, the limit |
| session (session.go, send.go, worker.go) | egress queue, three sync.Maps (surbIDMap, sentWaitChanMap, replyWaitChanMap), decoyLoopTally, opCh, eventCh | send calls, the worker, onACK, garbage collector, onConnection, onDocument, Shutdown | callbacks racing timeouts and the collector; a stale isConnected; uint64 tally |
| connection (minclient/connection.go) | isConnected, retryDelay, seq, nrReqs/nrResps, sendCh, fetchCh, running callbacks | doConnect, onWireConn and its reader, sendPacket, ForceFetch | a connection lost at any point, refetching, a lock held across a channel operation |
| timer queue (timer_queue.go) | priority queue, timer, condition variable | Push, Remove, worker, forward | signals before waits, a timer set for a displaced item |
| PKI cache (pkiclient/cache.go) | docs and LRU list, fetchQueue, memEpoch, timer | GetDoc, GetEpoch, worker, Halt | several getters of one epoch, Halt racing GetDoc, a timer used as a lock |
| PKI worker (minclient/pki.go) | docs, failedFetches, forceUpdateCh, doneWorkerCh, timer | worker rounds, currentDocument | tokens left by other rounds, failures that skip the end of a round |
| client life cycle (client.go, minclient/client.go) | fatalErrCh, haltedCh, session, opCh | New, NewSession, Shutdown, fatal error watcher | one reader, once, of an unbuffered channel that is closed at the end; callbacks on a bounded channel |
| packets and paths (minclient/send.go, path.go) | local to a call | ComposeSphinxPacket, makePath, NewPath | the epoch is read three times, bounded and unbounded retries |
| configuration and start (config/, cmd/ping, client.go) | the file, the PKI client's database | Load, UpdateTrust, SaveConfig, registration | a process that dies between two steps, what is left locked |
| proxy (internal/proxy) | none | validation, choice of dialer | a panic on what validation let through |

## Modules

`MC<Module>` declares the model values of the configurations. A step is one access to shared state: a
channel or `sync.Map` operation, a critical section, a call into another component.

* **EgressFIFO**: what the `EgressQueue` interface promises, a bounded FIFO with the results of its
  calls. **EgressQueue**: the ring buffer of queue.go, with `readHead`, `writeHead`, `len` and
  `content`; each method runs under the mutex and is one action. A refinement mapping reads the live
  slots from `readHead` on as the FIFO.
* **Session**: the life of a message. The egress queue is the FIFO that `EgressQueue` was shown to
  implement. A message stands for its random ID and its SURB ID, both unique; a deadline that has
  passed is membership of `expired`. The worker walks through `doSend` in the code's order (`"send"`,
  `"store"`, `"notify"`, `"emit"`, then `"pop"` or `"count"`); each onACK goroutine loads, deletes and
  dispatches in separate steps; so does the garbage collector. `fatal` holds what the watcher of
  fatalErrCh has received and what waits there: the first error makes it shut the session down, and a
  second one finds no receiver and leaves its sender `"blocked"` (`SendFatal`).
* **Connection**: connectWorker, doConnect and onWireConn as one process, with the reader, the
  callbacks, the senders, and the Provider's spool as environment. A `fault` is a failure that the
  environment may cause anywhere; `MaxFaults` bounds their number.
* **TimerQueue**: Push and Remove, the worker, and the goroutine that `wakeupCh` starts to wait on the
  condition variable. `now` is the clock. The priority queue is external and modelled as a set whose
  front has the least priority. A priority is a uint64 that the worker also reads as an int64: from 2^63
  (`HalfRange`) on it is negative there, and the item is `Due` at once.
* **PkiCache**: the getters, the worker and Halt around `docs`, `lru` and `fetchQueue`.
  **PkiEpoch**: GetEpoch and `epochtime.Now`, with the two variables that it remembers as separate
  steps. PkiCache and PkiEpoch share no state in cache.go and are separate modules. The timer can be
  nil there: the worker creates it after NewCacheClient returned.
* **Packet** extends PkiEpoch: one of the getters composes packets. It calls Now for its keys and its
  budget, and again for the document of each path; each call is a sequence of PkiEpoch's steps, so
  epochs change and others update the cache in between. `NewPath` has three attempts,
  each with nodes chosen at random: attempt i ends it if all its nodes have the key of the epoch that
  the failed attempts before it have moved on to, and each of those could choose a node without one
  (`MayLackKeys`). Whether time ran out (`Straddled`) is a choice, except that with no budget it always has
  (`NoBudget`). Every step of Packet is a step of `EpochSpec` or leaves PkiEpoch's variables alone.
* **PkiWorker**: the rounds of the PKI worker and the callers of CurrentDocument, with the two
  one-slot channels between them. `Now` is taken to be an epoch, an error, or a later epoch; what it
  returns before the first query is PkiEpoch's subject.
* **Config**: Load's defaults and validation as operators on records. **Startup** extends it: the ping
  command's calls up to NewSession as a sequence of steps over the file, the configuration in memory
  and the lock of the database; the process may be killed and started again until a
  session begins.
* **Client** extends Startup: what NewSession starts. It has the channels between the goroutines
  (opCh, fatalErrCh, forceUpdateCh, doneWorkerCh, sendCh, the HaltChs), the connection's lock, and, of
  each goroutine, where it blocks on them. Both the session worker and the connect worker call
  currentDocument: `wpc` and `wnow` say where the one is in it and for which epoch, `kask` and `know` the
  other. `"enqueue"` is sendPacket with the lock held; `"lapsed"` is the PKI worker after epochtime.Now
  failed, without a timer, and `"stuck"` after the next caller has set it to work; `"held"` is onWireConn
  waiting for a callback that never returns. Connection, PkiWorker and Session have what Client leaves out
  of those goroutines: spool and sequences, the stores, the life of a message.

## Runs

Passing runs:

| run | properties | distinct states |
|---|---|---|
| EgressQueue | RingInv, ImplementsFIFO | 445 |
| SessionSafety | NoImpossibleFailure, VerdictTruthful, LateReplyMeansTimeout, PopReportsOutcome | 2.5 M |
| SessionLive | TallyCountsUnanswered, BlockingCallReturns, SURBReclaimed | 211 k |
| ConnectionSafety | NoSpoolLoss, SequenceAgrees, RetryBounded, ConnectionsApart, SendTruthful | 2.5 M |
| ConnectionLive | SpoolDelivered, HaltStops | 65 k |
| TimerQueue | Conserved, NeverEarly, ArmedForwarded | 185 k |
| PkiCache | LruConsistent, NoRefetch, OpAwaited, GetDocReturns | 144 k |
| Packet | SingleFlight, NowIsPast, RoundTrip, KeysOfOneEpoch, EpochForward, EpochNoticed, ComposeEnds | 208 k |
| PkiWorker | CallbackInOrder, StoreBounded, CurrentDocumentReturns | 235 k |
| Client | DatabaseFree, RestartSame, NoSendOnClosed, PkiOutlivesUsers, ConnectionKnown, HangsOnlySo, SavedFileLoads | 1.4 M |

Runs in which the code departs from what a comment or a doc says (`PROJECT.json` quotes the
line under `findings`):

| run | property | what happens |
|---|---|---|
| SessionLateReply | CallbackReturns | onACK loads replyWaitChan, the call times out, and onACK's send never completes |
| ConnectionDeadlock | StatusChangeReturns | sendPacket waits on sendCh with the lock, onWireConn waits for the lock |

Other behaviour the models have that a reader of the docs may not expect. The properties are stated so
that they name these cases, and no run is about them:

* two deliveries of one SURB reply can both pass onACK's Load before either Deletes, and both are
  reported (session.go:271, 276);
* NewSession returns with a document, connected or not, and drops the connection changes it reads
  meanwhile (session.go:217), although its doc says that it blocks "until session is connected to the
  Provider" (client.go:248); the worker then sends nothing until the next change (ConnectionKnown);
* a second fatal error finds no reader on fatalErrCh and hangs Shutdown (worker.go:132); a full opCh
  hangs minclient's callbacks when the session worker has stopped, or when it waits for the PKI worker
  whose callback is one of them, or for the connect worker to take its packet (session.go:246, 315;
  HangsOnlySo, which also names the hangs of the two runs above and of a failed epoch query);
* once the session worker has stopped, or is blocked so, nobody closes or sends on sentWaitChan: a
  blocking call whose message it had not sent waits for ever, without a timeout (send.go:215;
  BlockingCallReturns);
* a Shutdown before `c.session` is assigned stops nothing and closes fatalErrCh, on which the worker or
  awaitFirstPKIDoc may then panic (client.go:182, 254; NoSendOnClosed);
* a NewSession that fails leaves its goroutines, and the database locked for the next call
  (session.go:138, pkiclient/katzenmint.go:213; DatabaseFree); Session.Shutdown does not shut the PKI
  client down either (session.go:335);
* a process that dies within SaveConfig leaves a truncated file, and Load of a file without
  UpstreamProxy or Katzenmint section dereferences nil (config/config.go:326, 331, 411; SavedFileLoads);
* an empty logging level replaces the default stored just before (config/config.go:70, 74), and
  a file without Debug section has a SessionDialTimeout of 0 until it was saved and loaded again
  (config/config.go:314; RestartSame);
* PollingInterval is documented in seconds (config/config.go:94) and used in milliseconds
  (session.go:123);
* one failed epoch query in the PKI worker leaves its timer off and callers waiting
  (minclient/pki.go:143; CurrentDocumentReturns);
* a path selection that straddles an epoch is redone by the time since the cached height was read, so
  that forward and reverse path may use documents of different epochs, and keys of epochs up to two
  after the one read first (minclient/send.go:76; KeysOfOneEpoch);
* a Signal before the Wait is lost, and the timer queue's worker sleeps on a queue that is not empty
  until the next Push (timer_queue.go:66);
* Remove of an item that is not at the head takes the head (timer_queue.go:80);
* an item with a priority of 2^63 or more is forwarded at once (timer_queue.go:135; NeverEarly);
* an op queued after Halt has drained fetchQueue is never answered (pkiclient/cache.go:79);
* to a goroutine that reads memEpoch before a query has set it, Now returns 2^64 - 1
  (pkiclient/cache.go:97; NowIsPast);
* a token that an earlier round left in doneWorkerCh ends a caller's wait before its own round has run
  (minclient/pki.go:107).

Each property of a passing run has in `PROJECT.json` a mutant, a small change of a modelled operation
that makes TLC find the property violated.

### Bounds

* EgressQueue: 3 slots and 3 messages let the queue fill and empty at every offset.
* Session: one blocking and one asynchronous message contend for a queue of one slot and for the
  worker; two onACK goroutines are the least that can race for a SURB ID. `MaxOps` bounds connection
  changes and documents: 3 let a connection come and go around a send. SessionLive has no lost
  connection (a send may fail on a live one too), one callback and a decoy of each kind: one loop decoy is
  enough for a reply to precede the increment. Two callbacks that claim one SURB ID are in SessionSafety,
  and, for the tally, in the theorem TallyCorrect. Both runs have Shutdown and fatal errors at any time.
  `TallyModulus` 4 stands for 2^64: the tally passes through zero.
  `OpChSize` is 8 in the code.
* Connection: two items (one SURB reply, one message) show reordering between items, two faults the
  loss of a connection and of an attempt to replace it. `RetryIncrement` 2 is the
  code's, in seconds; `MaxRetryDelay`, 5 there, is 3 in ConnectionSafety, so that two failed attempts
  exceed it.
* TimerQueue: three items, so that the head can change, one of them with a priority of 2^63 or more
  (`HalfRange` 4 stands for 2^63); two slots in nextQ, so that it fills.
* PkiCache: more getters than the backlog, more epochs than the cache holds. Packet, PkiWorker:
  three epochs, since the worker works on the current one and the one before, and the composer may
  fall two behind. `MaxErrors` bounds the failures of epochtime.Now in the PKI worker.
* Packet: one goroutine beside the composer is enough to update the cache between any two of its
  steps. Two layers, one with a choice between a mix that has the epoch's key and one that has only the
  next, make attempts fail and paths differ. One height per epoch (`testEpochInterval` 1, 10 in the
  code) tells a budget from none. `EpochModulus` 16 stands for 2^64, `DelayModulus` 8 for 2^32 and
  `TestPeriod` 4 for 10 s: a delay that is cut off is still longer than two periods. `MaxRedos` bounds
  how often chance alone starts the composer again; afterwards rand.Exp draws the least.
* Client: `OpChSize` is 8 in the code; 2 hold a status and a document, or the two statuses of a lost
  connection, and fill. Failures are not bounded. Two starts and two calls of NewSession show what is left
  behind; two blocks let the chain grow between UpdateTrust's queries. The files have each section present
  and missing, and one variant for each reason to refuse it.

`CHECK_DEADLOCK FALSE` in a configuration says that the system may stop: the bounded calls are used
up, or the worker has halted. EgressQueue can always take a step and is checked for deadlock.
Symmetry is used in SessionSafety only.

### Fairness

Goroutines that can run do (weak fairness per goroutine). A timer that is armed fires, a deadline passes.
Go's `select` picks among ready cases at random, so a case that is ready again and again is taken: strong
fairness on single cases. The same holds for blocked senders on a channel, which Go serves in order.
Connections, documents, calls, replies, deliveries, failures and Shutdown are never promised by the
session's fairness: BlockingCallReturns assumes `<>[]isConnected` instead, and of the worker's timers only
that the one of lambdaP fires while there is something to send. ConnectionLive assumes a Provider that
answers and callbacks that return; SessionLateReply shows a callback that does not. The timer of its
fetches is made anew each time round the loop (minclient/connection.go:442), so it is promised to fire
only in a loop that stays idle (weak fairness), and SpoolDelivered excepts a Provider that sends NoOps for
ever. In Packet the other goroutine keeps asking, not every query fails and epochs pass. Client states no
fairness: HangsOnlySo says of everyone inside a call that it can go on or that one of those it waits for
can, and names the exceptions.

## Proofs

**EgressQueueProofs**, for every `MaxEgressQueueSize` and every set of messages:

* `TypeCorrect`, `RingCorrect`: heads, length and contents agree. The invariant is inductive with the
  relation `writeHead = (readHead + len) % size` and the statement that exactly the live slots
  hold a message.
* `RingImplementsFIFO`: each call of the ring is the same call of the FIFO with the same result. The
  lemmas describe the live slots after a Push and after a Pop.

**SessionProofs**, for any sets of callers, messages, decoys and callbacks, any capacities, and whether
or not replies are repeated, the session is halted or connections come early:

* `TypeCorrect`: with `WorkerMsg` (doSend always has a message in hand) the type invariant is inductive.
* `ImpossibleFailuresUnreachable`, `VerdictsTruthful`: from the inductive `QueueInv`, whose conjuncts
  are `HeadInv` (the message being sent stays at the head until it is popped), `WaitInv` (a queued call
  waits, with its channel open, until the worker has told it), `OnceInv` (no call is queued twice),
  `SentInv` (what was sent is past minclient; a call whose channel was closed was never sent) and
  `NoImpossibleFailure` itself. None is inductive alone: a caller keeps its channel because it is still
  queued, and it is queued because the worker has not passed it.
* `PopsReported`: with `ReportInv` (a processed head has been reported) every pop removes the reported head.
* `LateRepliesTimedOut`: from `ReplyInv`. A call that can still take a reply has its channel in
  replyWaitChanMap, and a callback carries a message that was sent; so a callback that finds no channel
  is for a call that has its verdict, and of a message that was sent that is a timeout or a reply.
* `TallyCorrect`: from `TallyInv`, TallyCountsUnanswered with the finiteness of the sets it counts. Only
  a reply to a loop decoy changes what has been answered, and a loop decoy is attempted, and then
  counted, once (`Uncounted` is the one in the worker's hands). The lemmas `ModUnique`, `ModShift`,
  `ModNext` and `TallySteps` are the arithmetic of the counter, for every modulus.
* `NoMessageLost`: MessagesKept is inductive with QueueInv and ReportInv: a message leaves the queue only
  by the pop of a head that has been reported. `WorkerNotHeldUp`: by QueueInv the caller of the message
  in the worker's hands is at its receive when the worker sends on sentWaitChan. `HandOverOnlyThen`: by
  ReplyInv only a call that timed out or was answered leaves a callback with a reply that nobody takes,
  which is the situation that SessionLateReply shows.

**PacketProofs**, for any number of goroutines, epochs and heights, any documents, draws and retries, and
any modulus above the last epoch:

* `SingleFlightCorrect` (one query at a time, and a tick that was taken from the timer is held by a
  goroutine that will set the timer again), `MemoryForward`, `NowNeverAhead`, of PkiEpoch alone: from the
  inductive `EpochInv`, which adds to SingleFlight that an answer still to be applied is an epoch of the
  PKI, not before the remembered one (`AnswerInv`). EpochForward needs it: an answer is applied some time
  after it was given, and only because nobody else holds a tick has memEpoch not moved past it. The lemma
  `NowValue` evaluates the uint64 subtraction.
* `ComposerUsesEpoch`: Packet refines PkiEpoch. Every step of the composer is a step of the goroutine
  that it is in PkiEpoch or leaves PkiEpoch's variables alone, so the theorems above hold of Packet too.
* `RoundTripCorrect`, `KeysCorrect`: from the inductive `ComposerInv`. `PathInv` says of every point of
  the call which paths have been made and that each is good: it leads where it should (`Leads`), has keys
  of one epoch (`Keyed`), and `then` is the sum of the delays, unless it is too long to be used. The lemma
  `MadePath` shows that of what NewPath and makePath compute; `TotalDelayBound` and `NothingCutOff` show
  that a total within the limit was made of delays that uint32 did not cut off. `FloorInv` and `OrderInv`
  follow the composer's view of time: while a path is waiting for a call of Now, the cache is not behind
  what the composer has already seen, which needs that MemoryForward holds step by step and that what Now
  returns was remembered (`BehindInv`).

What a recursive function computes is proved here by a least counterexample: `NoCounterexample`, from
the library's `WFMin` on the natural numbers, takes a set and not an operator, so the provers can use it.

**PkiCacheProofs**, for any number of getters and epochs, and every size of cache and backlog:

* `LruCorrect`, `NeverRefetched`, `OpsAwaited`: from the inductive `CacheInv`. It joins LruConsistent,
  NoRefetch and OpQueuedOnce with `WorkerInv` (what the worker has in hand is an op or a document of the
  epoch it was asked for) and `GetterInv` (a getter inside a call has an epoch). They hold each other
  up: a document is not fetched while it is cached because the worker looked, and nobody else inserts;
  the list stays free of duplicates because what is inserted was not cached. The lemmas describe
  the list after a hit, an insertion and an eviction. That no op is lost (OpNotLost, the other half of
  OpAwaited) needs `StopInv` as well: the queue is emptied without an answer only after the worker is gone.
* `NobodyStranded`: until Halt has returned, a getter that waits has the worker or Halt at work.

**ClientProofs**, for every capacity of opCh, any files, and any number of starts, calls, epochs
and failures:

* `NeverSendsOnClosed`, `ShutdownInOrder`: from the inductive `LifeInv`, which says for each point of
  Shutdown which goroutines have ended. That they do not start again needs that `c.session` is assigned
  after the last of them was started, and that there is no session worker before.
* `DatabaseAvailable`: from `DbInv`, which follows the lock through the start. After a NewSession that
  failed, the process has made a call, which is the exception that DatabaseFree names.
* `ConnectionViewRight`: from `KnownInv`: all that the connect worker still has to tell agrees with its
  state; when it has told all, the last status in opCh does; when there is none, the session worker's
  view does. Two lemmas follow the last status of a sequence through a send and a receive.
* `RestartsAlike`, `SavedFilesLoad`: from `FileInv`: the configuration in memory, from Load to the end of
  the start, and the one last saved are `Fixed`, that is, they load, have their trust in one block, and
  are what Load makes of them but for the SessionDialTimeout. The file is the one last saved, or
  truncated, which does not load, so no process goes on with it. The lemmas are
  `FixupFixes` (what Load accepts it makes Fixed), `FixupAgain` (a second Load changes only the
  SessionDialTimeout) and `TrustFixed` (UpdateTrust keeps it so).
* `NobodyHangs`: CallsGoOn, from LifeInv, `WaitInv` and `AskingOK`: the goroutines of a session start
  together, halt has told everyone it waits for to stop, the PKI worker, for which others wait, is
  stopped last, and the connect worker is in currentDocument only where the code calls it. Therefore a
  chain of waiting calls ends with a goroutine that can go on, or with one of the exceptions that
  HangsOnlySo names, and CallsGoOn says which of them each call can meet. `WorkerSteps`, `ConnectSteps`
  and `PkiSteps` say once for all steps of a goroutine what they may do to the others' state.
* `ClientTypes`: the type invariant is inductive. kops holds at most two statuses because the connect
  worker adds to it only when it has told what it had.

**ConnectionProofs**, for any senders and items, any increment and maximum of the retry delay, and any
number of faults:

* `SpoolNeverLost`, `SequenceRight`: from the inductive `DeliveryInv`. `FetchInv`: of the one outstanding
  fetch there is one request or one reply, on the wire, with the reader or in onWireConn's hands, and
  it has onWireConn's sequence. `SpoolInv`: the Provider is at most one sequence behind, and then the head
  of its spool has been delivered; a reply carries that head. `WireInv`: a new connection starts with
  nothing on the wire. NoSpoolLoss needs all three, because the Provider drops its head when it sees the
  next sequence number, which a stale reply must not have advanced.
* `NoOverlap`: with `ApartInv`, what is known between the status change and its announcement.
* `SendsTruthful`: from `SendInv`, a sender is served from TakePacket to DonePacket and sendErr tells
  what became of its packet.
* `DelayBounded`: from `DelayInv`, retryDelay exceeds its maximum only between the Add and the Store, and
  then the Load has seen it.
* `OnlyOneDeadlock`: from `LockInv`: the lock is held only by a sender in sendPacket, and only while the
  connection is up. So a sender waits in vain, and onConnStatusChange waits for the lock, only if the
  loop is left between the sender's check of isConnected and the moment the loop takes its packet. That is
  the deadlock of the run ConnectionDeadlock; there is no other.

**TimerQueueProofs**, for any items, priorities and length of nextQ:

* `ForwardedOnTime`: from `DueInv`: as long as nothing was removed, and nothing pushed with a priority
  that an int64 does not hold, the item that the timer was set for is still queued, so a worker on its way
  to forward has an item that is due.
* `ItemsConserved`: from `HoldInv`, Conserved with the finiteness of what it counts and with what the
  worker has in hand at each of its steps.

**PkiWorkerProofs**, for any number of callers, epochs and failures: `CallbacksInOrder` and
`StoresBounded`, from the inductive `WorkerInv`. `AheadInv`: nothing stored, failed, to be fetched or told
is ahead of the worker's epoch, so a document told next is of a later epoch than the last. `RoundInv`:
before the first success of a round there is at most one document. `CallersWoken`, with `WakeInv`: the
timer runs whenever the worker waits for it, until epochtime.Now has failed, and doneWorkerCh is closed by
a worker that stops between rounds; so a caller that waits is woken, but for the cases
CurrentDocumentReturns excepts.

The assumptions are those named in the modules: disjoint sets of messages, positive capacities, epochs
below the modulus; of the documents that they have the fields of the PKI's, and of the limit on delays
that two periods fit into a uint32 (Packet); of the first configuration file that its sections have their
fields and that whoever wrote it took the trusted height and hash from one block (Startup); that a
nil section is no section, and that three string literals are strings (Config). TLC evaluates
each of them.

Only model-checked: liveness, and GuardsSuffice, the conjunct of HangsOnlySo that connects the guards of
CallsGoOn with the steps, failures not counted, by ENABLED; both are out of the prover's reach. Of the liveness properties
`NoMessageLost`, `NobodyStranded`, `CallersWoken`, `OnlyOneDeadlock` and the tick of `SingleFlightCorrect`
prove the safety half: at no time does somebody wait whom nobody is left to serve. TimerQueue has no such
theorem, because its Signal can be lost. Every other property of a passing run has a theorem.

## Not modelled

* Contents of messages and packets, cryptography, Poisson delays (a timer may fire at any time),
  and failures of the random number generator.
* The contents of eventCh, which is unbounded.
* A reader or callback that outlives its connection, beyond its effect on retryDelay; goroutines leaked
  per connection (minclient/connection.go:385) and per fetch (minclient/pki.go:163).
* FixupAndValidate with the Account and Registration checks, Post and PostTx, and paths that do not
  start at a client: the repository has no caller of them.
* The SOCKS5 dialer and tendermint's light client: network I/O of libraries. ToString and logPath only log.

## Plan

Session over Connection: a composition in which minclient's outcomes, callbacks and status changes
are those of Connection, so that a blocked callback and a lost connection meet.
