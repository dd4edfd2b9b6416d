------------------------------ MODULE PkiEpoch ------------------------------
(***************************************************************************)
(* pkiclient/cache.go and epochtime.go, the epoch: Cache.GetEpoch asks the *)
(* PKI when c.timer has fired and answers from memEpoch and memHeight      *)
(* otherwise.  epochtime.Now subtracts one from the epoch, and makes the   *)
(* height the time till the next.  The timer's channel holds one tick,     *)
(* which the call that receives it alone may use.  The cache's worker      *)
(* creates the timer after NewCacheClient has returned.  memEpoch and      *)
(* memHeight are written and read without a lock, one after the other.     *)
(***************************************************************************)
EXTENDS Naturals

CONSTANTS
    Getter,         \* the goroutines that call epochtime.Now
    FirstEpoch, LastEpoch,   \* the epochs the PKI passes through
    EpochModulus,   \* 2^64: epochs are uint64
    TestPeriod, testEpochInterval,
    MaxHeight,      \* the heights of an epoch, which may exceed the interval
    NoResult

ASSUME EpochAssumption ==
    /\ FirstEpoch \in Nat \ {0} /\ LastEpoch \in Nat /\ FirstEpoch <= LastEpoch
    /\ EpochModulus \in Nat /\ LastEpoch < EpochModulus /\ NoResult \notin Nat
    /\ TestPeriod \in Nat /\ testEpochInterval \in Nat \ {0} /\ MaxHeight \in Nat

VARIABLES
    timer,          \* c.timer: nil, armed, or its tick waiting in the channel
    memEpoch, memHeight,
    epoch, height,  \* the PKI's epoch, and its height in the epoch
    gpc, answer,    \* each getter: where it is, what the PKI told it
    result          \* each getter: what Now returned, if it had no error

vars == <<timer, memEpoch, memHeight, epoch, height, gpc, answer, result>>

Init ==
    /\ timer = "nil" /\ memEpoch = 0 /\ memHeight = 0
    /\ epoch = FirstEpoch /\ height = 0
    /\ gpc = [g \in Getter |-> "idle"] /\ answer = [g \in Getter |-> NoResult]
    /\ result = [g \in Getter |-> NoResult]

GetterAt(g, from, to) == gpc[g] = from /\ gpc' = [gpc EXCEPT ![g] = to]

\* Mutant: the epoch is not decremented.
NowUndiminished(e) == e

\* Now: epoch -= 1, on a uint64.
Now(e) == (e + (EpochModulus - 1)) % EpochModulus

\* Now: what is left of the period, by the height.
Till(h) ==
    LET ellapsedHeight == IF h > testEpochInterval THEN testEpochInterval ELSE h
    IN TestPeriod - (TestPeriod * ellapsedHeight) \div testEpochInterval

Result(g, e, h) == result' = [result EXCEPT ![g] = [epoch |-> Now(e), till |-> Till(h)]]

\* worker: c.timer = time.NewTimer(0).
NewTimer ==
    /\ timer = "nil" /\ timer' = "armed"
    /\ UNCHANGED <<memEpoch, memHeight, epoch, height, gpc, answer, result>>

TimerFires ==
    /\ timer = "armed" /\ timer' = "fired"
    /\ UNCHANGED <<memEpoch, memHeight, epoch, height, gpc, answer, result>>

\* GetEpoch before the worker has run: c.timer is a nil pointer.
NilTimer(g) ==
    /\ timer = "nil" /\ GetterAt(g, "idle", "panic")
    /\ UNCHANGED <<timer, memEpoch, memHeight, epoch, height, answer, result>>

\* Mutant: the tick is left for others.
TickKept == timer

TickTaken == "drained"

\* GetEpoch: <-c.timer.C, then impl.GetEpoch asks the PKI.
TakeTick(g) ==
    /\ timer = "fired" /\ timer' = TickTaken
    /\ GetterAt(g, "idle", "asking")
    /\ UNCHANGED <<memEpoch, memHeight, epoch, height, answer, result>>

\* GetEpoch: the default case reads memEpoch...
UseMemory(g) ==
    /\ timer \in {"armed", "drained"} /\ GetterAt(g, "idle", "memory")
    /\ answer' = [answer EXCEPT ![g] = <<memEpoch, 0>>]
    /\ UNCHANGED <<timer, memEpoch, memHeight, epoch, height, result>>

\* ... and memHeight.
UseMemHeight(g) ==
    /\ GetterAt(g, "memory", "done") /\ Result(g, answer[g][1], memHeight)
    /\ UNCHANGED <<timer, memEpoch, memHeight, epoch, height, answer>>

\* The PKI answers, or the query fails.
PKIAnswers(g) ==
    /\ \/ /\ GetterAt(g, "asking", "update")
          /\ answer' = [answer EXCEPT ![g] = <<epoch, height>>]
       \/ GetterAt(g, "asking", "failed") /\ UNCHANGED answer
    /\ UNCHANGED <<timer, memEpoch, memHeight, epoch, height, result>>

\* GetEpoch: memEpoch is set...
RememberEpoch(g) ==
    /\ GetterAt(g, "update", "updated") /\ memEpoch' = answer[g][1]
    /\ UNCHANGED <<timer, memHeight, epoch, height, answer, result>>

\* ... and memHeight, and the timer is restarted.
Remember(g) ==
    /\ GetterAt(g, "updated", "done")
    /\ memHeight' = answer[g][2] /\ timer' = "armed"
    /\ Result(g, answer[g][1], answer[g][2])
    /\ UNCHANGED <<memEpoch, epoch, height, answer>>

\* Mutant: a failed query leaves the timer off.
RetryNever == timer

RetryAtOnce == "armed"

\* GetEpoch: an error restarts the timer with 0.
Retry(g) ==
    /\ GetterAt(g, "failed", "error") /\ timer' = RetryAtOnce
    /\ UNCHANGED <<memEpoch, memHeight, epoch, height, answer, result>>

Return(g) ==
    /\ gpc[g] \in {"done", "error"} /\ gpc' = [gpc EXCEPT ![g] = "idle"]
    /\ result' = [result EXCEPT ![g] = NoResult]
    /\ answer' = [answer EXCEPT ![g] = NoResult]
    /\ UNCHANGED <<timer, memEpoch, memHeight, epoch, height>>

\* The last epoch does not reach its end.
NextHeight ==
    /\ epoch < LastEpoch /\ height < MaxHeight /\ height' = height + 1
    /\ UNCHANGED <<timer, memEpoch, memHeight, epoch, gpc, answer, result>>

NextEpoch ==
    /\ epoch < LastEpoch /\ epoch' = epoch + 1 /\ height' = 0
    /\ UNCHANGED <<timer, memEpoch, memHeight, gpc, answer, result>>

\* A call of Now, from its start to its result.
Calling(g) == \/ NilTimer(g) \/ TakeTick(g) \/ UseMemory(g) \/ UseMemHeight(g)
              \/ PKIAnswers(g) \/ RememberEpoch(g) \/ Remember(g) \/ Retry(g)
Chain == NextHeight \/ NextEpoch

EpochNext == \/ NewTimer \/ TimerFires \/ Chain
             \/ \E g \in Getter : Calling(g) \/ Return(g)

\* The cache by itself, whoever calls Now and whenever.
EpochSpec == Init /\ [][EpochNext]_vars
-----------------------------------------------------------------------------
(* Every variable holds a value of its kind.                               *)
TypeOK ==
    /\ timer \in {"nil", "armed", "fired", "drained"}
    /\ memEpoch \in 0 .. LastEpoch /\ epoch \in FirstEpoch .. LastEpoch
    /\ memHeight \in 0 .. MaxHeight /\ height \in 0 .. MaxHeight
    /\ gpc \in [Getter -> {"idle", "memory", "asking", "update", "updated", "failed",
                           "done", "error", "panic"}]
    /\ answer \in [Getter -> (Nat \X Nat) \cup {NoResult}]
    /\ result \in [Getter -> [epoch : 0 .. EpochModulus - 1, till : 0 .. TestPeriod]
                               \cup {NoResult}]

\* From the tick to the restart of the timer.
Asking(g) == gpc[g] \in {"asking", "update", "updated", "failed"}

(* At most one goroutine asks the PKI at a time: it holds the only tick.   *)
(* Nor is the tick lost: while the timer has none, somebody holds it and   *)
(* has yet to restart the timer, whether its query succeeds or fails.      *)
SingleFlight ==
    /\ \A g \in Getter : Asking(g) =>
           timer = "drained" /\ \A h \in Getter : Asking(h) => h = g
    /\ timer = "drained" => \E g \in Getter : Asking(g)

(* The remembered epoch never goes back, although answers are applied some *)
(* time after the PKI gave them.                                           *)
EpochForward == [][memEpoch' >= memEpoch]_vars

(* A changed epoch is noticed: memEpoch reaches the PKI's last epoch,      *)
(* unless a caller met the nil timer.                                      *)
EpochNoticed ==
    epoch = LastEpoch ~> (memEpoch = LastEpoch \/ \E g \in Getter : gpc[g] = "panic")

(* Now never runs ahead: it returns an epoch before the PKI's current one. *)
(* The exception, 2^64 - 1, goes only to those who read memEpoch before a  *)
(* query has set it, whatever they meet afterwards.                        *)
NowIsPast ==
    \A g \in Getter : result[g] # NoResult =>
        \/ result[g].epoch \in FirstEpoch - 1 .. epoch - 1
        \/ result[g].epoch = EpochModulus - 1 /\ answer[g][1] = 0
=============================================================================
