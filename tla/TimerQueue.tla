---------------------------- MODULE TimerQueue ------------------------------
(***************************************************************************)
(* timer_queue.go: a priority queue whose worker forwards each item to     *)
(* nextQ when its time has come.  Goroutines: the worker, the waiter that  *)
(* wakeupCh starts to turn Signals of the condition variable into channel  *)
(* sends, and the callers of Push and Remove.  Every use of priq is one    *)
(* step, under the mutex; Signal is a step of its own, and is lost when    *)
(* the waiter is not in Wait.                                              *)
(***************************************************************************)
EXTENDS Naturals, Sequences, FiniteSets

CONSTANTS
    Item,
    Priority,       \* Item.Priority(): the time an item is due, a uint64
    HalfRange,      \* 2^63, past the largest int64
    NoItem,
    NextQSize,      \* the capacity of nextQ, whose Push fails when it is full
    MaxTime,        \* bound on the clock
    MayRemove, MayHalt

ASSUME QueueAssumption ==
    /\ HalfRange \in Nat \ {0} /\ NoItem \notin Item
    /\ Priority \in [Item -> 0 .. (2 * HalfRange - 1)]
    /\ NextQSize \in Nat /\ MaxTime \in Nat
    /\ MayRemove \in BOOLEAN /\ MayHalt \in BOOLEAN

VARIABLES
    priq,           \* the items in the priority queue
    pushed,         \* the items given to Push
    signals,        \* the items whose Push has not yet called Signal
    removed,        \* the items for which Remove has returned nil
    wpc,            \* the worker: where it is
    timer,          \* the item the worker's timer was set for
    hand,           \* forward: the item it popped
    waiter,         \* the goroutine of wakeupCh
    nextQ,          \* what was forwarded
    now, halted

vars == <<priq, pushed, signals, removed, wpc, timer, hand, waiter, nextQ, now,
          halted>>

Init ==
    /\ priq = {} /\ pushed = {} /\ signals = {} /\ removed = {}
    /\ wpc = "peek" /\ timer = NoItem /\ hand = NoItem /\ waiter = "none"
    /\ nextQ = <<>> /\ now = 0 /\ halted = FALSE

\* The entries priq.Peek and priq.Pop may return: of lowest priority.
Front == {i \in priq : \A j \in priq : Priority[i] <= Priority[j]}

\* sync.Cond.Signal: wakes the waiter if it waits.
Signalled == IF waiter = "wait" THEN "fire" ELSE waiter

Push(i) ==
    /\ i \notin pushed
    /\ priq' = priq \cup {i} /\ pushed' = pushed \cup {i}
    /\ signals' = signals \cup {i}
    /\ UNCHANGED <<removed, wpc, timer, hand, waiter, nextQ, now, halted>>

\* Push, after Unlock.
PushSignals(i) ==
    /\ i \in signals /\ signals' = signals \ {i}
    /\ waiter' = Signalled
    /\ UNCHANGED <<priq, pushed, removed, wpc, timer, hand, nextQ, now, halted>>

\* Remove: a head with i's priority is popped; otherwise the entry removed is
\* the one with the head's priority.
Remove(i) ==
    /\ MayRemove /\ i \in pushed \ removed
    /\ \/ priq = {} /\ UNCHANGED <<priq, waiter>>
       \/ \E head \in Front :
            /\ priq' = priq \ {head}
            /\ waiter' = IF Priority[head] = Priority[i] /\ priq' # {}
                           THEN Signalled ELSE waiter
    /\ removed' = removed \cup {i}
    /\ UNCHANGED <<pushed, signals, wpc, timer, hand, nextQ, now, halted>>
-----------------------------------------------------------------------------
(* The worker.                                                             *)

\* Mutant: an item is due one unit early.
DueEarly(i) == Priority[i] <= now + 1

\* worker: the int64 difference of priority and clock is negative also for an
\* item that is 2^63 or more away.
Due(i) == Priority[i] < now \/ Priority[i] >= now + HalfRange

\* worker: Peek.  Entering the select calls wakeupCh, which starts the waiter.
PeekFront ==
    /\ wpc = "peek"
    /\ \/ /\ \E i \in Front : Due(i)
          /\ wpc' = "forward" /\ UNCHANGED <<timer, waiter>>
       \/ /\ \A i \in Front : ~Due(i)
          /\ wpc' = "select"
          /\ timer' \in IF priq = {} THEN {NoItem} ELSE Front
          /\ waiter' = IF waiter = "none" THEN "lock" ELSE waiter
    /\ UNCHANGED <<priq, pushed, signals, removed, hand, nextQ, now, halted>>

\* Mutant: the entry is handed over but stays in the queue.
PopKeeps(i) == priq

PopFront(i) == priq \ {i}

\* forward: Pop.
Pop ==
    /\ wpc = "forward"
    /\ \/ priq = {} /\ wpc' = "peek" /\ UNCHANGED <<priq, hand>>
       \/ \E i \in Front : priq' = PopFront(i) /\ hand' = i /\ wpc' = "push"
    /\ UNCHANGED <<pushed, signals, removed, timer, waiter, nextQ, now, halted>>

\* forward: nextQ.Push, whose error is a panic.
Forward ==
    /\ wpc = "push"
    /\ \/ /\ Len(nextQ) < NextQSize /\ nextQ' = Append(nextQ, hand)
          /\ hand' = NoItem /\ wpc' = "peek"
       \/ Len(nextQ) >= NextQSize /\ wpc' = "panic" /\ UNCHANGED <<nextQ, hand>>
    /\ UNCHANGED <<priq, pushed, signals, removed, timer, waiter, now, halted>>

\* Mutant: the timer's channel is not selected on.
TimerIgnored == FALSE

\* The channel of time.After(timeLeft) is ready.
TimerFired == timer # NoItem /\ Priority[timer] <= now

\* worker: <-c.
SelectTimer ==
    /\ wpc = "select" /\ TimerFired
    /\ wpc' = "forward" /\ timer' = NoItem
    /\ UNCHANGED <<priq, pushed, signals, removed, hand, waiter, nextQ, now, halted>>

\* worker: <-wakeupCh(), a rendezvous with the waiter.
SelectWakeup ==
    /\ wpc = "select" /\ waiter = "fire"
    /\ wpc' = "peek" /\ timer' = NoItem /\ waiter' = "lock"
    /\ UNCHANGED <<priq, pushed, signals, removed, hand, nextQ, now, halted>>

\* worker: <-HaltCh.
Stop ==
    /\ halted /\ wpc = "select" /\ wpc' = "stopped" /\ timer' = NoItem
    /\ UNCHANGED <<priq, pushed, signals, removed, hand, waiter, nextQ, now, halted>>

\* The waiter: L.Lock and Wait, or <-HaltCh when it has a wakeup to hand over.
WaiterStep ==
    /\ \/ waiter = "lock" /\ waiter' = "wait"
       \/ waiter = "fire" /\ halted /\ waiter' = "done"
    /\ UNCHANGED <<priq, pushed, signals, removed, wpc, timer, hand, nextQ, now, halted>>

Tick ==
    /\ now < MaxTime /\ now' = now + 1
    /\ UNCHANGED <<priq, pushed, signals, removed, wpc, timer, hand, waiter, nextQ,
                   halted>>

Halt ==
    /\ MayHalt /\ ~halted /\ halted' = TRUE
    /\ UNCHANGED <<priq, pushed, signals, removed, wpc, timer, hand, waiter, nextQ, now>>

WorkerStep == PeekFront \/ Pop \/ Forward
Next == \/ WorkerStep \/ SelectTimer \/ SelectWakeup \/ Stop \/ WaiterStep
        \/ Tick \/ Halt
        \/ \E i \in Item : Push(i) \/ PushSignals(i) \/ Remove(i)

Spec == Init /\ [][Next]_vars

(* Fairness: the clock runs, goroutines run, and select takes a case that  *)
(* is ready again and again.                                               *)
FairSpec == /\ Spec /\ WF_vars(WorkerStep) /\ WF_vars(WaiterStep) /\ WF_vars(Tick)
            /\ SF_vars(SelectTimer) /\ SF_vars(SelectWakeup)
            /\ \A i \in Item : WF_vars(PushSignals(i))
-----------------------------------------------------------------------------
Forwarded == {nextQ[k] : k \in 1 .. Len(nextQ)}

(* Every variable of the timer queue holds a value of its kind.            *)
TypeOK ==
    /\ priq \subseteq Item /\ pushed \subseteq Item /\ signals \subseteq Item
    /\ removed \subseteq Item
    /\ wpc \in {"peek", "forward", "push", "select", "stopped", "panic"}
    /\ timer \in Item \cup {NoItem} /\ hand \in Item \cup {NoItem}
    /\ waiter \in {"none", "lock", "wait", "fire", "done"}
    /\ nextQ \in Seq(Item) /\ Len(nextQ) <= NextQSize
    /\ now \in 0 .. MaxTime /\ halted \in BOOLEAN

(* No item is forwarded twice, and none is lost but to Remove, which takes *)
(* at most one item per call: the queue, the worker's hand and nextQ share *)
(* no item and hold between them all but one per Remove of those pushed;   *)
(* nextQ never holds more than its limit.                                  *)
Conserved ==
    /\ TypeOK
    /\ priq \cap Forwarded = {} /\ hand \notin priq \cup Forwarded
    /\ Cardinality(Forwarded) = Len(nextQ)
    /\ LET held == priq \cup ({hand} \ {NoItem}) \cup Forwarded
       IN /\ held \subseteq pushed
          /\ Cardinality(pushed \ held) <= Cardinality(removed)

\* No priority is too large for an int64.
InRange == \A i \in pushed : Priority[i] < HalfRange

(* As long as nothing was removed, no item is forwarded before its time:   *)
(* the front of the queue is never due after the item that the timer was   *)
(* set for, whatever is pushed meanwhile.  The exception is a queue that   *)
(* was given a priority of 2^63 or more, which timer_queue.go:135 takes    *)
(* for one in the past.                                                    *)
NeverEarly == wpc = "push" /\ removed = {} /\ InRange => Priority[hand] <= now

(* The item the worker's timer was set for is forwarded, whatever is       *)
(* pushed meanwhile, unless the worker stops or Remove is used.            *)
ArmedForwarded ==
    \A i \in Item :
        timer = i ~> \/ i \in Forwarded \/ removed # {}
                    \/ wpc \in {"panic", "stopped"}
=============================================================================
