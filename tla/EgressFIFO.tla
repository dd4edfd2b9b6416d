----------------------------- MODULE EgressFIFO -----------------------------
(***************************************************************************)
(* What the EgressQueue interface of queue.go promises its callers: a      *)
(* bounded first-in first-out queue.  Each call is one atomic step and     *)
(* leaves its return values in ret.                                        *)
(***************************************************************************)
EXTENDS Naturals, Sequences

CONSTANTS Item,                 \* the values that can be queued
          MaxEgressQueueSize,   \* constants.MaxEgressQueueSize
          NoItem                \* the nil Item of an error return

VARIABLES queue,   \* the queued items, oldest first
          ret      \* the return values of the last call

fifoVars == <<queue, ret>>

Returns(item, err) == [item |-> item, err |-> err]

Init == queue = <<>> /\ ret = Returns(NoItem, "none")

Push(e) ==
    \/ /\ Len(queue) < MaxEgressQueueSize
       /\ queue' = Append(queue, e)
       /\ ret' = Returns(NoItem, "nil")
    \/ /\ Len(queue) = MaxEgressQueueSize
       /\ ret' = Returns(NoItem, "ErrQueueFull")
       /\ UNCHANGED queue

Pop ==
    \/ /\ queue # <<>>
       /\ queue' = Tail(queue)
       /\ ret' = Returns(Head(queue), "nil")
    \/ /\ queue = <<>>
       /\ ret' = Returns(NoItem, "ErrQueueEmpty")
       /\ UNCHANGED queue

Peek ==
    /\ ret' = IF queue = <<>> THEN Returns(NoItem, "ErrQueueEmpty")
                              ELSE Returns(Head(queue), "nil")
    /\ UNCHANGED queue

Next == (\E e \in Item : Push(e)) \/ Pop \/ Peek

Spec == Init /\ [][Next]_fifoVars
=============================================================================
