---------------------------- MODULE EgressQueue -----------------------------
(***************************************************************************)
(* queue.go: Queue, the in-memory egress queue, a ring buffer with a read  *)
(* head, a write head and a length.  Push, Pop and Peek each hold the      *)
(* queue's mutex from entry to return, so each is one step.                *)
(***************************************************************************)
EXTENDS Naturals, Sequences

CONSTANTS Item,                 \* the messages that are pushed
          MaxEgressQueueSize,
          Nil,                  \* a nil Item: an array slot never written
          Blank                 \* the &Message{} that Pop leaves behind

ASSUME SizeAssumption == MaxEgressQueueSize \in Nat \ {0}
ASSUME SlotAssumption == Nil \notin Item /\ Blank \notin Item /\ Nil # Blank

VARIABLES content, readHead, writeHead, len,
          ret        \* the return values of the last call

vars == <<content, readHead, writeHead, len, ret>>

Slot == 0 .. (MaxEgressQueueSize - 1)

Returns(item, err) == [item |-> item, err |-> err]

Init ==
    /\ content = [i \in Slot |-> Nil]
    /\ readHead = 0 /\ writeHead = 0 /\ len = 0
    /\ ret = Returns(Nil, "none")

Advance(head) == (head + 1) % MaxEgressQueueSize

Push(e) ==
    \/ /\ len >= MaxEgressQueueSize
       /\ ret' = Returns(Nil, "ErrQueueFull")
       /\ UNCHANGED <<content, readHead, writeHead, len>>
    \/ /\ len < MaxEgressQueueSize
       /\ content' = [content EXCEPT ![writeHead] = e]
       /\ writeHead' = Advance(writeHead)
       /\ len' = len + 1
       /\ ret' = Returns(Nil, "nil")
       /\ UNCHANGED readHead

PopEmpty ==
    /\ len <= 0
    /\ ret' = Returns(Nil, "ErrQueueEmpty")
    /\ UNCHANGED <<content, readHead, writeHead, len>>

\* Mutant: the popped slot keeps its reference to the message.
PopItemKeepsReference ==
    /\ len > 0
    /\ ret' = Returns(content[readHead], "nil")
    /\ readHead' = Advance(readHead)
    /\ len' = len - 1
    /\ UNCHANGED <<content, writeHead>>

\* Mutant: the slot is cleared before the result is read.
PopItemClearsFirst ==
    /\ len > 0
    /\ content' = [content EXCEPT ![readHead] = Blank]
    /\ ret' = Returns(content'[readHead], "nil")
    /\ readHead' = Advance(readHead)
    /\ len' = len - 1
    /\ UNCHANGED writeHead

PopItem ==
    /\ len > 0
    /\ ret' = Returns(content[readHead], "nil")
    /\ content' = [content EXCEPT ![readHead] = Blank]
    /\ readHead' = Advance(readHead)
    /\ len' = len - 1
    /\ UNCHANGED writeHead

Pop == PopEmpty \/ PopItem

Peek ==
    /\ ret' = IF len <= 0 THEN Returns(Nil, "ErrQueueEmpty")
                          ELSE Returns(content[readHead], "nil")
    /\ UNCHANGED <<content, readHead, writeHead, len>>

Next == (\E e \in Item : Push(e)) \/ Pop \/ Peek

Spec == Init /\ [][Next]_vars
-----------------------------------------------------------------------------
(* The state of the ring: every variable of Queue holds a value of its    *)
(* Go type, heads index the array, and the length never exceeds it.       *)
TypeOK ==
    /\ content \in [Slot -> Item \cup {Nil, Blank}]
    /\ readHead \in Slot
    /\ writeHead \in Slot
    /\ len \in 0 .. MaxEgressQueueSize
    /\ ret \in [item : Item \cup {Nil, Blank},
                err : {"none", "nil", "ErrQueueFull", "ErrQueueEmpty"}]

\* The slot that holds the i-th oldest item.
SlotOf(i) == (readHead + i) % MaxEgressQueueSize

(* The heads and the length agree, the len slots from the read head on    *)
(* hold messages, and no other slot keeps a message alive: Pop overwrote  *)
(* each slot it released (queue.go:78).                                   *)
RingInv ==
    /\ writeHead = SlotOf(len)
    /\ \A i \in 0 .. (len - 1) : content[SlotOf(i)] \in Item
    /\ \A i \in len .. (MaxEgressQueueSize - 1) : content[SlotOf(i)] \notin Item

\* The refinement mapping: the live slots, in ring order.
Queued == [i \in 1 .. len |-> content[SlotOf(i - 1)]]

FIFO == INSTANCE EgressFIFO WITH queue <- Queued, NoItem <- Nil

(* Every call on the ring buffer, its results included, is a call on the  *)
(* bounded FIFO that the EgressQueue interface describes.                 *)
ImplementsFIFO == FIFO!Spec
=============================================================================
