------------------------- MODULE EgressQueueProofs --------------------------
(***************************************************************************)
(* Proofs about EgressQueue, for every capacity and every set of items:    *)
(* type correctness, the ring invariant, and that the ring buffer          *)
(* implements the bounded FIFO of EgressFIFO.                              *)
(***************************************************************************)
EXTENDS EgressQueue, SequenceTheorems, TLAPS

\* A leaf that names no prover is tried with each of these in turn.
USE SMTT(30), Z3T(30), ZenonT(60)

(* Reduction modulo the capacity of an index inside the array.             *)
LEMMA ModSmall ==
    ASSUME NEW k \in Nat, k < MaxEgressQueueSize
    PROVE  k % MaxEgressQueueSize = k
  BY SizeAssumption

(* Reduction modulo the capacity of an index past the end by one lap.      *)
LEMMA ModWrap ==
    ASSUME NEW k \in Nat, k >= MaxEgressQueueSize, k < 2 * MaxEgressQueueSize
    PROVE  k % MaxEgressQueueSize = k - MaxEgressQueueSize
  BY SizeAssumption

(* An offset from a head is reduced by at most one lap, into the array.    *)
LEMMA Offset ==
    ASSUME NEW r \in Slot, NEW i \in 0 .. MaxEgressQueueSize
    PROVE  /\ (r + i) % MaxEgressQueueSize =
                IF r + i < MaxEgressQueueSize THEN r + i
                                              ELSE r + i - MaxEgressQueueSize
           /\ (r + i) % MaxEgressQueueSize \in Slot
  <1>1. CASE r + i < MaxEgressQueueSize
    BY <1>1, SizeAssumption, ModSmall DEF Slot
  <1>2. CASE r + i >= MaxEgressQueueSize
    BY <1>2, SizeAssumption, ModWrap DEF Slot
  <1> QED BY <1>1, <1>2, SizeAssumption DEF Slot

(* Different offsets within one lap are different slots.                   *)
LEMMA OffsetInjective ==
    ASSUME NEW r \in Slot,
           NEW i \in 0 .. (MaxEgressQueueSize - 1),
           NEW j \in 0 .. (MaxEgressQueueSize - 1), i # j
    PROVE  (r + i) % MaxEgressQueueSize # (r + j) % MaxEgressQueueSize
  <1>1. i \in 0 .. MaxEgressQueueSize /\ j \in 0 .. MaxEgressQueueSize
    BY SizeAssumption
  <1>2. (r + i) % MaxEgressQueueSize =
          IF r + i < MaxEgressQueueSize THEN r + i
                                        ELSE r + i - MaxEgressQueueSize
    BY <1>1, Offset
  <1>3. (r + j) % MaxEgressQueueSize =
          IF r + j < MaxEgressQueueSize THEN r + j
                                        ELSE r + j - MaxEgressQueueSize
    BY <1>1, Offset
  <1> QED BY <1>2, <1>3, SizeAssumption DEF Slot

(* Moving the head forward by one is counting offsets from one.            *)
LEMMA OffsetShift ==
    ASSUME NEW r \in Slot, NEW i \in 0 .. (MaxEgressQueueSize - 1)
    PROVE  /\ Advance(r) \in Slot
           /\ (Advance(r) + i) % MaxEgressQueueSize
                = (r + (i + 1)) % MaxEgressQueueSize
  <1>1. /\ 1 \in 0 .. MaxEgressQueueSize
        /\ i + 1 \in 0 .. MaxEgressQueueSize
        /\ i \in 0 .. MaxEgressQueueSize
    BY SizeAssumption
  <1>2. /\ Advance(r) \in Slot
        /\ Advance(r) = IF r + 1 < MaxEgressQueueSize THEN r + 1
                                            ELSE r + 1 - MaxEgressQueueSize
    BY <1>1, Offset DEF Advance
  <1>3. (r + (i + 1)) % MaxEgressQueueSize
          = IF r + (i + 1) < MaxEgressQueueSize
              THEN r + (i + 1) ELSE r + (i + 1) - MaxEgressQueueSize
    BY <1>1, Offset
  <1>4. (Advance(r) + i) % MaxEgressQueueSize
          = IF Advance(r) + i < MaxEgressQueueSize
              THEN Advance(r) + i ELSE Advance(r) + i - MaxEgressQueueSize
    BY <1>1, <1>2, Offset
  <1> QED BY <1>1, <1>2, <1>3, <1>4, SizeAssumption DEF Slot
-----------------------------------------------------------------------------
(* Type correctness of the ring buffer: queue.go never indexes outside the *)
(* array and len stays between 0 and the capacity, whatever is called.     *)
THEOREM TypeCorrect == Spec => []TypeOK
  <1>1. Init => TypeOK
    BY SizeAssumption DEF Init, TypeOK, Slot, Returns
  <1>2. TypeOK /\ [Next]_vars => TypeOK'
    <2> SUFFICES ASSUME TypeOK, [Next]_vars PROVE TypeOK'
      OBVIOUS
    <2> USE SizeAssumption
    <2>1. ASSUME NEW e \in Item, Push(e) PROVE TypeOK'
      <3>1. 0 \in 0 .. (MaxEgressQueueSize - 1) /\ Advance(writeHead) \in Slot
        BY OffsetShift DEF TypeOK
      <3> QED BY <2>1, <3>1 DEF Push, TypeOK, Returns, Slot
    <2>2. CASE Pop
      <3>1. 0 \in 0 .. (MaxEgressQueueSize - 1) /\ Advance(readHead) \in Slot
        BY OffsetShift DEF TypeOK
      <3> QED BY <2>2, <3>1 DEF Pop, PopItem, PopEmpty, TypeOK, Returns, Slot
    <2>3. CASE Peek
      BY <2>3 DEF Peek, TypeOK, Returns
    <2>4. CASE UNCHANGED vars
      BY <2>4 DEF vars, TypeOK
    <2> QED BY <2>1, <2>2, <2>3, <2>4 DEF Next
  <1> QED BY <1>1, <1>2, PTL DEF Spec

(* Advancing the write head over the slot it names keeps it len slots      *)
(* ahead of the read head.                                                 *)
LEMMA AdvanceWrite ==
    ASSUME NEW r \in Slot, NEW l \in 0 .. (MaxEgressQueueSize - 1)
    PROVE  Advance((r + l) % MaxEgressQueueSize)
             = (r + (l + 1)) % MaxEgressQueueSize
  <1>1. /\ l \in 0 .. MaxEgressQueueSize
        /\ l + 1 \in 0 .. MaxEgressQueueSize
        /\ 1 \in 0 .. MaxEgressQueueSize
    BY SizeAssumption
  <1> DEFINE w == (r + l) % MaxEgressQueueSize
  <1>2. w \in Slot /\ w = IF r + l < MaxEgressQueueSize
                            THEN r + l ELSE r + l - MaxEgressQueueSize
    BY <1>1, Offset
  <1>3. (r + (l + 1)) % MaxEgressQueueSize
          = IF r + (l + 1) < MaxEgressQueueSize
              THEN r + (l + 1) ELSE r + (l + 1) - MaxEgressQueueSize
    BY <1>1, Offset
  <1> HIDE DEF w
  <1>4. (w + 1) % MaxEgressQueueSize
          = IF w + 1 < MaxEgressQueueSize
              THEN w + 1 ELSE w + 1 - MaxEgressQueueSize
    BY <1>1, <1>2, Offset
  <1>5. Advance(w) = (r + (l + 1)) % MaxEgressQueueSize
    BY <1>2, <1>3, <1>4, SizeAssumption DEF Advance, Slot
  <1> QED BY <1>5 DEF w

(* What one successful Push does to the slots, counted from the read head. *)
LEMMA PushSlots ==
    ASSUME TypeOK, RingInv, NEW e \in Item, len < MaxEgressQueueSize,
           Push(e)
    PROVE  /\ len' = len + 1 /\ len' \in 1 .. MaxEgressQueueSize
           /\ \A i \in 0 .. (MaxEgressQueueSize - 1) :
                 content'[SlotOf(i)'] = IF i = len THEN e
                                                  ELSE content[SlotOf(i)]
           /\ writeHead' = SlotOf(len)'
           /\ ret' = Returns(Nil, "nil")
  <1>1. /\ len \in 0 .. (MaxEgressQueueSize - 1) /\ len + 1 \in Nat
        /\ readHead' = readHead /\ len' = len + 1
        /\ content' = [content EXCEPT ![writeHead] = e]
        /\ writeHead' = Advance(writeHead)
        /\ ret' = Returns(Nil, "nil")
    BY SizeAssumption DEF TypeOK, Push
  <1>2. writeHead' = SlotOf(len)'
    BY <1>1, AdvanceWrite DEF RingInv, SlotOf, TypeOK
  <1>3. ASSUME NEW i \in 0 .. (MaxEgressQueueSize - 1)
        PROVE  content'[SlotOf(i)'] = IF i = len THEN e ELSE content[SlotOf(i)]
    <2>1. SlotOf(i)' = SlotOf(i) /\ SlotOf(i) \in Slot
      BY <1>1, Offset, SizeAssumption DEF SlotOf, TypeOK
    <2>2. i # len => SlotOf(i) # writeHead
      BY <1>1, OffsetInjective DEF SlotOf, TypeOK, RingInv
    <2>3. i = len => SlotOf(i) = writeHead
      BY DEF RingInv
    <2> QED BY <1>1, <2>1, <2>2, <2>3 DEF TypeOK
  <1> QED BY <1>1, <1>2, <1>3, SizeAssumption

(* What one successful Pop does to the slots: offset i is what offset i+1  *)
(* was, and the offset of the last slot is the slot just cleared.          *)
LEMMA PopSlots ==
    ASSUME TypeOK, RingInv, PopItem
    PROVE  /\ len' = len - 1 /\ len' \in 0 .. (MaxEgressQueueSize - 1)
           /\ \A i \in 0 .. (MaxEgressQueueSize - 2) :
                 content'[SlotOf(i)'] = content[SlotOf(i + 1)]
           /\ content'[SlotOf(MaxEgressQueueSize - 1)'] = Blank
           /\ writeHead' = SlotOf(len)'
           /\ ret' = Returns(content[SlotOf(0)], "nil")
  <1>1. /\ len \in 1 .. MaxEgressQueueSize
        /\ readHead' = Advance(readHead) /\ len' = len - 1
        /\ content' = [content EXCEPT ![readHead] = Blank]
        /\ writeHead' = writeHead
        /\ ret' = Returns(content[readHead], "nil")
    BY SizeAssumption DEF TypeOK, PopItem
  <1>2. readHead \in Slot /\ readHead \in Nat /\ SlotOf(0) = readHead
    <2>1. readHead \in Slot /\ readHead \in Nat /\ readHead < MaxEgressQueueSize
      BY SizeAssumption DEF TypeOK, Slot
    <2> QED BY <2>1, ModSmall DEF SlotOf
  <1>3. ASSUME NEW i \in 0 .. (MaxEgressQueueSize - 1)
        PROVE  SlotOf(i)' = SlotOf(i + 1)
    BY <1>1, <1>2, OffsetShift DEF SlotOf
  <1>4. writeHead' = SlotOf(len)'
    <2>1. len - 1 \in 0 .. (MaxEgressQueueSize - 1) /\ (len - 1) + 1 = len
      BY <1>1, SizeAssumption
    <2>2. (Advance(readHead) + (len - 1)) % MaxEgressQueueSize
            = (readHead + len) % MaxEgressQueueSize
      BY <1>2, <2>1, OffsetShift
    <2> QED BY <1>1, <2>2 DEF RingInv, SlotOf
  <1>5. ASSUME NEW i \in 0 .. (MaxEgressQueueSize - 2)
        PROVE  content'[SlotOf(i)'] = content[SlotOf(i + 1)]
    <2>1. /\ i \in 0 .. (MaxEgressQueueSize - 1)
          /\ i + 1 \in 0 .. (MaxEgressQueueSize - 1) /\ i + 1 # 0
          /\ 0 \in 0 .. (MaxEgressQueueSize - 1)
          /\ i + 1 \in 0 .. MaxEgressQueueSize
      BY SizeAssumption
    <2>2. SlotOf(i + 1) # readHead /\ SlotOf(i + 1) \in Slot
      BY <1>2, <2>1, OffsetInjective, Offset DEF SlotOf
    <2> QED BY <1>1, <1>3, <2>1, <2>2 DEF TypeOK
  <1>6. content'[SlotOf(MaxEgressQueueSize - 1)'] = Blank
    <2>1. /\ MaxEgressQueueSize - 1 \in 0 .. (MaxEgressQueueSize - 1)
          /\ MaxEgressQueueSize \in 0 .. MaxEgressQueueSize
          /\ (MaxEgressQueueSize - 1) + 1 = MaxEgressQueueSize
      BY SizeAssumption
    <2>2. (readHead + MaxEgressQueueSize) % MaxEgressQueueSize = readHead
      <3>1. /\ readHead + MaxEgressQueueSize \in Nat
            /\ readHead + MaxEgressQueueSize >= MaxEgressQueueSize
            /\ readHead + MaxEgressQueueSize < 2 * MaxEgressQueueSize
            /\ (readHead + MaxEgressQueueSize) - MaxEgressQueueSize = readHead
        BY <1>2, SizeAssumption DEF Slot
      <3> QED BY <3>1, ModWrap
    <2>3. SlotOf(MaxEgressQueueSize - 1)' = readHead
      BY <1>3, <2>1, <2>2 DEF SlotOf
    <2> QED BY <1>1, <1>2, <2>3 DEF TypeOK
  <1> QED BY <1>1, <1>2, <1>4, <1>5, <1>6, SizeAssumption
-----------------------------------------------------------------------------
(* The ring invariant holds in every reachable state of queue.go: the      *)
(* heads never drift apart from the length, every live slot holds a        *)
(* message and every released slot has been cleared.                       *)
THEOREM RingCorrect == Spec => []RingInv
  <1>1. Init => RingInv
    <2> SUFFICES ASSUME Init PROVE RingInv
      OBVIOUS
    <2>1. ASSUME NEW i \in 0 .. MaxEgressQueueSize
          PROVE  SlotOf(i) \in Slot
      BY SizeAssumption, Offset DEF Init, SlotOf, Slot
    <2>2. SlotOf(0) = 0
      BY SizeAssumption, ModSmall DEF Init, SlotOf
    <2> QED BY <2>1, <2>2, SizeAssumption, SlotAssumption DEF Init, RingInv
  <1>2. TypeOK /\ RingInv /\ [Next]_vars => RingInv'
    <2> SUFFICES ASSUME TypeOK, RingInv, [Next]_vars PROVE RingInv'
      OBVIOUS
    <2>1. ASSUME UNCHANGED <<content, readHead, writeHead, len>>
          PROVE  RingInv'
      BY <2>1 DEF RingInv, SlotOf
    <2>2. ASSUME NEW e \in Item, Push(e) PROVE RingInv'
      <3>1. CASE len < MaxEgressQueueSize
        <4>1. /\ len \in Nat /\ len' = len + 1 /\ writeHead' = SlotOf(len)'
              /\ \A i \in 0 .. (MaxEgressQueueSize - 1) :
                    content'[SlotOf(i)'] = IF i = len THEN e
                                                     ELSE content[SlotOf(i)]
          BY <3>1, <2>2, PushSlots DEF TypeOK
        <4>2. \A i \in 0 .. (len' - 1) : content'[SlotOf(i)'] \in Item
          BY <3>1, <4>1, SizeAssumption DEF RingInv
        <4>3. \A i \in len' .. (MaxEgressQueueSize - 1) :
                  content'[SlotOf(i)'] \notin Item
          BY <3>1, <4>1, SizeAssumption DEF RingInv
        <4> QED BY <4>1, <4>2, <4>3 DEF RingInv
      <3>2. CASE len >= MaxEgressQueueSize
        BY <3>2, <2>1, <2>2, SizeAssumption DEF Push, TypeOK
      <3> QED BY <3>1, <3>2, SizeAssumption DEF TypeOK
    <2>3. CASE PopItem
      <3>1. \A i \in 0 .. (len' - 1) : content'[SlotOf(i)'] \in Item
        BY <2>3, PopSlots, SizeAssumption DEF RingInv, TypeOK
      <3>2. \A i \in len' .. (MaxEgressQueueSize - 1) :
                content'[SlotOf(i)'] \notin Item
        BY <2>3, PopSlots, SizeAssumption, SlotAssumption DEF RingInv, TypeOK
      <3> QED BY <2>3, <3>1, <3>2, PopSlots DEF RingInv
    <2> QED BY <2>1, <2>2, <2>3 DEF Next, Pop, PopEmpty, Peek, vars
  <1> QED BY <1>1, <1>2, TypeCorrect, PTL DEF Spec
-----------------------------------------------------------------------------
\* The live slots form a sequence of messages of length len.
QueuedIsSeq ==
    /\ Queued \in Seq(Item) /\ Len(Queued) = len
    /\ \A i \in 1 .. len : Queued[i] = content[SlotOf(i - 1)]
    /\ (Queued = <<>>) <=> (len = 0)
    /\ len > 0 => Head(Queued) = content[SlotOf(0)]

(* The ring invariant makes the live slots of the array a sequence.        *)
LEMMA QueuedSeq == TypeOK /\ RingInv => QueuedIsSeq
  <1> SUFFICES ASSUME TypeOK, RingInv PROVE QueuedIsSeq
    OBVIOUS
  <1>1. len \in Nat
    BY SizeAssumption DEF TypeOK
  <1>2. \A i \in 1 .. len : content[SlotOf(i - 1)] \in Item
    BY <1>1 DEF RingInv
  <1>3. Queued \in [1 .. len -> Item]
    BY <1>2 DEF Queued
  <1>4. Queued \in Seq(Item) /\ Len(Queued) = len
    BY <1>1, <1>3, SeqDef
  <1>5. \A i \in 1 .. len : Queued[i] = content[SlotOf(i - 1)]
    BY DEF Queued
  <1>6. (Queued = <<>>) <=> (len = 0)
    BY <1>1, <1>4
  <1>7. len > 0 => Head(Queued) = content[SlotOf(0)]
    BY <1>1, <1>4, <1>5
  <1> QED BY <1>4, <1>5, <1>6, <1>7 DEF QueuedIsSeq

(* Storing at the write head appends to the queue.                         *)
LEMMA PushAppends ==
    ASSUME TypeOK, RingInv, TypeOK', RingInv',
           NEW e \in Item, len < MaxEgressQueueSize, Push(e)
    PROVE  Queued' = Append(Queued, e)
  <1>1. /\ len \in Nat /\ len' = len + 1
        /\ \A i \in 0 .. (MaxEgressQueueSize - 1) :
              content'[SlotOf(i)'] = IF i = len THEN e ELSE content[SlotOf(i)]
    BY PushSlots, SizeAssumption DEF TypeOK
  <1>2. /\ Queued \in Seq(Item) /\ Len(Queued) = len
        /\ \A i \in 1 .. len : Queued[i] = content[SlotOf(i - 1)]
    BY QueuedSeq DEF QueuedIsSeq
  <1>3. /\ Queued' \in Seq(Item) /\ Len(Queued') = len'
        /\ \A i \in 1 .. len' : Queued'[i] = content'[SlotOf(i - 1)']
    <2>1. QueuedIsSeq'
      BY QueuedSeq, PTL
    <2> QED BY <2>1 DEF QueuedIsSeq
  <1>4. ASSUME NEW i \in 1 .. len' PROVE Queued'[i] = Append(Queued, e)[i]
    <2>1. i - 1 \in 0 .. (MaxEgressQueueSize - 1)
      BY <1>1, SizeAssumption
    <2>2. Queued'[i] = IF i - 1 = len THEN e ELSE content[SlotOf(i - 1)]
      BY <1>1, <1>3, <2>1
    <2>3. CASE i = len + 1
      BY <1>1, <1>2, <2>2, <2>3, AppendProperties
    <2>4. CASE i \in 1 .. len
      BY <1>1, <1>2, <2>2, <2>4, AppendProperties
    <2>5. i = len + 1 \/ i \in 1 .. len
      BY <1>1
    <2> QED BY Zenon, <2>3, <2>4, <2>5
  <1>5. Append(Queued, e) \in Seq(Item) /\ Len(Append(Queued, e)) = len'
    BY <1>1, <1>2, AppendProperties
  <1> QED BY <1>3, <1>4, <1>5, SeqEqual

(* Releasing the slot at the read head drops the oldest item.              *)
LEMMA PopDropsHead ==
    ASSUME TypeOK, RingInv, TypeOK', RingInv', PopItem
    PROVE  Queued' = Tail(Queued)
  <1>1. /\ len \in 1 .. MaxEgressQueueSize /\ len' = len - 1
        /\ \A i \in 0 .. (MaxEgressQueueSize - 2) :
              content'[SlotOf(i)'] = content[SlotOf(i + 1)]
    BY PopSlots, SizeAssumption DEF TypeOK, PopItem
  <1>2. /\ Queued \in Seq(Item) /\ Len(Queued) = len /\ Queued # <<>>
        /\ \A i \in 1 .. len : Queued[i] = content[SlotOf(i - 1)]
    BY <1>1, QueuedSeq DEF QueuedIsSeq
  <1>3. /\ Queued' \in Seq(Item) /\ Len(Queued') = len'
        /\ \A i \in 1 .. len' : Queued'[i] = content'[SlotOf(i - 1)']
    <2>1. QueuedIsSeq'
      BY QueuedSeq, PTL
    <2> QED BY <2>1 DEF QueuedIsSeq
  <1>4. /\ Tail(Queued) \in Seq(Item) /\ Len(Tail(Queued)) = len'
        /\ \A i \in 1 .. len' : Tail(Queued)[i] = Queued[i + 1]
    BY <1>1, <1>2, HeadTailProperties
  <1>5. ASSUME NEW i \in 1 .. len' PROVE Queued'[i] = Tail(Queued)[i]
    <2>1. /\ i - 1 \in 0 .. (MaxEgressQueueSize - 2) /\ (i - 1) + 1 = i
          /\ i + 1 \in 1 .. len /\ (i + 1) - 1 = i
      BY <1>1, SizeAssumption
    <2>2. Queued'[i] = content[SlotOf(i)]
      BY <1>1, <1>3, <2>1
    <2>3. Queued[i + 1] = content[SlotOf(i)]
      BY <1>2, <2>1
    <2> QED BY <1>4, <2>2, <2>3
  <1> QED BY <1>3, <1>4, <1>5, SeqEqual

(* The ring buffer of queue.go implements the bounded FIFO queue, results  *)
(* of the calls included, for every capacity: items come out in the order  *)
(* they went in, Peek shows what the next Pop returns, Push fails exactly  *)
(* when the capacity is reached and Pop and Peek exactly when it is empty. *)
THEOREM RingImplementsFIFO == Spec => ImplementsFIFO
  <1>1. Init => FIFO!Init
    <2> SUFFICES ASSUME Init PROVE FIFO!Init
      OBVIOUS
    <2>1. Queued = <<>>
      BY DEF Init, Queued
    <2> QED BY <2>1 DEF Init, FIFO!Init, Returns, FIFO!Returns
  <1>2. /\ TypeOK /\ RingInv /\ TypeOK' /\ RingInv' /\ [Next]_vars
        => [FIFO!Next]_(FIFO!fifoVars)
    <2> SUFFICES ASSUME TypeOK, RingInv, TypeOK', RingInv', [Next]_vars
                 PROVE  [FIFO!Next]_(FIFO!fifoVars)
      OBVIOUS
    <2>1. /\ len \in 0 .. MaxEgressQueueSize /\ MaxEgressQueueSize \in Nat
          /\ Len(Queued) = len
          /\ (Queued = <<>>) <=> (len = 0)
          /\ len > 0 => Head(Queued) = content[SlotOf(0)]
      BY QueuedSeq, SizeAssumption DEF QueuedIsSeq, TypeOK
    <2>2. SlotOf(0) = readHead
      <3>1. /\ readHead \in Nat /\ readHead < MaxEgressQueueSize
            /\ readHead + 0 = readHead
        BY SizeAssumption DEF TypeOK, Slot
      <3> QED BY <3>1, ModSmall DEF SlotOf
    <2>3. UNCHANGED <<content, readHead, writeHead, len>> => UNCHANGED Queued
      BY DEF Queued, SlotOf
    <2>4. ASSUME NEW e \in Item, Push(e) PROVE FIFO!Push(e)
      <3>1. CASE len < MaxEgressQueueSize
        <4>1. Len(Queued) < MaxEgressQueueSize
          BY <2>1, <3>1
        <4>2. Queued' = Append(Queued, e)
          BY <2>4, <3>1, PushAppends
        <4>3. ret' = FIFO!Returns(Nil, "nil")
          BY <2>4, <3>1, PushSlots DEF Returns, FIFO!Returns
        <4> QED BY <4>1, <4>2, <4>3, Zenon DEF FIFO!Push
      <3>2. CASE len >= MaxEgressQueueSize
        <4>1. Len(Queued) = MaxEgressQueueSize
          BY <2>1, <3>2
        <4>2. /\ ret' = FIFO!Returns(Nil, "ErrQueueFull")
              /\ UNCHANGED <<content, readHead, writeHead, len>>
          BY <2>1, <2>4, <3>2 DEF Push, Returns, FIFO!Returns
        <4> QED BY <2>3, <4>1, <4>2, Zenon DEF FIFO!Push
      <3> QED BY <2>1, <3>1, <3>2
    <2>5. ASSUME PopItem PROVE FIFO!Pop
      <3>1. Queued # <<>> /\ Queued' = Tail(Queued)
        BY <2>1, <2>5, PopDropsHead DEF PopItem
      <3>2. ret' = FIFO!Returns(Head(Queued), "nil")
        BY <2>1, <2>5, PopSlots DEF PopItem, Returns, FIFO!Returns
      <3> QED BY <3>1, <3>2, Zenon DEF FIFO!Pop
    <2>6. ASSUME PopEmpty PROVE FIFO!Pop
      <3>1. Queued = <<>>
        BY <2>1, <2>6 DEF PopEmpty
      <3>2. /\ ret' = FIFO!Returns(Nil, "ErrQueueEmpty")
            /\ UNCHANGED <<content, readHead, writeHead, len>>
        BY <2>6 DEF PopEmpty, Returns, FIFO!Returns
      <3> QED BY <2>3, <3>1, <3>2, Zenon DEF FIFO!Pop
    <2>7. ASSUME Peek PROVE FIFO!Peek
      <3>1. UNCHANGED Queued
        BY <2>3, <2>7 DEF Peek
      <3>2. CASE len = 0
        <4>1. Queued = <<>> /\ ret' = FIFO!Returns(Nil, "ErrQueueEmpty")
          BY <2>1, <2>7, <3>2 DEF Peek, Returns, FIFO!Returns
        <4> QED BY <3>1, <4>1, Zenon DEF FIFO!Peek
      <3>3. CASE len > 0
        <4>1. Queued # <<>> /\ ret' = FIFO!Returns(Head(Queued), "nil")
          BY <2>1, <2>2, <2>7, <3>3 DEF Peek, Returns, FIFO!Returns
        <4> QED BY <3>1, <4>1, Zenon DEF FIFO!Peek
      <3> QED BY <2>1, <3>2, <3>3
    <2>8. ASSUME UNCHANGED vars PROVE UNCHANGED FIFO!fifoVars
      BY <2>3, <2>8 DEF vars, FIFO!fifoVars
    <2> QED BY <2>4, <2>5, <2>6, <2>7, <2>8 DEF Next, Pop, FIFO!Next
  <1> QED BY <1>1, <1>2, TypeCorrect, RingCorrect, PTL
          DEF Spec, ImplementsFIFO, FIFO!Spec
=============================================================================
