-------------------------- MODULE TimerQueueProofs --------------------------
(***************************************************************************)
(* Proofs about TimerQueue for any items, priorities and length of nextQ,  *)
(* and any bound on the clock.                                             *)
(***************************************************************************)
EXTENDS TimerQueue, SequenceTheorems, FiniteSetTheorems, TLAPS

\* A leaf that names no prover is tried with each of these in turn.
USE SMTT(30), Z3T(30), ZenonT(60)

\* Until something is removed: the item that the timer was set for is still
\* queued, and a worker on its way to forward has an item that is due, unless a
\* priority was too large.
DueInv ==
    /\ priq \subseteq Item /\ priq \subseteq pushed
    /\ timer \in Item \cup {NoItem} /\ now \in Nat
    /\ wpc = "select" /\ removed = {} => timer \in priq \cup {NoItem}
    /\ wpc = "forward" /\ removed = {} /\ InRange => \E i \in priq : Priority[i] <= now
    /\ wpc = "push" => hand \in Item
    /\ NeverEarly

(* DueInv is inductive: only Remove and the worker itself take items out.  *)
LEMMA DueStep == DueInv /\ [Next]_vars => DueInv'
<1> SUFFICES ASSUME DueInv, [Next]_vars PROVE DueInv'
  OBVIOUS
<1>0. /\ Priority \in [Item -> Nat] /\ HalfRange \in Nat /\ NoItem \notin Item
  BY QueueAssumption
<1> USE DEF DueInv, NeverEarly
<1>1. CASE PeekFront
  <2>1. UNCHANGED <<priq, pushed, removed, hand, now>> /\ wpc = "peek" /\ InRange' = InRange
    BY <1>1 DEF PeekFront, InRange
  <2>2. CASE wpc' = "forward"
    <3>1. timer' = timer /\ \E i \in priq : Due(i)
      BY <1>1, <2>2 DEF PeekFront, Front
    <3>2. ASSUME InRange, NEW i \in priq, Due(i) PROVE Priority[i] <= now
      BY <1>0, <3>2 DEF InRange, Due
    <3> QED BY <2>1, <2>2, <3>1, <3>2
  <2>3. CASE wpc' = "select"
    BY <1>1, <2>1, <2>3 DEF PeekFront, Front
  <2> QED BY <1>1, <2>2, <2>3 DEF PeekFront
<1>2. CASE Pop
  <2>1. CASE priq = {} /\ wpc' = "peek" /\ UNCHANGED <<priq, hand>>
    BY <1>2, <2>1 DEF Pop
  <2>2. ASSUME NEW i \in Front, priq' = PopFront(i), hand' = i, wpc' = "push"
        PROVE  DueInv'
    <3>1. UNCHANGED <<pushed, removed, timer, now>> /\ wpc = "forward" /\ InRange' = InRange
      BY <1>2 DEF Pop, InRange
    <3>2. i \in priq /\ \A j \in priq : Priority[i] <= Priority[j]
      BY DEF Front
    <3>3. removed = {} /\ InRange => Priority[i] <= now
      <4> SUFFICES ASSUME removed = {}, InRange PROVE Priority[i] <= now
        OBVIOUS
      <4>1. PICK j \in priq : Priority[j] <= now
        BY <3>1
      <4>2. Priority[i] \in Nat /\ Priority[j] \in Nat /\ Priority[i] <= Priority[j]
        BY <1>0, <3>2
      <4> QED BY <4>1, <4>2
    <3> QED BY <2>2, <3>1, <3>2, <3>3 DEF PopFront
  <2> QED BY <1>2, <2>1, <2>2 DEF Pop
<1>3. CASE Forward
  BY <1>3 DEF Forward, InRange
<1>4. CASE SelectTimer
  BY <1>0, <1>4 DEF SelectTimer, TimerFired, InRange
<1>5. CASE SelectWakeup \/ Stop
  BY <1>5 DEF SelectWakeup, Stop, InRange
<1>6. CASE WaiterStep \/ Halt \/ UNCHANGED vars
  BY <1>6 DEF WaiterStep, Halt, vars, InRange
<1>7. CASE Tick
  <2>1. /\ UNCHANGED <<priq, pushed, timer, wpc, removed, hand>> /\ now' = now + 1
        /\ InRange' = InRange
    BY <1>7 DEF Tick, InRange
  <2>2. \A i \in Item : Priority[i] <= now => Priority[i] <= now'
    BY <1>0, <2>1
  <2> QED BY <2>1, <2>2
<1>8. ASSUME NEW i \in Item, Push(i) PROVE DueInv'
  <2>1. InRange' => InRange
    BY <1>8 DEF Push, InRange
  <2> QED BY <1>8, <2>1 DEF Push
<1>9. ASSUME NEW i \in Item, PushSignals(i) PROVE DueInv'
  BY <1>9 DEF PushSignals, InRange
<1>10. ASSUME NEW i \in Item, Remove(i) PROVE DueInv'
  <2>1. /\ removed' # {} /\ priq' \subseteq priq
        /\ UNCHANGED <<pushed, wpc, timer, hand, now>>
    BY <1>10 DEF Remove
  <2> QED BY <2>1
<1> QED BY <1>1, <1>2, <1>3, <1>4, <1>5, <1>6, <1>7, <1>8, <1>9, <1>10
        DEF Next, WorkerStep

(* forward hands over no item before its time (timer_queue.go, worker and  *)
(* forward), whatever is pushed between Peek and Pop, as long as nothing   *)
(* was removed and no priority is 2^63 or more.                            *)
THEOREM ForwardedOnTime == Spec => []NeverEarly
<1>1. Init => DueInv
  BY DEF Init, DueInv, NeverEarly
<1>2. DueInv => NeverEarly
  BY DEF DueInv
<1> QED BY <1>1, <1>2, DueStep, PTL DEF Spec
-----------------------------------------------------------------------------
\* The items the queue still answers for, and those that Remove took.
Held == priq \cup ({hand} \ {NoItem}) \cup Forwarded
Lost == pushed \ Held

\* Conserved, with what makes it inductive: the worker's hand is empty unless it
\* is about to push what it popped, and what is counted is finite.
HoldInv ==
    /\ TypeOK
    /\ wpc = "push" => hand \in Item
    /\ wpc \notin {"push", "panic"} => hand = NoItem
    /\ priq \cap Forwarded = {} /\ hand \notin priq \cup Forwarded
    /\ Held \subseteq pushed
    /\ IsFiniteSet(Forwarded) /\ IsFiniteSet(Lost) /\ IsFiniteSet(removed)
    /\ Cardinality(Forwarded) = Len(nextQ)
    /\ Cardinality(Lost) <= Cardinality(removed)

(* What Conserved says is what HoldInv says.                               *)
LEMMA HoldConserved == HoldInv => Conserved
  BY DEF HoldInv, Conserved, Held, Lost

(* A finite set with one more element.                                     *)
LEMMA OneMoreItem ==
    ASSUME NEW S, IsFiniteSet(S), NEW x, x \notin S
    PROVE  /\ IsFiniteSet(S \cup {x}) /\ Cardinality(S) \in Nat
           /\ Cardinality(S \cup {x}) = Cardinality(S) + 1
  BY FS_AddElement, FS_CardinalityType

(* nextQ after a Push: one longer, and with one more item in it.           *)
LEMMA ForwardedAppend ==
    ASSUME nextQ \in Seq(Item), NEW i \in Item, nextQ' = Append(nextQ, i)
    PROVE  /\ nextQ' \in Seq(Item) /\ Len(nextQ) \in Nat
           /\ Len(nextQ') = Len(nextQ) + 1
           /\ Forwarded' = Forwarded \cup {i}
  <1>1. /\ nextQ' \in Seq(Item) /\ Len(nextQ) \in Nat
        /\ Len(nextQ') = Len(nextQ) + 1
        /\ \A k \in 1 .. Len(nextQ) : nextQ'[k] = nextQ[k]
        /\ nextQ'[Len(nextQ) + 1] = i
    BY AppendProperties, LenProperties
  <1>2. 1 .. Len(nextQ') = (1 .. Len(nextQ)) \cup {Len(nextQ) + 1}
    BY <1>1
  <1> QED BY <1>1, <1>2 DEF Forwarded

(* HoldInv is inductive: Push adds an item that nobody has, the worker     *)
(* passes one on from the queue to its hand and from there to nextQ, and a *)
(* Remove that takes an item is counted in removed.                        *)
LEMMA HoldStep == HoldInv /\ [Next]_vars => HoldInv'
<1> SUFFICES ASSUME HoldInv, [Next]_vars PROVE HoldInv'
  OBVIOUS
<1>0. NoItem \notin Item
  BY QueueAssumption
<1>1. ASSUME NEW i \in Item, Push(i) PROVE HoldInv'
  <2>1. /\ i \notin Held /\ i \notin pushed
        /\ priq' = priq \cup {i} /\ pushed' = pushed \cup {i}
        /\ UNCHANGED <<removed, wpc, timer, hand, waiter, nextQ, now, halted>>
        /\ signals' = signals \cup {i}
    BY <1>1 DEF Push, HoldInv
  <2>2. Forwarded' = Forwarded
    BY <2>1 DEF Forwarded
  <2>3. Held' = Held \cup {i}
    BY <2>1, <2>2 DEF Held
  <2>4. Lost' = Lost
    BY <2>1, <2>3 DEF Lost
  <2>5. i # hand /\ i \notin Forwarded
    BY <1>0, <2>1 DEF Held
  <2>6. TypeOK'
    BY <2>1 DEF HoldInv, TypeOK
  <2> QED BY <2>1, <2>2, <2>3, <2>4, <2>5, <2>6 DEF HoldInv
<1>2. ASSUME NEW i \in Item, Remove(i) PROVE HoldInv'
  <2>1. /\ UNCHANGED <<pushed, signals, wpc, timer, hand, nextQ, now, halted>>
        /\ removed' = removed \cup {i} /\ i \notin removed
        /\ priq' = priq \/ \E head \in priq : priq' = priq \ {head}
    BY <1>2 DEF Remove, Front
  <2>2. Forwarded' = Forwarded
    BY <2>1 DEF Forwarded
  <2>3. TypeOK'
    <3>1. waiter' \in {waiter, "fire"}
      BY <1>2 DEF Remove, Signalled
    <3> QED BY <2>1, <3>1 DEF HoldInv, TypeOK
  <2>4. /\ IsFiniteSet(removed') /\ Cardinality(removed) \in Nat
        /\ Cardinality(removed') = Cardinality(removed) + 1
    BY <2>1, OneMoreItem DEF HoldInv
  <2>5. Cardinality(Lost) \in Nat
    BY FS_CardinalityType DEF HoldInv
  <2>6. CASE priq' = priq
    <3>1. Held' = Held /\ Lost' = Lost
      BY <2>1, <2>2, <2>6 DEF Held, Lost
    <3>2. Cardinality(Lost') <= Cardinality(removed')
      BY <2>4, <2>5, <3>1 DEF HoldInv
    <3> QED BY <2>1, <2>2, <2>3, <2>4, <2>6, <3>1, <3>2 DEF HoldInv
  <2>7. ASSUME NEW head \in priq, priq' = priq \ {head} PROVE HoldInv'
    <3>1. head # hand /\ head \notin Forwarded /\ head \in pushed /\ head \in Held
      BY DEF HoldInv, Held
    <3>2. Held' = Held \ {head}
      BY <2>1, <2>2, <2>7, <3>1 DEF Held
    <3>3. Lost' = Lost \cup {head} /\ head \notin Lost
      BY <2>1, <3>1, <3>2 DEF Lost
    <3>4. IsFiniteSet(Lost') /\ Cardinality(Lost') = Cardinality(Lost) + 1
      BY <3>3, OneMoreItem DEF HoldInv
    <3>5. Cardinality(Lost') <= Cardinality(removed')
      BY <2>4, <2>5, <3>4 DEF HoldInv
    <3> QED BY <2>1, <2>2, <2>3, <2>4, <2>7, <3>2, <3>4, <3>5 DEF HoldInv
  <2> QED BY <2>1, <2>6, <2>7
<1>3. CASE Pop
  <2>1. CASE UNCHANGED <<priq, hand>>
    <3>1. /\ wpc = "forward" /\ wpc' = "peek"
          /\ UNCHANGED <<pushed, signals, removed, timer, waiter, nextQ, now, halted>>
      BY <1>3, <2>1 DEF Pop, PopFront, Front
    <3>2. Forwarded' = Forwarded /\ Held' = Held /\ Lost' = Lost
      BY <2>1, <3>1 DEF Forwarded, Held, Lost
    <3>3. TypeOK'
      BY <2>1, <3>1 DEF HoldInv, TypeOK
    <3> QED BY <2>1, <3>1, <3>2, <3>3 DEF HoldInv
  <2>2. ASSUME NEW i \in Front, priq' = PopFront(i), hand' = i, wpc' = "push"
        PROVE  HoldInv'
    <3>1. /\ wpc = "forward" /\ hand = NoItem
          /\ UNCHANGED <<pushed, signals, removed, timer, waiter, nextQ, now, halted>>
      BY <1>3 DEF Pop, HoldInv
    <3>2. i \in priq /\ i \in Item /\ i \notin Forwarded /\ priq' = priq \ {i}
      BY <2>2 DEF Front, PopFront, HoldInv, TypeOK
    <3>3. Forwarded' = Forwarded
      BY <3>1 DEF Forwarded
    <3>4. Held' = Held
      BY <1>0, <2>2, <3>1, <3>2, <3>3 DEF Held
    <3>5. Lost' = Lost
      BY <3>1, <3>4 DEF Lost
    <3>6. TypeOK'
      BY <2>2, <3>1, <3>2 DEF HoldInv, TypeOK
    <3> QED BY <2>2, <3>1, <3>2, <3>3, <3>4, <3>5, <3>6 DEF HoldInv
  <2> QED BY <1>3, <2>1, <2>2 DEF Pop
<1>4. CASE Forward
  <2>1. /\ wpc = "push" /\ hand \in Item
        /\ UNCHANGED <<priq, pushed, signals, removed, timer, waiter, now, halted>>
    BY <1>4 DEF Forward, HoldInv
  <2>2. CASE /\ Len(nextQ) < NextQSize /\ nextQ' = Append(nextQ, hand)
             /\ hand' = NoItem /\ wpc' = "peek"
    <3>1. /\ nextQ' \in Seq(Item) /\ Len(nextQ) \in Nat
          /\ Len(nextQ') = Len(nextQ) + 1
          /\ Forwarded' = Forwarded \cup {hand}
      BY <2>1, <2>2, ForwardedAppend DEF HoldInv, TypeOK
    <3>2. hand \notin Forwarded /\ hand \notin priq /\ hand # NoItem
      BY <1>0, <2>1 DEF HoldInv
    <3>3. /\ IsFiniteSet(Forwarded')
          /\ Cardinality(Forwarded') = Cardinality(Forwarded) + 1
      BY <3>1, <3>2, OneMoreItem DEF HoldInv
    <3>4. Held' = Held
      BY <2>1, <2>2, <3>1, <3>2 DEF Held
    <3>5. Lost' = Lost
      BY <2>1, <3>4 DEF Lost
    <3>6. Len(nextQ') <= NextQSize
      BY <2>2, <3>1, QueueAssumption
    <3>7. TypeOK'
      BY <2>1, <2>2, <3>1, <3>6 DEF HoldInv, TypeOK
    <3>8. hand' \notin priq' \cup Forwarded'
      <4>1. NoItem \notin priq /\ NoItem \notin Forwarded
        BY <1>0 DEF HoldInv, TypeOK, Held
      <4> QED BY <2>1, <2>2, <3>1, <3>2, <4>1
    <3>9. Cardinality(Forwarded') = Len(nextQ')
      BY <3>1, <3>3 DEF HoldInv
    <3> QED BY <2>1, <2>2, <3>1, <3>2, <3>3, <3>4, <3>5, <3>7, <3>8, <3>9 DEF HoldInv
  <2>3. CASE Len(nextQ) >= NextQSize /\ wpc' = "panic" /\ UNCHANGED <<nextQ, hand>>
    <3>1. Forwarded' = Forwarded /\ Held' = Held /\ Lost' = Lost
      BY <2>1, <2>3 DEF Forwarded, Held, Lost
    <3>2. TypeOK'
      BY <2>1, <2>3 DEF HoldInv, TypeOK
    <3> QED BY <2>1, <2>3, <3>1, <3>2 DEF HoldInv
  <2> QED BY <1>4, <2>2, <2>3 DEF Forward
\* The other steps move no item.
<1>5. ASSUME UNCHANGED <<priq, pushed, removed, hand, nextQ>>, TypeOK',
             wpc' # wpc => wpc \notin {"push", "panic"} /\ wpc' \notin {"push", "panic"}
      PROVE  HoldInv'
  <2>1. Forwarded' = Forwarded /\ Held' = Held /\ Lost' = Lost
    BY <1>5 DEF Forwarded, Held, Lost
  <2> QED BY <1>5, <2>1 DEF HoldInv
<1>6. CASE PeekFront
  BY <1>5, <1>6 DEF PeekFront, Front, HoldInv, TypeOK
<1>7. CASE SelectTimer \/ SelectWakeup \/ Stop
  BY <1>5, <1>7 DEF SelectTimer, SelectWakeup, Stop, HoldInv, TypeOK
<1>8. CASE WaiterStep \/ Halt \/ UNCHANGED vars
  BY ZenonT(60), <1>5, <1>8 DEF WaiterStep, Halt, vars, HoldInv, TypeOK
<1>9. CASE Tick
  <2>1. TypeOK'
    BY <1>9, QueueAssumption DEF Tick, HoldInv, TypeOK
  <2> QED BY <1>5, <1>9, <2>1 DEF Tick
<1>10. ASSUME NEW i \in Item, PushSignals(i) PROVE HoldInv'
  BY <1>5, <1>10 DEF PushSignals, Signalled, HoldInv, TypeOK
<1> QED BY <1>1, <1>2, <1>3, <1>4, <1>6, <1>7, <1>8, <1>9, <1>10
        DEF Next, WorkerStep

(* The timer queue loses and repeats nothing: at any moment the queue, the *)
(* worker's hand and nextQ share no item and hold all the pushed ones but  *)
(* at most one per Remove.                                                 *)
THEOREM ItemsConserved == Spec => []Conserved
<1>1. Init => HoldInv
  <2> SUFFICES ASSUME Init PROVE HoldInv
    OBVIOUS
  <2>1. nextQ = <<>> /\ nextQ \in Seq(Item) /\ Len(nextQ) = 0
    BY EmptySeq DEF Init
  <2>2. Forwarded = {}
    BY <2>1 DEF Forwarded
  <2>3. Held = {} /\ Lost = {} /\ removed = {}
    BY <2>2 DEF Init, Held, Lost
  <2>4. IsFiniteSet({}) /\ Cardinality({}) = 0
    BY FS_EmptySet
  <2>5. TypeOK
    <3>1. now \in 0 .. MaxTime /\ Len(nextQ) <= NextQSize
      BY <2>1, QueueAssumption DEF Init
    <3> QED BY Zenon, <2>1, <3>1 DEF Init, TypeOK
  <2> QED BY <2>1, <2>2, <2>3, <2>4, <2>5 DEF Init, HoldInv
<1> QED BY <1>1, HoldStep, HoldConserved, PTL DEF Spec
=============================================================================
