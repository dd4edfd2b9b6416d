---------------------------- MODULE PacketProofs ----------------------------
(***************************************************************************)
(* Proofs about PkiEpoch and Packet, for any number of goroutines, epochs  *)
(* and heights, and for any documents, topologies, draws and delays.       *)
(*                                                                         *)
(* The cache.  The inductive invariant adds to SingleFlight what a         *)
(* goroutine that is between the PKI's answer and the update has in hand:  *)
(* an epoch that the PKI had, not before the one that is remembered.  It   *)
(* is SingleFlight that keeps it so: nobody else updates memEpoch          *)
(* meanwhile.                                                              *)
(*                                                                         *)
(* The composer.  Every path is good when it is made (MadePath), whatever  *)
(* the attempt, and stays so, since a call that starts over leaves none.   *)
(* That documents never come out of order takes the cache: an epoch that   *)
(* Now returned has been remembered (BehindInv), memEpoch never goes back, *)
(* and a call of Now that began after it returns no less (FloorInv).       *)
(***************************************************************************)
EXTENDS Packet, SequenceTheorems, WellFoundedInduction, TLAPS

\* A leaf that names no prover is tried with each of these in turn.
USE SMTT(30), Z3T(30), ZenonT(60)

\* An epoch that was remembered: none yet, or one of the PKI's up to now.
Known(e) == e = 0 \/ e \in FirstEpoch .. epoch

\* What the proofs need of the types.
Shape ==
    /\ epoch \in FirstEpoch .. LastEpoch
    /\ DOMAIN gpc = Getter /\ DOMAIN answer = Getter /\ DOMAIN result = Getter

AnswerInv ==
    \A g \in Getter :
        /\ gpc[g] = "update" => answer[g][1] \in memEpoch .. epoch
        /\ gpc[g] \in {"memory", "update", "updated"} => Known(answer[g][1])
        /\ gpc[g] # "done" => result[g] = NoResult

EpochInv == Shape /\ Known(memEpoch) /\ SingleFlight /\ AnswerInv

(* The uint64 subtraction of Now: one less, but for the epoch 0.           *)
LEMMA NowValue ==
    ASSUME NEW e \in 0 .. EpochModulus - 1
    PROVE  Now(e) = IF e = 0 THEN EpochModulus - 1 ELSE e - 1
<1> DEFINE m == EpochModulus
<1>1. m \in Nat \ {0}
  BY EpochAssumption
<1>2. CASE e = 0
  <2>1. (m - 1) \in 0 .. m - 1
    BY <1>1
  <2>2. (m - 1) % m = m - 1
    BY <1>1, <2>1
  <2> QED BY <1>1, <1>2, <2>2 DEF Now
<1>3. CASE e # 0
  <2>1. e - 1 \in 0 .. m - 1 /\ e + (m - 1) = (e - 1) + m
    BY <1>1, <1>3
  <2>2. ((e - 1) + m) % m = e - 1
    BY <1>1, <2>1
  <2> QED BY <1>3, <2>1, <2>2 DEF Now
<1> QED BY <1>2, <1>3

(* Now of a known epoch is before the PKI's, or wraps around to 2^64 - 1.  *)
LEMMA NowKnown ==
    ASSUME Shape, NEW e, Known(e)
    PROVE  \/ Now(e) \in FirstEpoch - 1 .. epoch - 1
           \/ Now(e) = EpochModulus - 1 /\ e = 0
<1>1. e \in 0 .. EpochModulus - 1
  BY EpochAssumption DEF Shape, Known
<1> QED BY <1>1, NowValue, EpochAssumption DEF Shape, Known

(* Initially nobody asks and no epoch is remembered.                       *)
LEMMA InitInv == Init => EpochInv /\ NowIsPast
BY EpochAssumption
   DEF Init, EpochInv, Shape, Known, SingleFlight, Asking, AnswerInv, NowIsPast

(* Every step preserves the invariant, NowIsPast with it, and never sets   *)
(* memEpoch back.                                                          *)
LEMMA StepInv ==
    ASSUME EpochInv, NowIsPast, [EpochNext]_vars
    PROVE  EpochInv' /\ NowIsPast' /\ (memEpoch' >= memEpoch)
<1> DEFINE Kept == EpochInv' /\ NowIsPast' /\ (memEpoch' >= memEpoch)
<1> USE EpochAssumption DEF EpochInv, Shape, Known
<1>0. memEpoch \in Nat /\ epoch \in Nat
  OBVIOUS
<1>1. CASE NewTimer
  BY <1>0, <1>1 DEF NewTimer, SingleFlight, Asking, AnswerInv, NowIsPast
<1>2. CASE TimerFires
  BY <1>0, <1>2 DEF TimerFires, SingleFlight, Asking, AnswerInv, NowIsPast
<1>3. CASE NextHeight
  BY <1>0, <1>3 DEF NextHeight, SingleFlight, Asking, AnswerInv, NowIsPast
<1>4. CASE NextEpoch
  BY <1>0, <1>4 DEF NextEpoch, SingleFlight, Asking, AnswerInv, NowIsPast
<1>5. ASSUME NEW g \in Getter, NilTimer(g) PROVE Kept
  BY <1>0, <1>5 DEF NilTimer, SingleFlight, Asking, AnswerInv, NowIsPast, GetterAt
<1>6. ASSUME NEW g \in Getter, TakeTick(g) PROVE Kept
  BY <1>0, <1>6 DEF TakeTick, SingleFlight, Asking, AnswerInv, NowIsPast, GetterAt, TickTaken
<1>7. ASSUME NEW g \in Getter, UseMemory(g) PROVE Kept
  BY <1>0, <1>7 DEF UseMemory, SingleFlight, Asking, AnswerInv, NowIsPast, GetterAt
<1>8. ASSUME NEW g \in Getter, UseMemHeight(g) PROVE Kept
  <2>1. \/ Now(answer[g][1]) \in FirstEpoch - 1 .. epoch - 1
        \/ Now(answer[g][1]) = EpochModulus - 1 /\ answer[g][1] = 0
    BY <1>8, NowKnown DEF UseMemHeight, AnswerInv, GetterAt
  <2>2. NowIsPast'
    BY <1>8, <2>1 DEF UseMemHeight, Result, NowIsPast
  <2>3. EpochInv' /\ (memEpoch' >= memEpoch)
    BY <1>0, <1>8 DEF UseMemHeight, Result, SingleFlight, Asking, AnswerInv, GetterAt
  <2> QED BY <2>2, <2>3
<1>9. ASSUME NEW g \in Getter, PKIAnswers(g) PROVE Kept
  BY <1>0, <1>9 DEF PKIAnswers, SingleFlight, Asking, AnswerInv, NowIsPast, GetterAt
<1>10. ASSUME NEW g \in Getter, RememberEpoch(g) PROVE Kept
  BY <1>0, <1>10 DEF RememberEpoch, SingleFlight, Asking, AnswerInv, NowIsPast, GetterAt
<1>11. ASSUME NEW g \in Getter, Remember(g) PROVE Kept
  <2>1. \/ Now(answer[g][1]) \in FirstEpoch - 1 .. epoch - 1
        \/ Now(answer[g][1]) = EpochModulus - 1 /\ answer[g][1] = 0
    BY <1>11, NowKnown DEF Remember, AnswerInv, GetterAt
  <2>2. NowIsPast'
    BY <1>11, <2>1 DEF Remember, Result, NowIsPast
  <2>3. EpochInv' /\ (memEpoch' >= memEpoch)
    BY <1>0, <1>11 DEF Remember, Result, SingleFlight, Asking, AnswerInv, GetterAt
  <2> QED BY <2>2, <2>3
<1>12. ASSUME NEW g \in Getter, Retry(g) PROVE Kept
  BY <1>0, <1>12 DEF Retry, SingleFlight, Asking, AnswerInv, NowIsPast, GetterAt, RetryAtOnce
<1>13. ASSUME NEW g \in Getter, Return(g) PROVE Kept
  BY <1>0, <1>13 DEF Return, SingleFlight, Asking, AnswerInv, NowIsPast
<1>14. CASE UNCHANGED vars
  BY <1>0, <1>14 DEF vars, SingleFlight, Asking, AnswerInv, NowIsPast
<1> QED BY <1>1, <1>2, <1>3, <1>4, <1>5, <1>6, <1>7, <1>8,
           <1>9, <1>10, <1>11, <1>12, <1>13, <1>14 DEF EpochNext, Calling, Chain

(* At most one goroutine asks the PKI at a time, for any number of         *)
(* goroutines: the tick of GetEpoch's timer is a lock.                     *)
THEOREM SingleFlightCorrect == EpochSpec => []SingleFlight
<1>1. EpochInv /\ NowIsPast /\ [EpochNext]_vars => (EpochInv /\ NowIsPast)'
  BY StepInv
<1>2. EpochInv => SingleFlight
  BY DEF EpochInv
<1> QED BY InitInv, <1>1, <1>2, PTL DEF EpochSpec

(* Now never runs ahead of the PKI, for any number of goroutines: it       *)
(* returns a past epoch, or 2^64 - 1 to those who read memEpoch before a   *)
(* query has set it.                                                       *)
THEOREM NowNeverAhead == EpochSpec => []NowIsPast
<1>1. EpochInv /\ NowIsPast /\ [EpochNext]_vars => (EpochInv /\ NowIsPast)'
  BY StepInv
<1> QED BY InitInv, <1>1, PTL DEF EpochSpec

(* The remembered epoch never goes back, for any number of goroutines,     *)
(* although GetEpoch applies answers some time after they were given.      *)
THEOREM MemoryForward == EpochSpec => EpochForward
<1>1. EpochInv /\ NowIsPast /\ [EpochNext]_vars
        => (EpochInv /\ NowIsPast)' /\ [memEpoch' >= memEpoch]_vars
  BY StepInv
<1> QED BY InitInv, <1>1, PTL DEF EpochSpec, EpochForward
-----------------------------------------------------------------------------
\* The type invariant, and what a call of Now has in hand where it uses it.
EpochTypeInv ==
    /\ TypeOK
    /\ \A g \in Getter :
         /\ gpc[g] \in {"memory", "update", "updated"} =>
              /\ answer[g] \in (Nat \X Nat)
              /\ answer[g][1] \in 0 .. LastEpoch /\ answer[g][2] \in 0 .. MaxHeight
         /\ gpc[g] = "done" =>
              result[g] \in [epoch : 0 .. EpochModulus - 1, till : 0 .. TestPeriod]

\* What Now returns was remembered before it returns it.
BehindInv ==
    \A g \in Getter :
        /\ gpc[g] \in {"memory", "updated"} => answer[g][1] <= memEpoch
        /\ gpc[g] = "done" => \/ result[g].epoch = EpochModulus - 1
                              \/ result[g].epoch + 1 <= memEpoch

(* Now: what is left of the period is not more than the period.            *)
LEMMA TillRange ==
    ASSUME NEW h \in Nat
    PROVE  Till(h) \in 0 .. TestPeriod
<1> DEFINE I == testEpochInterval
           P == TestPeriod
           x == IF h > I THEN I ELSE h
           q == (P * x) \div I
<1>1. I \in Nat \ {0} /\ P \in Nat /\ x \in 0 .. I
  BY EpochAssumption
<1> HIDE DEF x
<1>2. P * x \in Nat /\ P * x <= P * I
  BY <1>1
<1>3. q \in Nat /\ I * q <= P * x
  BY <1>1, <1>2
<1> HIDE DEF q
<1>4. q <= P
  <2>1. I * q <= I * P
    BY <1>1, <1>2, <1>3
  <2>2. q > P => I * q > I * P
    BY <1>1, <1>3
  <2>3. I * q \in Nat /\ I * P \in Nat
    BY <1>1, <1>3
  <2> QED BY <1>1, <1>3, <2>1, <2>2, <2>3
<1>5. P - q \in 0 .. P
  BY <1>1, <1>3, <1>4
<1> QED BY <1>5 DEF Till, q, x

(* What Now returns for a remembered epoch.                                *)
LEMMA NowResult ==
    ASSUME NEW e \in 0 .. LastEpoch, NEW h \in 0 .. MaxHeight
    PROVE  /\ [epoch |-> Now(e), till |-> Till(h)]
                \in [epoch : 0 .. EpochModulus - 1, till : 0 .. TestPeriod]
           /\ Now(e) = EpochModulus - 1 \/ Now(e) + 1 = e
           /\ e > 0 => Now(e) + 1 = e /\ Now(e) # EpochModulus - 1
<1>1. e \in 0 .. EpochModulus - 1 /\ h \in Nat
  BY EpochAssumption
<1>2. Now(e) = IF e = 0 THEN EpochModulus - 1 ELSE e - 1
  BY <1>1, NowValue
<1>3. Now(e) \in 0 .. EpochModulus - 1
  BY <1>1, <1>2, EpochAssumption
<1>4. Till(h) \in 0 .. TestPeriod
  BY <1>1, TillRange
<1>5. Now(e) = EpochModulus - 1 \/ Now(e) + 1 = e
  BY <1>1, <1>2
<1>6. e > 0 => Now(e) + 1 = e /\ Now(e) # EpochModulus - 1
  BY <1>1, <1>2, EpochAssumption
<1> QED BY <1>3, <1>4, <1>5, <1>6

(* Initially nobody has anything in hand.                                  *)
LEMMA EpochTypeInit == Init => EpochTypeInv /\ BehindInv
BY EpochAssumption DEF Init, EpochTypeInv, TypeOK, BehindInv

(* Every step of the cache preserves both: the types of what a call has in *)
(* hand, and that what Now returns was remembered.                         *)
LEMMA EpochTypeStep ==
    ASSUME EpochInv, NowIsPast, EpochTypeInv, BehindInv, [EpochNext]_vars
    PROVE  EpochTypeInv' /\ BehindInv'
<1> DEFINE Kept == EpochTypeInv' /\ BehindInv'
<1> USE DEF EpochTypeInv, TypeOK, BehindInv, GetterAt
<1>0. /\ memEpoch \in Nat /\ epoch \in Nat /\ LastEpoch \in Nat
      /\ FirstEpoch \in Nat /\ MaxHeight \in Nat /\ EpochModulus \in Nat
  BY EpochAssumption
<1>1. CASE NewTimer \/ TimerFires
  BY <1>1 DEF NewTimer, TimerFires
<1>2. CASE NextHeight
  BY <1>0, <1>2 DEF NextHeight
<1>3. CASE NextEpoch
  BY <1>0, <1>3 DEF NextEpoch
<1>4. ASSUME NEW g \in Getter, NilTimer(g) PROVE Kept
  BY <1>4 DEF NilTimer
<1>5. ASSUME NEW g \in Getter, TakeTick(g) PROVE Kept
  BY <1>5 DEF TakeTick, TickTaken
<1>6. ASSUME NEW g \in Getter, UseMemory(g) PROVE Kept
  BY <1>0, <1>6 DEF UseMemory
<1>7. ASSUME NEW g \in Getter, UseMemHeight(g) PROVE Kept
  <2> DEFINE r == [epoch |-> Now(answer[g][1]), till |-> Till(memHeight)]
  <2>1. /\ answer[g][1] \in 0 .. LastEpoch /\ memHeight \in 0 .. MaxHeight
        /\ answer[g][1] <= memEpoch
    BY <1>7 DEF UseMemHeight
  <2>2. /\ r \in [epoch : 0 .. EpochModulus - 1, till : 0 .. TestPeriod]
        /\ r.epoch = EpochModulus - 1 \/ r.epoch + 1 = answer[g][1]
    BY <2>1, NowResult
  <2>3. result' = [result EXCEPT ![g] = r]
    BY <1>7 DEF UseMemHeight, Result
  <2> HIDE DEF r
  <2> QED BY <1>7, <2>1, <2>2, <2>3 DEF UseMemHeight
<1>8. ASSUME NEW g \in Getter, PKIAnswers(g) PROVE Kept
  BY <1>0, <1>8 DEF PKIAnswers
<1>9. ASSUME NEW g \in Getter, RememberEpoch(g) PROVE Kept
  <2>1. memEpoch' >= memEpoch /\ memEpoch' = answer[g][1]
    BY Zenon, <1>9, StepInv DEF RememberEpoch, EpochNext, Calling
  <2> QED BY <1>0, <1>9, <2>1 DEF RememberEpoch
<1>10. ASSUME NEW g \in Getter, Remember(g) PROVE Kept
  <2> DEFINE r == [epoch |-> Now(answer[g][1]), till |-> Till(answer[g][2])]
  <2>1. /\ answer[g][1] \in 0 .. LastEpoch /\ answer[g][2] \in 0 .. MaxHeight
        /\ answer[g][1] <= memEpoch
    BY <1>10 DEF Remember
  <2>2. /\ r \in [epoch : 0 .. EpochModulus - 1, till : 0 .. TestPeriod]
        /\ r.epoch = EpochModulus - 1 \/ r.epoch + 1 = answer[g][1]
    BY <2>1, NowResult
  <2>3. result' = [result EXCEPT ![g] = r]
    BY <1>10 DEF Remember, Result
  <2> HIDE DEF r
  <2> QED BY <1>10, <2>1, <2>2, <2>3 DEF Remember
<1>11. ASSUME NEW g \in Getter, Retry(g) PROVE Kept
  BY <1>11 DEF Retry, RetryAtOnce
<1>12. ASSUME NEW g \in Getter, Return(g) PROVE Kept
  BY <1>12 DEF Return
<1>13. CASE UNCHANGED vars
  BY <1>13 DEF vars
<1> QED BY Zenon, <1>1, <1>2, <1>3, <1>4, <1>5, <1>6, <1>7, <1>8, <1>9, <1>10, <1>11,
           <1>12, <1>13 DEF EpochNext, Calling, Chain
-----------------------------------------------------------------------------
(* Induction up to N, for a set of counterexamples: if it does not hold 0, *)
(* nor a number without its predecessor, it is empty.                      *)
LEMMA NoCounterexample ==
    ASSUME NEW N \in Nat, NEW T, T \subseteq 0 .. N, 0 \notin T,
           \A k \in 1 .. N : k \in T => k - 1 \in T
    PROVE  T = {}
<1> SUFFICES ASSUME T # {} PROVE FALSE
  OBVIOUS
<1>1. T \subseteq Nat
  OBVIOUS
<1>2. PICK k \in T : \A j \in T : ~(<<j, k>> \in OpToRel(<, Nat))
  BY Zenon, <1>1, WFMin, NatLessThanWellFounded
<1>3. k \in 1 .. N /\ k - 1 \in T /\ k - 1 \in Nat /\ k \in Nat /\ k - 1 < k
  OBVIOUS
<1>4. <<k - 1, k>> \in OpToRel(<, Nat)
  BY <1>3 DEF OpToRel
<1> QED BY Zenon, <1>2, <1>3, <1>4

\* The sum of the delays of a path up to each of its hops.
IsSum(f, path) ==
    f = [n \in 0 .. Len(path) |-> IF n = 0 THEN 0 ELSE f[n - 1] + path[n].Delay]

(* A path has such sums: those of its first k hops can be extended by one. *)
LEMMA SumExists ==
    ASSUME NEW path, Len(path) \in Nat,
           \A n \in 1 .. Len(path) : path[n].Delay \in Nat
    PROVE  \E f : IsSum(f, path)
<1> DEFINE N == Len(path)
           Partial(k, f) == \A n \in 1 .. k : f[n] = f[n - 1] + path[n].Delay
           Has(k) == \E f \in [0 .. k -> Nat] : f[0] = 0 /\ Partial(k, f)
           T == {k \in 0 .. N : ~Has(k)}
<1>1. Has(0)
  <2> DEFINE f == [n \in 0 .. 0 |-> 0]
  <2>1. f \in [0 .. 0 -> Nat] /\ f[0] = 0 /\ Partial(0, f)
    OBVIOUS
  <2> QED BY Zenon, <2>1
<1>2. ASSUME NEW k \in 1 .. N, Has(k - 1) PROVE Has(k)
  <2>1. PICK f \in [0 .. k - 1 -> Nat] : f[0] = 0 /\ Partial(k - 1, f)
    BY Zenon, <1>2
  <2> DEFINE g == [n \in 0 .. k |-> IF n = k THEN f[k - 1] + path[k].Delay ELSE f[n]]
  <2>2. f[k - 1] \in Nat /\ path[k].Delay \in Nat
    OBVIOUS
  <2>3. g \in [0 .. k -> Nat]
    BY <2>2
  <2>4. g[0] = 0
    BY <2>1
  <2>5. ASSUME NEW n \in 1 .. k PROVE g[n] = g[n - 1] + path[n].Delay
    <3>1. CASE n = k
      BY <3>1
    <3>2. CASE n # k
      BY <2>1, <3>2
    <3> QED BY <3>1, <3>2
  <2> QED BY Zenon, <2>3, <2>4, <2>5
<1>3. Has(N)
  <2> HIDE DEF Has
  <2>1. T \subseteq 0 .. N /\ 0 \notin T /\ N \in Nat
    BY <1>1
  <2>2. ASSUME NEW k \in 1 .. N, k \in T PROVE k - 1 \in T
    BY <1>2, <2>2
  <2>3. T = {}
    <3> HIDE DEF T
    <3> QED BY Zenon, <2>1, <2>2, NoCounterexample
  <2> QED BY <2>1, <2>3
<1>4. PICK f \in [0 .. N -> Nat] : f[0] = 0 /\ Partial(N, f)
  BY <1>3
<1>5. f = [n \in 0 .. N |-> IF n = 0 THEN 0 ELSE f[n - 1] + path[n].Delay]
  BY <1>4
<1> QED BY <1>5 DEF IsSum

(* TotalDelay is their last: no less than any of the delays it adds.       *)
LEMMA TotalDelayBound ==
    ASSUME NEW path, Len(path) \in Nat,
           \A n \in 1 .. Len(path) : path[n].Delay \in Nat
    PROVE  /\ TotalDelay(path) \in Nat
           /\ \A n \in 1 .. Len(path) : path[n].Delay <= TotalDelay(path)
<1> DEFINE N == Len(path)
           f == CHOOSE f : IsSum(f, path)
           Bad == {k \in 0 .. N : ~(/\ f[k] \in Nat
                                    /\ \A n \in 1 .. k : path[n].Delay <= f[k])}
<1>1. IsSum(f, path)
  BY SumExists
<1>2. TotalDelay(path) = f[N]
  BY DEF TotalDelay, IsSum
<1> HIDE DEF f
<1>3. f[0] = 0 /\ \A n \in 1 .. N : f[n] = f[n - 1] + path[n].Delay
  BY <1>1 DEF IsSum
<1>4. Bad \subseteq 0 .. N /\ 0 \notin Bad /\ N \in Nat
  BY <1>3
<1>5. ASSUME NEW k \in 1 .. N, k - 1 \notin Bad PROVE k \notin Bad
  <2>1. f[k - 1] \in Nat /\ \A n \in 1 .. k - 1 : path[n].Delay <= f[k - 1]
    BY <1>5
  <2>2. f[k] = f[k - 1] + path[k].Delay /\ path[k].Delay \in Nat
    BY <1>3
  <2>3. f[k] \in Nat
    BY <2>1, <2>2
  <2>4. ASSUME NEW n \in 1 .. k PROVE path[n].Delay <= f[k]
    <3>1. CASE n = k
      BY <2>1, <2>2, <3>1
    <3>2. CASE n # k
      <4>1. n \in 1 .. k - 1 /\ path[n].Delay \in Nat
        BY <3>2
      <4>2. path[n].Delay <= f[k - 1]
        BY <2>1, <4>1
      <4> QED BY <2>1, <2>2, <4>1, <4>2
    <3> QED BY <3>1, <3>2
  <2> QED BY <2>3, <2>4
<1>6. Bad = {}
  <2> HIDE DEF Bad
  <2> QED BY Zenon, <1>4, <1>5, NoCounterexample
<1>7. f[N] \in Nat /\ \A n \in 1 .. N : path[n].Delay <= f[N]
  BY <1>4, <1>6
<1> QED BY <1>2, <1>7

(* A number below the modulus is its own remainder.                        *)
LEMMA ModSmall ==
    ASSUME NEW m \in Nat, NEW x \in 0 .. m - 1
    PROVE  x % m = x
<1>1. m > 0 /\ x \in Nat /\ x < m
  OBVIOUS
<1> QED BY <1>1

(* A function on 1 .. n is as long as that.                                *)
LEMMA FunLen ==
    ASSUME NEW n \in Nat, NEW f, f = [i \in 1 .. n |-> f[i]]
    PROVE  Len(f) = n /\ DOMAIN f = 1 .. n
<1> DEFINE S == {f[i] : i \in 1 .. n}
<1>1. f \in [1 .. n -> S]
  OBVIOUS
<1>2. f \in Seq(S)
  BY <1>1, SeqDef
<1> HIDE DEF S
<1>3. Len(f) \in Nat /\ DOMAIN f = 1 .. Len(f)
  BY <1>2, LenProperties
<1>4. DOMAIN f = 1 .. n
  BY <1>1
<1> QED BY <1>3, <1>4

(* As long as the sum of its delays fits in a uint32, a path's NodeDelays  *)
(* are its delays.                                                         *)
LEMMA NothingCutOff ==
    ASSUME NEW n \in Nat, NEW path, path = [i \in 1 .. n |-> path[i]],
           \A i \in 1 .. n :
               /\ path[i] = [ID |-> path[i].ID, PublicKey |-> path[i].PublicKey,
                             Delay |-> path[i].Delay, Commands |-> path[i].Commands]
               /\ path[i].Delay \in Nat,
           TotalDelay(path) < DelayModulus
    PROVE  Truncated(path) = path
<1>1. Len(path) = n /\ DOMAIN path = 1 .. n
  BY FunLen
<1>2. TotalDelay(path) \in Nat /\ \A i \in 1 .. n : path[i].Delay <= TotalDelay(path)
  BY <1>1, TotalDelayBound
<1>3. ASSUME NEW i \in 1 .. n PROVE [path[i] EXCEPT !.Delay = @ % DelayModulus] = path[i]
  <2>1. path[i].Delay \in 0 .. DelayModulus - 1
    BY <1>2, PacketAssumption
  <2>2. path[i].Delay % DelayModulus = path[i].Delay
    BY <2>1, PacketAssumption, ModSmall
  <2> QED BY <2>2
<1> QED BY <1>1, <1>3 DEF Truncated

\* How many hops precede the mixes: only the forward path has its provider first.
First(isForward) == IF isForward THEN 1 ELSE 0

(* selectHops: a node of every layer in order, between the providers.      *)
LEMMA HopsShape ==
    ASSUME NEW e \in DOMAIN Document, NEW src \in Node, NEW dst \in Node,
           NEW isForward \in BOOLEAN,
           NEW descs \in selectHops(Document[e], src, dst, isForward)
    PROVE  LET T == Document[e].Topology
           IN /\ Len(T) \in Nat /\ DOMAIN T = 1 .. Len(T)
              /\ descs \in Seq(Node) /\ Len(descs) = First(isForward) + Len(T) + 1
              /\ isForward => descs[1] = src
              /\ descs[Len(descs)] = dst
              /\ \A l \in DOMAIN T : descs[First(isForward) + l] \in T[l]
<1> DEFINE T == Document[e].Topology
           Nodes == UNION {T[l] : l \in DOMAIN T}
           n == Len(T)
<1>1. T \in Seq(SUBSET Node) /\ n \in Nat /\ DOMAIN T = 1 .. n
      /\ \A l \in 1 .. n : T[l] \subseteq Node
  BY DocumentAssumption, LenProperties
<1>2. PICK hops \in [DOMAIN T -> Nodes] :
         /\ \A l \in DOMAIN T : hops[l] \in T[l]
         /\ descs = FirstHop(isForward, src) \o hops \o <<dst>>
  BY Zenon DEF selectHops
<1> HIDE DEF T, n
<1>3. hops \in Seq(Node) /\ Len(hops) = n
  <2>1. hops \in [1 .. n -> Node]
    BY <1>1, <1>2
  <2>2. hops \in Seq(Node)
    BY <1>1, <2>1, SeqDef
  <2>3. hops = [i \in 1 .. n |-> hops[i]]
    BY <2>1
  <2> QED BY <1>1, <2>2, <2>3, FunLen
<1> DEFINE fst == FirstHop(isForward, src)
           q == fst \o hops
<1>4. /\ fst \in Seq(Node) /\ Len(fst) = First(isForward)
      /\ isForward => fst[1] = src
  BY DEF FirstHop, First
<1> HIDE DEF fst
<1>5. /\ q \in Seq(Node) /\ Len(q) = Len(fst) + n
      /\ \A i \in 1 .. Len(q) : q[i] = IF i <= Len(fst) THEN fst[i] ELSE hops[i - Len(fst)]
  BY ZenonT(60), <1>3, <1>4, ConcatProperties
<1>6. descs = q \o <<dst>>
  BY <1>2 DEF fst
<1>7. <<dst>> \in Seq(Node) /\ Len(<<dst>>) = 1 /\ <<dst>>[1] = dst
  OBVIOUS
<1> HIDE DEF q
<1>8. /\ descs \in Seq(Node) /\ Len(descs) = Len(q) + 1
      /\ \A i \in 1 .. Len(descs) : descs[i] = IF i <= Len(q) THEN q[i] ELSE <<dst>>[i - Len(q)]
  BY <1>5, <1>6, <1>7, ConcatProperties
<1> DEFINE k == First(isForward)
<1>9. k \in {0, 1} /\ (isForward => k = 1)
  BY DEF First
<1> HIDE DEF k
<1>10. n \in Nat /\ Len(fst) = k /\ Len(q) = k + n /\ Len(descs) = k + n + 1
  <2>1. n \in Nat /\ Len(fst) = k /\ Len(q) = k + n /\ Len(descs) = Len(q) + 1
    BY <1>1, <1>4, <1>5, <1>8 DEF k
  <2> QED BY <1>9, <2>1
<1>11. isForward => descs[1] = src
  <2> SUFFICES ASSUME isForward PROVE descs[1] = src
    OBVIOUS
  <2>0. k = 1
    BY <1>9
  <2>1. 1 \in 1 .. Len(descs) /\ 1 \in 1 .. Len(q) /\ 1 <= Len(q) /\ 1 <= Len(fst)
    BY <2>0, <1>10
  <2>2. descs[1] = q[1] /\ q[1] = fst[1]
    BY <1>5, <1>8, <2>1
  <2> QED BY Zenon, <1>4, <2>2
<1>12. descs[Len(descs)] = dst
  <2>1. /\ Len(descs) \in 1 .. Len(descs) /\ ~(Len(descs) <= Len(q))
        /\ Len(descs) - Len(q) = 1
    BY <1>9, <1>10
  <2>2. descs[Len(descs)] = <<dst>>[Len(descs) - Len(q)]
    BY <1>8, <2>1
  <2> QED BY <1>7, <2>1, <2>2
<1>13. ASSUME NEW l \in DOMAIN T PROVE descs[k + l] \in T[l]
  <2> DEFINE i == k + l
  <2>1. l \in 1 .. n
    BY <1>1
  <2>2. /\ i \in 1 .. Len(descs) /\ i \in 1 .. Len(q) /\ i <= Len(q)
        /\ ~(i <= Len(fst)) /\ i - Len(fst) = l
    BY <1>9, <1>10, <2>1
  <2> HIDE DEF i
  <2>3. descs[i] = q[i] /\ q[i] = hops[i - Len(fst)]
    BY <1>5, <1>8, <2>2
  <2>4. descs[i] = hops[l]
    BY <2>2, <2>3
  <2> QED BY Zenon, <1>2, <2>4 DEF i
<1> QED BY <1>1, <1>8, <1>10, <1>11, <1>12, <1>13 DEF T, n, k
-----------------------------------------------------------------------------
\* The hops of a path made with the document of epoch e, where they lead and
\* which of them have a delay.
Leads(path, e, isForward, withSURB) ==
    LET T == Document[e].Topology
    IN /\ Len(path) = First(isForward) + Len(T) + 1
       /\ Len(path) \in Nat \ {0} /\ DOMAIN path = 1 .. Len(path)
       /\ isForward => path[1].ID = Provider
       /\ path[Len(path)].ID = IF isForward THEN Peer ELSE Provider
       /\ \A l \in DOMAIN T : path[First(isForward) + l].ID \in T[l]
       /\ \A h \in DOMAIN path :
             "NodeDelay" \in path[h].Commands <=>
                 h # Len(path) \/ (withSURB /\ isForward)

\* Its keys, when NewPath was asked for those of epoch b.
Keyed(path, e, b) ==
    \E k \in 0 .. 2 :
        LET ke == (b + k) % EpochModulus
        IN \A h \in DOMAIN path :
              path[h].PublicKey = ke /\ ke \in Document[e].MixKeys[path[h].ID]

(* A delay is never nothing.                                               *)
LEMMA DelayPositive ==
    ASSUME NEW e \in DOMAIN Document, NEW draw \in Nat
    PROVE  Delay(Document[e], draw) \in Nat /\ Delay(Document[e], draw) > 0
<1>1. Document[e].MuMaxDelay \in Nat
  BY DocumentAssumption
<1> QED BY <1>1 DEF Delay

(* Cutting off a delay leaves the rest of the hop alone.                   *)
LEMMA CutOffField ==
    ASSUME NEW r, NEW d,
           r = [ID |-> r.ID, PublicKey |-> r.PublicKey, Delay |-> r.Delay,
                Commands |-> r.Commands]
    PROVE  LET c == [r EXCEPT !.Delay = d]
           IN c.ID = r.ID /\ c.PublicKey = r.PublicKey /\ c.Commands = r.Commands
OBVIOUS

\* NewPath: path is what its loop makes of the hops descs of a document and
\* of the delays drawn, at the i-th attempt.
IsMade(path, e, isForward, i, descs, draws, src, dst) ==
    /\ e \in DOMAIN Document /\ {Provider, Peer} \subseteq Document[e].Providers
    /\ src = IF isForward THEN Provider ELSE Peer
    /\ dst = IF isForward THEN Peer ELSE Provider
    /\ i \in 1 .. maxAttempts /\ draws \in Draws
    /\ descs \in selectHops(Document[e], src, dst, isForward)
    /\ KeysFound(Document[e], descs, KeyEpoch(base, i))
    /\ path = PathHops(Document[e], descs, draws, isForward, KeyEpoch(base, i))

\* Such a path is good, its delays cut off or not.
IsGood(path, e, isForward) ==
    /\ Leads(Truncated(path), e, isForward, surb)
    /\ Keyed(Truncated(path), e, base)
    /\ TotalDelay(path) \in Nat
    /\ TotalDelay(path) < DelayModulus =>
          TotalDelay(Truncated(path)) = TotalDelay(path)

(* NewPath: what its loop over the hops makes of them.                     *)
LEMMA MadePath ==
    ASSUME NEW isForward \in BOOLEAN, surb \in BOOLEAN, base \in Nat,
           NEW path, NEW e, NEW i, NEW descs, NEW draws, NEW src, NEW dst,
           IsMade(path, e, isForward, i, descs, draws, src, dst)
    PROVE  IsGood(path, e, isForward)
<1>0. /\ e \in DOMAIN Document /\ {Provider, Peer} \subseteq Document[e].Providers
      /\ src = IF isForward THEN Provider ELSE Peer
      /\ dst = IF isForward THEN Peer ELSE Provider
      /\ i \in 1 .. maxAttempts /\ draws \in Draws
      /\ descs \in selectHops(Document[e], src, dst, isForward)
      /\ KeysFound(Document[e], descs, KeyEpoch(base, i))
      /\ path = PathHops(Document[e], descs, draws, isForward, KeyEpoch(base, i))
  BY Zenon DEF IsMade
<1> USE <1>0
<1> DEFINE T == Document[e].Topology
           ke == KeyEpoch(base, i)
           n == Len(descs)
           made == Truncated(path)
           delayOf(idx) == IF Delayed(idx = n, isForward)
                             THEN Delay(Document[e], draws[idx]) ELSE 0
<1>1. src \in Node /\ dst \in Node
  <2>1. Document[e].Providers \subseteq Node
    BY DocumentAssumption
  <2> QED BY <2>1
<1>2. /\ Len(T) \in Nat /\ DOMAIN T = 1 .. Len(T)
      /\ descs \in Seq(Node) /\ n = First(isForward) + Len(T) + 1
      /\ isForward => descs[1] = src
      /\ descs[n] = dst
      /\ \A l \in DOMAIN T : descs[First(isForward) + l] \in T[l]
  BY <1>1, HopsShape
<1>3. First(isForward) \in {0, 1}
  BY DEF First
<1>4. n \in Nat \ {0} /\ DOMAIN descs = 1 .. n
  BY <1>2, <1>3, LenProperties
<1>5. \A idx \in 1 .. n : draws[idx] \in Nat
  <2>1. draws \in Seq(Nat) /\ Len(draws) >= Len(T) + 2
    BY DocumentAssumption
  <2>2. Len(draws) \in Nat /\ n <= Len(draws)
    BY <1>2, <1>3, <2>1, LenProperties
  <2> QED BY <1>4, <2>1, <2>2, ElementOfSeq
<1>6. /\ path = [idx \in 1 .. n |-> path[idx]]
      /\ \A idx \in 1 .. n :
            /\ path[idx].ID = descs[idx] /\ path[idx].PublicKey = ke
            /\ path[idx].Delay = delayOf(idx)
            /\ "NodeDelay" \in path[idx].Commands <=> delayOf(idx) > 0
            /\ path[idx] = [ID |-> path[idx].ID, PublicKey |-> path[idx].PublicKey,
                            Delay |-> path[idx].Delay, Commands |-> path[idx].Commands]
  BY Zenon, <1>4 DEF PathHops
<1>7. \A idx \in 1 .. n : /\ delayOf(idx) \in Nat
                          /\ delayOf(idx) > 0 <=> Delayed(idx = n, isForward)
  <2> TAKE idx \in 1 .. n
  <2>1. Delay(Document[e], draws[idx]) \in Nat /\ Delay(Document[e], draws[idx]) > 0
    BY Zenon, <1>5, DelayPositive
  <2>2. CASE Delayed(idx = n, isForward)
    BY <2>1, <2>2
  <2>3. CASE ~Delayed(idx = n, isForward)
    <3>1. delayOf(idx) = 0
      BY <2>3
    <3> HIDE DEF delayOf
    <3> QED BY <2>3, <3>1
  <2> QED BY <2>2, <2>3
<1> HIDE DEF delayOf
<1>8. Len(path) = n /\ DOMAIN path = 1 .. n
  BY <1>4, <1>6, FunLen
<1>9. /\ made = [idx \in 1 .. n |-> made[idx]]
      /\ \A idx \in 1 .. n :
            /\ made[idx].ID = descs[idx] /\ made[idx].PublicKey = ke
            /\ "NodeDelay" \in made[idx].Commands <=> Delayed(idx = n, isForward)
  <2>1. made = [idx \in 1 .. n |-> [path[idx] EXCEPT !.Delay = @ % DelayModulus]]
    BY <1>8 DEF Truncated
  <2>2. ASSUME NEW idx \in 1 .. n
        PROVE  /\ made[idx].ID = path[idx].ID
               /\ made[idx].PublicKey = path[idx].PublicKey
               /\ made[idx].Commands = path[idx].Commands
    <3> DEFINE r == path[idx]
    <3>1. made[idx] = [r EXCEPT !.Delay = r.Delay % DelayModulus]
      BY <2>1
    <3>2. r = [ID |-> r.ID, PublicKey |-> r.PublicKey, Delay |-> r.Delay,
               Commands |-> r.Commands]
      BY Zenon, <1>6
    <3> HIDE DEF r, made
    <3> DEFINE c == [r EXCEPT !.Delay = r.Delay % DelayModulus]
    <3>3. c.ID = r.ID /\ c.PublicKey = r.PublicKey /\ c.Commands = r.Commands
      BY Zenon, <3>2, CutOffField
    <3> QED BY <3>1, <3>3 DEF r
  <2> HIDE DEF made
  <2> QED BY ZenonT(60), <1>6, <1>7, <2>1, <2>2
<1> HIDE DEF made
<1>10. Len(made) = n /\ DOMAIN made = 1 .. n
  BY <1>4, <1>9, FunLen
<1>11. Leads(made, e, isForward, surb)
  <2>0. 1 \in 1 .. n /\ n \in 1 .. n
    BY <1>4
  <2>1. isForward => made[1].ID = Provider
    <3>1. made[1].ID = descs[1]
      BY <1>9, <2>0
    <3> QED BY Zenon, <1>2, <3>1
  <2>2. made[n].ID = IF isForward THEN Peer ELSE Provider
    <3>1. made[n].ID = descs[n]
      BY <1>9, <2>0
    <3> QED BY <1>2, <3>1
  <2>3. ASSUME NEW l \in DOMAIN T PROVE made[First(isForward) + l].ID \in T[l]
    <3>1. First(isForward) + l \in 1 .. n
      BY <1>2, <1>3
    <3> QED BY Zenon, <1>2, <1>9, <3>1
  <2> QED BY Zenon, <1>2, <1>4, <1>9, <1>10, <2>1, <2>2, <2>3 DEF Leads, Delayed
<1>12. Keyed(made, e, base)
  <2>1. i - 1 \in 0 .. 2 /\ ke = (base + (i - 1)) % EpochModulus
    BY DEF maxAttempts, KeyEpoch
  <2>2. \A h \in 1 .. n : made[h].PublicKey = ke /\ ke \in Document[e].MixKeys[made[h].ID]
    BY <1>4, <1>9 DEF KeysFound
  <2> QED BY Zenon, <1>10, <2>1, <2>2 DEF Keyed
<1>13. \A idx \in 1 .. n : path[idx].Delay \in Nat
  BY Zenon, <1>6, <1>7
<1>14. TotalDelay(path) \in Nat
  BY <1>4, <1>8, <1>13, TotalDelayBound
<1>15. TotalDelay(path) < DelayModulus => made = path
  <2>1. n \in Nat
    BY <1>4
  <2>2. \A idx \in 1 .. n :
          path[idx] = [ID |-> path[idx].ID, PublicKey |-> path[idx].PublicKey,
                       Delay |-> path[idx].Delay, Commands |-> path[idx].Commands]
    BY Zenon, <1>6
  <2> QED BY ZenonT(60), <1>6, <1>13, <2>1, <2>2, NothingCutOff DEF made
<1> QED BY Zenon, <1>11, <1>12, <1>14, <1>15 DEF made, IsGood
-----------------------------------------------------------------------------
\* How far the paths have come.
HasForward == cpc = "reverse" \/ (cpc \in {"check", "composed"} /\ ~surb)
HasBoth == cpc \in {"check", "composed"} /\ surb

PathOK(i, isForward) ==
    /\ docs[i] \in DOMAIN Document /\ docs[i] \in Nat
    /\ Leads(paths[i], docs[i], isForward, surb)
    /\ Keyed(paths[i], docs[i], base)

\* The paths made so far are good, whatever was begun and given up before, and
\* unless the delays are too long to be used, then is their sum.
PathInv ==
    /\ ~HasForward /\ ~HasBoth => paths = <<>> /\ docs = <<>> /\ then = 0
    /\ HasForward =>
         /\ paths = <<paths[1]>> /\ docs = <<docs[1]>> /\ PathOK(1, TRUE)
         /\ then < DelayModulus => then = TotalDelay(paths[1])
    /\ HasBoth =>
         /\ paths = <<paths[1], paths[2]>> /\ docs = <<docs[1], docs[2]>>
         /\ PathOK(1, TRUE) /\ PathOK(2, FALSE)
         /\ then < DelayModulus => then = TotalDelay(paths[1]) + TotalDelay(paths[2])

\* The variables of a call of ComposeSphinxPacket.
ComposeType ==
    /\ cpc \in {"idle", "now", "forward", "reverse", "check", "composed", "failed"}
    /\ surb \in BOOLEAN /\ base \in 0 .. EpochModulus - 1 /\ budget \in 0 .. TestPeriod
    /\ then \in Nat /\ redos \in 0 .. MaxRedos
    /\ cpc = "reverse" => surb

\* What makePath adds when it does not fail.
Adds(isForward, made, total) ==
    LET e == result[Composer].epoch
    IN /\ e \in DOMAIN Document
       /\ paths' = Append(paths, made) /\ docs' = Append(docs, e)
       /\ then' = then + total
       /\ Leads(made, e, isForward, surb) /\ Keyed(made, e, base)
       /\ total < DelayModulus => TotalDelay(made) = total
       /\ cpc' = IF isForward /\ surb THEN "reverse" ELSE "check"
       /\ UNCHANGED <<surb, base, budget, redos>>

(* makePath fails, or adds a path as NewPath makes them.                   *)
LEMMA MakePathAdds ==
    ASSUME NEW isForward \in BOOLEAN, surb \in BOOLEAN, base \in Nat,
           makePath(isForward)
    PROVE  /\ Return(Composer) /\ gpc[Composer] = "done"
           /\ Fail(cpc) \/ \E made : \E total \in Nat : Adds(isForward, made, total)
<1> DEFINE e == result[Composer].epoch
           src == IF isForward THEN Provider ELSE Peer
           dst == IF isForward THEN Peer ELSE Provider
           choices == selectHops(Document[e], src, dst, isForward)
<1>1. Return(Composer) /\ gpc[Composer] = "done"
  BY Zenon DEF makePath
<1>2. e \in DOMAIN Document /\ {src, dst} \subseteq Document[e].Providers
  BY DEF makePath
<1>3. {Provider, Peer} \subseteq Document[e].Providers
  BY <1>2
<1>4. CASE Fail(cpc)
  BY <1>1, <1>4
<1>5. CASE ~Fail(cpc)
  <2>1. PICK i \in 1 .. maxAttempts, descs \in choices, draws \in Drawn :
          LET path == PathHops(Document[e], descs, draws, isForward, KeyEpoch(base, i))
          IN /\ KeysFound(Document[e], descs, KeyEpoch(base, i))
             /\ paths' = Append(paths, Truncated(path))
             /\ then' = then + TotalDelay(path)
    BY <1>5 DEF makePath
  <2> DEFINE path == PathHops(Document[e], descs, draws, isForward, KeyEpoch(base, i))
  <2>2. /\ docs' = Append(docs, e)
        /\ cpc' = IF isForward /\ surb THEN "reverse" ELSE "check"
        /\ UNCHANGED <<surb, base, budget, redos>>
    BY Zenon, <1>5 DEF makePath
  <2>3. draws \in Draws
    BY DEF Drawn
  <2>4. IsGood(path, e, isForward)
    <3>1. IsMade(path, e, isForward, i, descs, draws, src, dst)
      BY Zenon, <1>2, <1>3, <2>1, <2>3 DEF IsMade
    <3> HIDE DEF src, dst, path, e
    <3> QED BY Zenon, <3>1, MadePath
  <2>5. KeysFound(Document[e], descs, KeyEpoch(base, i))
        /\ paths' = Append(paths, Truncated(path)) /\ then' = then + TotalDelay(path)
    BY Zenon, <2>1
  <2> HIDE DEF path
  <2>6. Adds(isForward, Truncated(path), TotalDelay(path))
    BY Zenon, <1>2, <2>2, <2>4, <2>5 DEF Adds, IsGood
  <2>7. TotalDelay(path) \in Nat
    BY Zenon, <2>4 DEF IsGood
  <2> QED BY Zenon, <1>1, <2>6, <2>7
<1> QED BY <1>4, <1>5
-----------------------------------------------------------------------------
(* Every step of the composer and its surroundings is a step of the epoch  *)
(* cache or leaves the cache alone.                                        *)
LEMMA PacketStepIsEpochStep == [PacketNext]_packetVars => [EpochNext]_vars
<1>1. Composer \in Getter
  BY PacketAssumption
<1>2. ASSUME makePath(TRUE) \/ makePath(FALSE) PROVE Return(Composer)
  BY Zenon, <1>2 DEF makePath
<1> QED BY Zenon, <1>1, <1>2
        DEF PacketNext, packetVars, Compose, ComposerStep, Finish, Environment,
            OtherGetter, CallNow, ReadEpoch, PathFails, ForwardPath, ReversePath,
            NoBudget, Straddled, TooLong, Again, Composed, EpochNext

(* What a first and a second path make of the sequences.                   *)
LEMMA Appended ==
    ASSUME NEW x, NEW y
    PROVE  /\ Append(<<>>, x) = <<x>> /\ Append(<<x>>, y) = <<x, y>>
           /\ <<x>>[1] = x /\ <<x, y>>[1] = x /\ <<x, y>>[2] = y
<1>1. <<>> \in Seq({x, y}) /\ <<x>> \in Seq({x, y}) /\ <<x, y>> \in Seq({x, y})
  OBVIOUS
<1>2. Len(<<>>) = 0 /\ Len(<<x>>) = 1 /\ Len(<<x, y>>) = 2
  OBVIOUS
<1>3. <<x>>[1] = x /\ <<x, y>>[1] = x /\ <<x, y>>[2] = y
  OBVIOUS
<1>4. Append(<<>>, x) = <<x>>
  OBVIOUS
<1>5. Append(<<x>>, y) = <<x, y>>
  <2> DEFINE q == Append(<<x>>, y)
  <2>1. q \in Seq({x, y}) /\ Len(q) = 2 /\ q[1] = x /\ q[2] = y
    BY <1>1, <1>2, <1>3, AppendProperties
  <2> HIDE DEF q
  <2>2. \A i \in 1 .. Len(q) : q[i] = <<x, y>>[i]
    BY <1>2, <1>3, <2>1
  <2>3. q = <<x, y>>
    BY <1>1, <1>2, <2>1, <2>2, SeqEqual
  <2> QED BY <2>3 DEF q
<1> QED BY <1>3, <1>4, <1>5

(* Every step keeps the composer's variables and paths in order.           *)
LEMMA PathStep ==
    ASSUME EpochTypeInv, ComposeType, PathInv, [PacketNext]_packetVars
    PROVE  ComposeType' /\ PathInv'
<1> DEFINE Kept == ComposeType' /\ PathInv'
<1>0. Composer \in Getter /\ MaxRedos \in Nat /\ EpochModulus \in Nat \ {0}
      /\ TestPeriod \in Nat /\ DelayModulus \in Nat
  BY PacketAssumption, EpochAssumption
\* Where a call ends or starts over, nothing is left.
<1>1. ASSUME paths' = <<>>, docs' = <<>>, then' = 0, base' \in 0 .. EpochModulus - 1,
             budget' \in 0 .. TestPeriod, surb' \in BOOLEAN, redos' \in 0 .. MaxRedos,
             cpc' \in {"idle", "now", "forward", "failed"}
      PROVE  Kept
  BY <1>1 DEF ComposeType, PathInv, HasForward, HasBoth
<1>2. ASSUME Forget, cpc' \in {"idle", "failed"} PROVE Kept
  <2>1. 0 \in 0 .. EpochModulus - 1 /\ 0 \in 0 .. TestPeriod /\ 0 \in 0 .. MaxRedos
    BY <1>0
  <2> QED BY Zenon, <1>1, <1>2, <2>1 DEF Forget
<1>3. CASE Compose
  <2>1. CASE Fail("idle")
    BY <1>2, <2>1 DEF Fail, At
  <2>2. CASE /\ At("idle", "now") /\ surb' \in BOOLEAN
             /\ UNCHANGED <<base, budget, paths, docs, then, redos>>
    <3>1. paths = <<>> /\ docs = <<>> /\ then = 0
      BY <2>2 DEF At, PathInv, HasForward, HasBoth
    <3> QED BY <1>1, <2>2, <3>1 DEF At, ComposeType
  <2> QED BY <1>3, <2>1, <2>2 DEF Compose
<1>4. CASE ReadEpoch
  <2>1. CASE Fail("now")
    BY <1>2, <2>1 DEF Fail, At
  <2>2. CASE /\ At("now", "forward") /\ gpc[Composer] = "done"
             /\ base' = result[Composer].epoch /\ budget' = result[Composer].till
             /\ UNCHANGED <<surb, paths, docs, then, redos>>
    <3>1. result[Composer] \in [epoch : 0 .. EpochModulus - 1, till : 0 .. TestPeriod]
      BY <1>0, <2>2 DEF EpochTypeInv
    <3>2. paths = <<>> /\ docs = <<>> /\ then = 0
      BY <2>2 DEF At, PathInv, HasForward, HasBoth
    <3>3. base' \in 0 .. EpochModulus - 1 /\ budget' \in 0 .. TestPeriod
      BY <2>2, <3>1
    <3> QED BY <1>1, <2>2, <3>2, <3>3 DEF At, ComposeType
  <2> QED BY <1>4, <2>1, <2>2 DEF ReadEpoch
<1>5. CASE PathFails
  BY <1>2, <1>5 DEF PathFails, Fail, At
<1>6. CASE ForwardPath
  <2>1. cpc = "forward" /\ makePath(TRUE)
    BY Zenon, <1>6 DEF ForwardPath
  <2>2. surb \in BOOLEAN /\ base \in Nat /\ then \in Nat
    BY <1>0 DEF ComposeType
  <2>3. paths = <<>> /\ docs = <<>> /\ then = 0
    BY <2>1 DEF PathInv, HasForward, HasBoth
  <2>4. CASE Fail(cpc)
    BY <1>2, <2>4 DEF Fail, At
  <2>5. ASSUME NEW made, NEW total \in Nat, Adds(TRUE, made, total) PROVE Kept
    <3> DEFINE e == result[Composer].epoch
    <3>1. e \in Nat
      <4>1. gpc[Composer] = "done"
        BY Zenon, <2>1, <2>2, MakePathAdds
      <4> QED BY <1>0, <4>1 DEF EpochTypeInv
    <3>2. paths' = <<made>> /\ docs' = <<e>> /\ then' = total
      BY <2>3, <2>5, Appended DEF Adds
    <3>3. /\ cpc' \in {"reverse", "check"} /\ (cpc' = "reverse" <=> surb)
          /\ surb' = surb /\ base' = base
      BY <2>2, <2>5 DEF Adds
    <3>4. ComposeType'
      BY <2>5, <3>2, <3>3 DEF Adds, ComposeType
    <3>5. paths'[1] = made /\ docs'[1] = e
      BY <3>2
    <3>6. PathOK(1, TRUE)'
      BY Zenon, <2>5, <3>1, <3>3, <3>5 DEF PathOK, Adds
    <3>7. then' < DelayModulus => then' = TotalDelay(paths'[1])
      BY <2>5, <3>2, <3>5 DEF Adds
    <3>8. HasForward' /\ ~HasBoth'
      BY <2>2, <3>3 DEF HasForward, HasBoth
    <3> QED BY Zenon, <3>2, <3>4, <3>5, <3>6, <3>7, <3>8 DEF PathInv
  <2> QED BY Zenon, <2>1, <2>2, <2>4, <2>5, MakePathAdds
<1>7. CASE ReversePath
  <2>1. cpc = "reverse" /\ makePath(FALSE)
    BY Zenon, <1>7 DEF ReversePath
  <2>2. surb = TRUE /\ base \in Nat /\ then \in Nat
    BY <1>0, <2>1 DEF ComposeType
  <2>3. /\ paths = <<paths[1]>> /\ docs = <<docs[1]>> /\ PathOK(1, TRUE)
        /\ then < DelayModulus => then = TotalDelay(paths[1])
    BY Zenon, <2>1 DEF PathInv, HasForward
  <2>4. CASE Fail(cpc)
    BY <1>2, <2>4 DEF Fail, At
  <2>5. ASSUME NEW made, NEW total \in Nat, Adds(FALSE, made, total) PROVE Kept
    <3> DEFINE e == result[Composer].epoch
    <3>1. e \in Nat
      <4>1. gpc[Composer] = "done"
        BY Zenon, <2>1, <2>2, MakePathAdds
      <4> QED BY <1>0, <4>1 DEF EpochTypeInv
    <3>2. paths' = <<paths[1], made>> /\ docs' = <<docs[1], e>> /\ then' = then + total
      <4>1. paths' = Append(<<paths[1]>>, made) /\ docs' = Append(<<docs[1]>>, e)
        BY Zenon, <2>3, <2>5 DEF Adds
      <4> QED BY Zenon, <2>5, <4>1, Appended DEF Adds
    <3>3. cpc' = "check" /\ surb' = surb /\ base' = base
      BY <2>5 DEF Adds
    <3>4. ComposeType'
      <4>1. then' \in Nat
        BY <2>2, <3>2
      <4> QED BY <2>5, <3>3, <4>1 DEF Adds, ComposeType
    <3>5. /\ paths'[1] = paths[1] /\ docs'[1] = docs[1]
          /\ paths'[2] = made /\ docs'[2] = e
      BY <3>2
    <3>6. PathOK(1, TRUE)'
      BY Zenon, <2>3, <3>3, <3>5 DEF PathOK
    <3>7. PathOK(2, FALSE)'
      BY Zenon, <2>5, <3>1, <3>3, <3>5 DEF PathOK, Adds
    <3>8. then' < DelayModulus => then' = TotalDelay(paths'[1]) + TotalDelay(paths'[2])
      <4> SUFFICES ASSUME then' < DelayModulus
                   PROVE  then' = TotalDelay(paths'[1]) + TotalDelay(paths'[2])
        OBVIOUS
      <4>1. then < DelayModulus /\ total < DelayModulus
        BY <1>0, <2>2, <3>2
      <4>2. then = TotalDelay(paths[1]) /\ total = TotalDelay(made)
        BY <2>3, <2>5, <4>1 DEF Adds
      <4> QED BY <3>2, <3>5, <4>2
    <3>9. ~HasForward' /\ HasBoth'
      BY <2>2, <3>3 DEF HasForward, HasBoth
    <3> QED BY Zenon, <3>2, <3>4, <3>5, <3>6, <3>7, <3>8, <3>9 DEF PathInv
  <2> QED BY Zenon, <2>1, <2>2, <2>4, <2>5, MakePathAdds
<1>8. CASE NoBudget \/ Straddled \/ TooLong
  <2>1. Again /\ redos' \in 0 .. MaxRedos
    BY <1>0, <1>8 DEF NoBudget, Straddled, TooLong, ComposeType
  <2>2. 0 \in 0 .. EpochModulus - 1 /\ 0 \in 0 .. TestPeriod
    BY <1>0
  <2> QED BY <1>1, <2>1, <2>2 DEF Again, At, ComposeType
<1>9. CASE Composed
  <2>1. CASE Fail("check")
    BY <1>2, <2>1 DEF Fail, At
  <2>2. CASE /\ At("check", "composed")
             /\ UNCHANGED <<surb, base, budget, paths, docs, then, redos>>
    <3>1. /\ cpc = "check" /\ cpc' = "composed"
          /\ HasForward' = HasForward /\ HasBoth' = HasBoth
      BY <2>2 DEF At, HasForward, HasBoth
    <3> QED BY Zenon, <2>2, <3>1 DEF ComposeType, PathInv, PathOK
  <2> QED BY <1>9, <2>1, <2>2 DEF Composed
<1>10. CASE Finish
  BY <1>2, <1>10 DEF Finish, At
<1>11. CASE UNCHANGED composeVars
  BY Zenon, <1>11 DEF composeVars, ComposeType, PathInv, PathOK, HasForward, HasBoth
<1>12. \/ UNCHANGED composeVars \/ Compose \/ ReadEpoch \/ PathFails \/ ForwardPath
       \/ ReversePath \/ NoBudget \/ Straddled \/ TooLong \/ Composed \/ Finish
  BY DEF PacketNext, packetVars, ComposerStep, Environment, OtherGetter, CallNow
<1> QED BY <1>3, <1>4, <1>5, <1>6, <1>7, <1>8, <1>9, <1>10, <1>11, <1>12
-----------------------------------------------------------------------------
\* While a path is being made: an epoch that the composer has had from the cache,
\* and one more, since Now takes one off.
Floor == (IF cpc = "forward" THEN base ELSE docs[1]) + 1

\* The cache has not gone back behind it, and neither has the call of Now that
\* the path is waiting for.  Nothing is known of a composer that met the cache
\* before its first query.
FloorInv ==
    cpc \in {"forward", "reverse"} /\ base # EpochModulus - 1 =>
        /\ Floor <= memEpoch
        /\ gpc[Composer] \in {"memory", "update", "updated"} =>
              Floor <= answer[Composer][1]
        /\ gpc[Composer] = "done" =>
              /\ Floor <= result[Composer].epoch + 1
              /\ result[Composer].epoch # EpochModulus - 1

\* The documents come in the order of their epochs.
OrderInv ==
    base # EpochModulus - 1 =>
        /\ HasForward \/ HasBoth => base <= docs[1]
        /\ HasBoth => docs[1] <= docs[2]

(* A step of the cache that is not the composer's return keeps the floor:  *)
(* what a call reads is at least what was remembered when it began.        *)
LEMMA FloorStep ==
    ASSUME EpochInv, NowIsPast, EpochTypeInv, ComposeType, PathInv, FloorInv,
           [EpochNext]_vars, UNCHANGED composeVars
    PROVE  FloorInv'
<1> SUFFICES ASSUME cpc \in {"forward", "reverse"}, base # EpochModulus - 1
             PROVE  FloorInv'
  BY DEF FloorInv, composeVars
<1> DEFINE c == Composer
           a == answer[c][1]
<1>0. /\ c \in Getter /\ memEpoch \in Nat /\ memEpoch' \in Nat /\ epoch \in Nat
      /\ memEpoch <= memEpoch' /\ memEpoch <= epoch
  <2>1. EpochInv' /\ memEpoch' >= memEpoch
    BY StepInv
  <2>2. memEpoch \in Nat /\ memEpoch' \in Nat /\ epoch \in Nat /\ memEpoch <= epoch
    BY <2>1, EpochAssumption DEF EpochInv, Shape, Known
  <2> QED BY <2>1, <2>2, PacketAssumption
<1>1. Floor \in Nat \ {0} /\ Floor' = Floor
  <2>1. base \in Nat /\ (cpc = "reverse" => docs[1] \in Nat)
    <3>1. base \in Nat
      BY EpochAssumption DEF ComposeType
    <3>2. cpc = "reverse" => docs[1] \in Nat
      BY DEF PathInv, PathOK, HasForward
    <3> QED BY <3>1, <3>2
  <2> QED BY <2>1 DEF Floor, composeVars
<1>2. /\ Floor <= memEpoch
      /\ gpc[c] \in {"memory", "update", "updated"} => Floor <= a
      /\ gpc[c] = "done" => /\ Floor <= result[c].epoch + 1
                            /\ result[c].epoch # EpochModulus - 1
  BY DEF FloorInv
<1> HIDE DEF Floor
<1>3. Floor <= memEpoch'
  BY <1>0, <1>1, <1>2
<1>4. ASSUME /\ gpc'[c] \in {"memory", "update", "updated"} => Floor <= answer'[c][1]
             /\ gpc'[c] = "done" => /\ Floor <= result'[c].epoch + 1
                                    /\ result'[c].epoch # EpochModulus - 1
      PROVE  FloorInv'
  BY <1>1, <1>3, <1>4 DEF FloorInv, composeVars
<1>5. CASE UNCHANGED <<gpc, answer, result>>
  BY <1>2, <1>4, <1>5
<1>6. ASSUME NEW g \in Getter \ {c}, Calling(g) \/ Return(g) PROVE FloorInv'
  <2>1. gpc'[c] = gpc[c] /\ answer'[c] = answer[c] /\ result'[c] = result[c]
    <3>1. \E x : gpc' = [gpc EXCEPT ![g] = x]
      BY Zenon, <1>6
         DEF Calling, Return, NilTimer, TakeTick, UseMemory, UseMemHeight, PKIAnswers,
             RememberEpoch, Remember, Retry, GetterAt
    <3>2. answer' = answer \/ \E x : answer' = [answer EXCEPT ![g] = x]
      BY Zenon, <1>6
         DEF Calling, Return, NilTimer, TakeTick, UseMemory, UseMemHeight, PKIAnswers,
             RememberEpoch, Remember, Retry
    <3>3. result' = result \/ \E x : result' = [result EXCEPT ![g] = x]
      BY Zenon, <1>6
         DEF Calling, Return, NilTimer, TakeTick, UseMemory, UseMemHeight, PKIAnswers,
             RememberEpoch, Remember, Retry, Result
    <3> HIDE DEF c
    <3> QED BY <1>0, <3>1, <3>2, <3>3 DEF EpochTypeInv, TypeOK
  <2> QED BY <1>2, <1>4, <2>1
<1>7. CASE Return(c)
  <2>1. gpc'[c] = "idle"
    BY <1>0, <1>7 DEF Return, EpochTypeInv, TypeOK
  <2> QED BY Zenon, <1>4, <2>1
<1>8. CASE NilTimer(c) \/ TakeTick(c) \/ Retry(c)
  <2>1. gpc'[c] \in {"panic", "asking", "error"}
    BY <1>0, <1>8 DEF NilTimer, TakeTick, Retry, GetterAt, EpochTypeInv, TypeOK
  <2> QED BY <1>4, <2>1
<1>9. CASE UseMemory(c)
  <2>1. gpc'[c] = "memory" /\ answer'[c][1] = memEpoch
    BY <1>0, <1>9 DEF UseMemory, GetterAt, EpochTypeInv, TypeOK
  <2> QED BY <1>2, <1>4, <2>1
<1>10. CASE PKIAnswers(c)
  <2>1. gpc'[c] = "failed" \/ (gpc'[c] = "update" /\ answer'[c][1] = epoch)
    BY <1>0, <1>10 DEF PKIAnswers, GetterAt, EpochTypeInv, TypeOK
  <2>2. Floor <= epoch
    BY <1>0, <1>1, <1>2
  <2> QED BY <1>4, <2>1, <2>2
<1>11. CASE RememberEpoch(c)
  <2>1. gpc[c] = "update" /\ gpc'[c] = "updated" /\ answer'[c][1] = a
    BY <1>0, <1>11 DEF RememberEpoch, GetterAt, EpochTypeInv, TypeOK
  <2> QED BY <1>2, <1>4, <2>1
<1>12. CASE UseMemHeight(c) \/ Remember(c)
  <2>1. /\ gpc[c] \in {"memory", "updated"} /\ gpc'[c] = "done"
        /\ result'[c].epoch = Now(a)
    BY <1>0, <1>12
       DEF UseMemHeight, Remember, GetterAt, Result, EpochTypeInv, TypeOK
  <2>2. a \in 0 .. LastEpoch /\ a > 0 /\ Floor <= a
    BY <1>0, <1>1, <1>2, <2>1 DEF EpochTypeInv
  <2>3. 0 \in 0 .. MaxHeight
    BY EpochAssumption
  <2>4. Now(a) + 1 = a /\ Now(a) # EpochModulus - 1
    BY <2>2, <2>3, NowResult
  <2> QED BY <1>4, <2>1, <2>2, <2>4
<1>13. \/ UNCHANGED <<gpc, answer, result>>
       \/ \E g \in Getter : Calling(g) \/ Return(g)
  BY DEF EpochNext, Chain, NewTimer, TimerFires, NextHeight, NextEpoch, vars
<1> QED BY <1>5, <1>6, <1>7, <1>8, <1>9, <1>10, <1>11, <1>12, <1>13 DEF Calling

\* What comes of a call: a delay within the PKI's limits.
LimitInv == cpc = "composed" => then < 2 * TestPeriod

ComposerInv ==
    /\ EpochInv /\ NowIsPast /\ EpochTypeInv /\ BehindInv
    /\ ComposeType /\ PathInv /\ FloorInv /\ OrderInv /\ LimitInv

(* Initially there is no call, and no epoch is remembered.                 *)
LEMMA ComposerInit == PacketInit => ComposerInv
<1> SUFFICES ASSUME PacketInit PROVE ComposerInv
  OBVIOUS
<1>1. EpochInv /\ NowIsPast /\ EpochTypeInv /\ BehindInv
  BY InitInv, EpochTypeInit DEF PacketInit
<1>2. /\ cpc = "idle" /\ surb = FALSE /\ base = 0 /\ budget = 0
      /\ paths = <<>> /\ docs = <<>> /\ then = 0 /\ redos = 0
  BY DEF PacketInit
<1>3. ComposeType
  <2>1. 0 \in 0 .. EpochModulus - 1 /\ 0 \in 0 .. TestPeriod /\ 0 \in 0 .. MaxRedos
    BY EpochAssumption, PacketAssumption
  <2> QED BY Zenon, <1>2, <2>1 DEF ComposeType
<1>4. ~HasForward /\ ~HasBoth
  BY <1>2 DEF HasForward, HasBoth
<1>5. PathInv /\ FloorInv /\ OrderInv /\ LimitInv
  BY <1>2, <1>4 DEF PathInv, FloorInv, OrderInv, LimitInv
<1> QED BY <1>1, <1>3, <1>5 DEF ComposerInv

(* Every step keeps the documents in the order of their epochs.  A path is *)
(* made with the document of an epoch that Now returned while the floor    *)
(* held, and is the next floor: BehindInv says that it was remembered.     *)
LEMMA OrderStep ==
    ASSUME ComposerInv, [PacketNext]_packetVars
    PROVE  FloorInv' /\ OrderInv' /\ LimitInv'
<1> DEFINE Kept == FloorInv' /\ OrderInv' /\ LimitInv'
           r == result[Composer].epoch
<1> USE DEF ComposerInv
<1>0. /\ Composer \in Getter /\ EpochModulus \in Nat \ {0} /\ base \in Nat
      /\ memEpoch \in Nat /\ surb \in BOOLEAN
  BY PacketAssumption, EpochAssumption DEF ComposeType, EpochTypeInv, TypeOK
<1>1. ASSUME cpc' \notin {"forward", "reverse"} PROVE FloorInv'
  BY <1>1 DEF FloorInv
<1>2. ASSUME cpc' \in {"idle", "now", "forward", "failed"} PROVE OrderInv' /\ LimitInv'
  BY <1>2 DEF OrderInv, LimitInv, HasForward, HasBoth
<1>3. CASE Compose \/ PathFails \/ NoBudget \/ Straddled \/ TooLong \/ Finish
  <2>1. cpc' \in {"idle", "now", "failed"}
    BY <1>3
       DEF Compose, PathFails, NoBudget, Straddled, TooLong, Finish, Again, Fail, At
  <2> QED BY <1>1, <1>2, <2>1
<1>4. CASE ReadEpoch
  <2>1. CASE Fail("now")
    BY <1>1, <1>2, <2>1 DEF Fail, At
  <2>2. CASE At("now", "forward") /\ gpc[Composer] = "done" /\ base' = r
    <3>1. Return(Composer)
      BY <1>4 DEF ReadEpoch
    <3>2. gpc'[Composer] = "idle" /\ memEpoch' = memEpoch
      BY <1>0, <3>1 DEF Return, EpochTypeInv, TypeOK
    <3>3. r = EpochModulus - 1 \/ r + 1 <= memEpoch
      BY <1>0, <2>2 DEF BehindInv
    <3>4. cpc' = "forward"
      BY <2>2 DEF At
    <3>5. FloorInv'
      BY <2>2, <3>2, <3>3, <3>4 DEF FloorInv, Floor
    <3> QED BY <1>2, <3>4, <3>5
  <2> QED BY <1>4, <2>1, <2>2 DEF ReadEpoch
<1>5. ASSUME makePath(TRUE) \/ makePath(FALSE), cpc \in {"forward", "reverse"}
      PROVE  /\ gpc[Composer] = "done" /\ r \in Nat
             /\ gpc'[Composer] = "idle" /\ memEpoch' = memEpoch
             /\ base # EpochModulus - 1 => Floor <= r + 1 /\ r + 1 <= memEpoch
  <2>1. Return(Composer) /\ gpc[Composer] = "done"
    BY Zenon, <1>5 DEF makePath
  <2>2. gpc'[Composer] = "idle" /\ memEpoch' = memEpoch
    BY <1>0, <2>1 DEF Return, EpochTypeInv, TypeOK
  <2>3. r \in Nat
    BY <1>0, <2>1 DEF EpochTypeInv
  <2>4. base # EpochModulus - 1 => Floor <= r + 1 /\ r # EpochModulus - 1
    BY <1>5, <2>1 DEF FloorInv
  <2>5. r = EpochModulus - 1 \/ r + 1 <= memEpoch
    BY <1>0, <2>1 DEF BehindInv
  <2> QED BY <2>1, <2>2, <2>3, <2>4, <2>5
<1>6. CASE ForwardPath
  <2>1. cpc = "forward" /\ makePath(TRUE)
    BY Zenon, <1>6 DEF ForwardPath
  <2>2. paths = <<>> /\ docs = <<>>
    BY <2>1 DEF PathInv, HasForward, HasBoth
  <2>3. CASE Fail(cpc)
    BY <1>1, <1>2, <2>3 DEF Fail, At
  <2>4. ASSUME NEW made, NEW total \in Nat, Adds(TRUE, made, total) PROVE Kept
    <3>1. docs' = <<r>>
      BY <2>2, <2>4, Appended DEF Adds
    <3>2. /\ cpc' \in {"reverse", "check"} /\ base' = base /\ docs'[1] = r
          /\ surb' = surb /\ (cpc' = "check" => ~surb)
      BY <1>0, <2>4, <3>1 DEF Adds
    <3>3. base # EpochModulus - 1 => base <= r /\ r + 1 <= memEpoch
      BY <1>0, <1>5, <2>1 DEF Floor
    <3>4. gpc'[Composer] = "idle" /\ memEpoch' = memEpoch
      BY <1>5, <2>1
    <3>5. FloorInv'
      BY <3>2, <3>3, <3>4 DEF FloorInv, Floor
    <3>6. ~HasBoth'
      BY <3>2 DEF HasBoth
    <3>7. OrderInv' /\ LimitInv'
      BY <3>2, <3>3, <3>6 DEF OrderInv, LimitInv
    <3> QED BY <3>5, <3>7
  <2> QED BY Zenon, <1>0, <2>1, <2>3, <2>4, MakePathAdds
<1>7. CASE ReversePath
  <2>1. cpc = "reverse" /\ makePath(FALSE)
    BY Zenon, <1>7 DEF ReversePath
  <2>2. docs = <<docs[1]>> /\ docs[1] \in Nat /\ HasForward
    BY <2>1 DEF PathInv, HasForward, PathOK
  <2>3. CASE Fail(cpc)
    BY <1>1, <1>2, <2>3 DEF Fail, At
  <2>4. ASSUME NEW made, NEW total \in Nat, Adds(FALSE, made, total) PROVE Kept
    <3>1. docs' = <<docs[1], r>>
      <4>1. docs' = Append(<<docs[1]>>, r)
        BY Zenon, <2>2, <2>4 DEF Adds
      <4> QED BY Zenon, <4>1, Appended
    <3>2. cpc' = "check" /\ base' = base /\ docs'[1] = docs[1] /\ docs'[2] = r
      BY <2>4, <3>1 DEF Adds
    <3>3. base # EpochModulus - 1 => base <= docs[1] /\ docs[1] <= r
      <4>1. base # EpochModulus - 1 => base <= docs[1]
        BY <2>2 DEF OrderInv
      <4>2. base # EpochModulus - 1 => docs[1] <= r
        BY <1>5, <2>1, <2>2 DEF Floor
      <4> QED BY <4>1, <4>2
    <3>4. OrderInv' /\ LimitInv'
      BY <3>2, <3>3 DEF OrderInv, LimitInv
    <3> QED BY <1>1, <3>2, <3>4
  <2> QED BY Zenon, <1>0, <2>1, <2>3, <2>4, MakePathAdds
<1>8. CASE Composed
  <2>1. CASE Fail("check")
    BY <1>1, <1>2, <2>1 DEF Fail, At
  <2>2. CASE /\ At("check", "composed")
             /\ UNCHANGED <<surb, base, budget, paths, docs, then, redos>>
    <3>1. /\ cpc = "check" /\ cpc' = "composed"
          /\ HasForward' = HasForward /\ HasBoth' = HasBoth
      BY <2>2 DEF At, HasForward, HasBoth
    <3>2. OrderInv'
      BY <2>2, <3>1 DEF OrderInv
    <3>3. LimitInv'
      BY <1>8, <2>2 DEF LimitInv, Composed, DelaysAllowed
    <3> QED BY <1>1, <3>1, <3>2, <3>3
  <2> QED BY <1>8, <2>1, <2>2 DEF Composed
<1>9. CASE UNCHANGED composeVars
  <2>1. FloorInv'
    BY <1>9, FloorStep, PacketStepIsEpochStep
  <2>2. OrderInv' /\ LimitInv'
    BY <1>9 DEF composeVars, OrderInv, LimitInv, HasForward, HasBoth
  <2> QED BY <2>1, <2>2
<1>10. \/ UNCHANGED composeVars \/ Compose \/ ReadEpoch \/ PathFails \/ ForwardPath
       \/ ReversePath \/ NoBudget \/ Straddled \/ TooLong \/ Composed \/ Finish
  BY DEF PacketNext, packetVars, ComposerStep, Environment, OtherGetter, CallNow
<1> QED BY <1>3, <1>4, <1>6, <1>7, <1>8, <1>9, <1>10
-----------------------------------------------------------------------------
(* Every step of the composer and the cache preserves the invariant.       *)
LEMMA ComposerStepInv == ComposerInv /\ [PacketNext]_packetVars => ComposerInv'
<1> SUFFICES ASSUME ComposerInv, [PacketNext]_packetVars PROVE ComposerInv'
  OBVIOUS
<1>1. [EpochNext]_vars
  BY PacketStepIsEpochStep
<1>2. EpochInv' /\ NowIsPast'
  BY <1>1, StepInv DEF ComposerInv
<1>3. EpochTypeInv' /\ BehindInv'
  BY <1>1, EpochTypeStep DEF ComposerInv
<1>4. ComposeType' /\ PathInv'
  BY PathStep DEF ComposerInv
<1>5. FloorInv' /\ OrderInv' /\ LimitInv'
  BY OrderStep
<1> QED BY <1>2, <1>3, <1>4, <1>5 DEF ComposerInv

(* It holds of every state that the composer and the cache reach.          *)
LEMMA ComposerInvariant == PacketSpec => []ComposerInv
BY ComposerInit, ComposerStepInv, PTL DEF PacketSpec, PacketSafety

(* The cache under the composer is the cache by itself: what epochtime.Now *)
(* and GetEpoch promise to whoever calls, they keep while packets are      *)
(* composed.                                                               *)
THEOREM ComposerUsesEpoch == PacketSpec => EpochSpec
<1>1. PacketInit => Init
  BY DEF PacketInit
<1> QED BY <1>1, PacketStepIsEpochStep, PTL DEF PacketSpec, PacketSafety, EpochSpec

(* The number of paths that there are.                                     *)
LEMMA PathCount ==
    ASSUME ComposerInv
    PROVE  /\ HasForward => Len(paths) = 1 /\ DOMAIN paths = {1}
                            /\ Len(docs) = 1 /\ DOMAIN docs = {1}
           /\ HasBoth => Len(paths) = 2 /\ DOMAIN paths = {1, 2}
                         /\ Len(docs) = 2 /\ DOMAIN docs = {1, 2}
           /\ ~HasForward /\ ~HasBoth => Len(paths) = 0 /\ DOMAIN paths = {}
                                         /\ Len(docs) = 0 /\ DOMAIN docs = {}
<1>1. ASSUME NEW x, NEW y
      PROVE  /\ Len(<<>>) = 0 /\ DOMAIN <<>> = {} /\ Len(<<x>>) = 1
             /\ DOMAIN <<x>> = {1} /\ Len(<<x, y>>) = 2 /\ DOMAIN <<x, y>> = {1, 2}
  OBVIOUS
<1>2. HasForward => paths = <<paths[1]>> /\ docs = <<docs[1]>>
  BY DEF ComposerInv, PathInv
<1>3. HasBoth => paths = <<paths[1], paths[2]>> /\ docs = <<docs[1], docs[2]>>
  BY DEF ComposerInv, PathInv
<1>4. ~HasForward /\ ~HasBoth => paths = <<>> /\ docs = <<>>
  BY DEF ComposerInv, PathInv
<1>5. HasForward => Len(paths) = 1 /\ DOMAIN paths = {1}
                    /\ Len(docs) = 1 /\ DOMAIN docs = {1}
  BY Zenon, <1>1, <1>2
<1>6. HasBoth => Len(paths) = 2 /\ DOMAIN paths = {1, 2}
                 /\ Len(docs) = 2 /\ DOMAIN docs = {1, 2}
  BY Zenon, <1>1, <1>3
<1>7. ~HasForward /\ ~HasBoth => Len(paths) = 0 /\ DOMAIN paths = {}
                                 /\ Len(docs) = 0 /\ DOMAIN docs = {}
  BY Zenon, <1>1, <1>4
<1> QED BY <1>5, <1>6, <1>7

(* The composed packet's paths, one by one.                                *)
LEMMA RoundTripHolds == ComposerInv => RoundTrip
<1> SUFFICES ASSUME ComposerInv PROVE RoundTrip
  OBVIOUS
<1>1. PacketTypeOK
  <2>1. Len(paths) \in 0 .. 2 /\ Len(docs) \in 0 .. 2
    BY PathCount
  <2> QED BY <2>1 DEF ComposerInv, ComposeType, EpochTypeInv, PacketTypeOK
<1> SUFFICES ASSUME cpc = "composed" PROVE RoundTrip!2!2
  BY Zenon, <1>1 DEF RoundTrip
<1> DEFINE Good(i) ==
      LET path == paths[i]
          Topology == Document[docs[i]].Topology
          first == IF i = 1 THEN 1 ELSE 0
      IN /\ Len(path) = first + Len(Topology) + 1
         /\ \A l \in DOMAIN Topology : path[first + l].ID \in Topology[l]
         /\ path[Len(path)].ID = IF i = 1 THEN Peer ELSE Provider
         /\ \A h \in DOMAIN path :
               "NodeDelay" \in path[h].Commands <=> ~(i = Len(paths) /\ h = Len(path))
<1>2. then < DelayModulus
  <2>1. then < 2 * TestPeriod
    BY DEF ComposerInv, LimitInv
  <2> QED BY <2>1, PacketAssumption, EpochAssumption DEF ComposerInv, ComposeType
<1>3. surb \in BOOLEAN
  BY DEF ComposerInv, ComposeType
<1>4. CASE ~surb
  <2>1. HasForward
    BY <1>4 DEF HasForward
  <2>2. Len(paths) = 1 /\ DOMAIN paths = {1}
    BY <2>1, PathCount
  <2>3. Leads(paths[1], docs[1], TRUE, surb) /\ then = TotalDelay(paths[1])
    BY Zenon, <1>2, <2>1 DEF ComposerInv, PathInv, PathOK
  <2>4. paths[1][1].ID = Provider /\ Good(1)
    BY <1>4, <2>2, <2>3 DEF Leads, First
  <2>5. TotalDelay(paths[1]) \in Nat
    BY <2>3 DEF ComposerInv, ComposeType
  <2> HIDE DEF Good
  <2>6. \A i \in DOMAIN paths : Good(i)
    BY <2>2, <2>4
  <2>7. then = TotalDelay(paths[1]) + IF surb THEN TotalDelay(paths[2]) ELSE 0
    BY <1>4, <2>3, <2>5
  <2> QED BY Zenon, <1>4, <2>2, <2>4, <2>6, <2>7 DEF Good
<1>5. CASE surb
  <2>1. HasBoth
    BY <1>5 DEF HasBoth
  <2>2. Len(paths) = 2 /\ DOMAIN paths = {1, 2}
    BY <2>1, PathCount
  <2>3. /\ Leads(paths[1], docs[1], TRUE, surb) /\ Leads(paths[2], docs[2], FALSE, surb)
        /\ then = TotalDelay(paths[1]) + TotalDelay(paths[2])
    BY ZenonT(60), <1>2, <2>1 DEF ComposerInv, PathInv, PathOK
  <2>4. paths[1][1].ID = Provider /\ Good(1)
    BY <1>5, <2>2, <2>3 DEF Leads, First
  <2>5. Good(2)
    BY Zenon, <1>5, <2>2, <2>3 DEF Leads, First
  <2> HIDE DEF Good
  <2>6. \A i \in DOMAIN paths : Good(i)
    BY <2>2, <2>4, <2>5
  <2>7. then = TotalDelay(paths[1]) + IF surb THEN TotalDelay(paths[2]) ELSE 0
    BY <1>5, <2>3
  <2> QED BY Zenon, <1>5, <2>2, <2>4, <2>6, <2>7 DEF Good
<1> QED BY Zenon, <1>3, <1>4, <1>5

(* Whatever the documents, the draws and the course of the epochs, a       *)
(* composed packet leads from the client's provider through every layer to *)
(* the recipient's and back, and its delay is the sum of what its hops are *)
(* told.                                                                   *)
THEOREM RoundTripCorrect == PacketSpec => []RoundTrip
BY ComposerInvariant, RoundTripHolds, PTL

(* The keys of a path are of one epoch.                                    *)
LEMMA KeysHold == ComposerInv => KeysOfOneEpoch
<1> SUFFICES ASSUME ComposerInv PROVE KeysOfOneEpoch
  OBVIOUS
<1>1. \A i \in DOMAIN paths : Keyed(paths[i], docs[i], base)
  BY Zenon, PathCount DEF ComposerInv, PathInv, PathOK
<1>2. base # EpochModulus - 1 =>
          /\ \A i \in DOMAIN docs : base <= docs[i]
          /\ Len(docs) = 2 => docs[1] <= docs[2]
  <2> SUFFICES ASSUME base # EpochModulus - 1
               PROVE  /\ \A i \in DOMAIN docs : base <= docs[i]
                      /\ Len(docs) = 2 => docs[1] <= docs[2]
    OBVIOUS
  <2>1. CASE HasForward
    BY <2>1, PathCount DEF ComposerInv, OrderInv
  <2>2. CASE HasBoth
    <3>1. base <= docs[1] /\ docs[1] <= docs[2] /\ DOMAIN docs = {1, 2}
      BY <2>2, PathCount DEF ComposerInv, OrderInv
    <3>2. base \in Nat /\ docs[1] \in Nat /\ docs[2] \in Nat
      BY <2>2, EpochAssumption DEF ComposerInv, ComposeType, PathInv, PathOK
    <3> QED BY <3>1, <3>2
  <2>3. CASE ~HasForward /\ ~HasBoth
    BY <2>3, PathCount
  <2> QED BY <2>1, <2>2, <2>3
<1> QED BY <1>1, <1>2 DEF KeysOfOneEpoch, Keyed

(* However the epoch changes under the composer, the keys of a path are of *)
(* one epoch that all its hops have, and the documents are never older     *)
(* than the epoch it began with, nor the second than the first.            *)
THEOREM KeysCorrect == PacketSpec => []KeysOfOneEpoch
BY ComposerInvariant, KeysHold, PTL
=============================================================================
