---------------------------- MODULE MCTimerQueue ----------------------------
(* TimerQueue with three items, one of them with a priority that no int64  *)
(* holds.                                                                  *)
EXTENDS TimerQueue, TLC

CONSTANTS t1, t2, t3, none
PriorityOf == t1 :> 1 @@ t2 :> 2 @@ t3 :> 7
=============================================================================
