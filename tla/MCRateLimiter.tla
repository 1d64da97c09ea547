----------------------------- MODULE MCRateLimiter -----------------------------
(* Instance of RateLimiter for TLC: two threads, two permits, a window of    *)
(* three ticks.  Sleepers wake up in time, and nobody enters acquire in the  *)
(* tick in which the oldest timestamp is exactly one window old: whatever    *)
(* exceeds the budget is done by those who sleep together.  MaxStamps leaves *)
(* room for a budget exceeded three times.                                   *)
EXTENDS RateLimiter

AtEdge == Pruned # <<>> /\ Head(Pruned) = Window
Enter(t) == ~AtEdge /\ (AcquireAtOnce(t) \/ AcquireLater(t))
TickInTime == (\A t \in asleep : sleep[t] > 0) /\ Tick

SleepersNext ==
    \/ \E t \in Threads : Enter(t) \/ WakeUp(t)
    \/ TickInTime

\* The program itself: only tests call reset.
SleepersSpec == LimiterInit /\ [][SleepersNext]_limiterVars
=============================================================================
