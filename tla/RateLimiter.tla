------------------------------ MODULE RateLimiter ------------------------------
(***************************************************************************)
(* RateLimiter of utils/rate_limiter.py, which every request of an API     *)
(* client passes: at most max_calls permits in any time_window.  acquire   *)
(* has two critical sections under one lock; a caller that finds the       *)
(* budget spent sleeps between them, and the second one grants it a permit *)
(* without looking at the budget again.                                    *)
(*                                                                         *)
(* Time is counted in ticks and kept relative to now: a timestamp is its   *)
(* age, and every age past the window is Window + 1.  A thread may read    *)
(* the clock any number of times in one tick.  The clock never steps back. *)
(***************************************************************************)
EXTENDS Integers, Sequences, FiniteSets, FiniteSetsExt

CONSTANTS
    Threads,   \* callers of acquire
    MaxCalls,  \* max_calls
    Window,    \* time_window, in ticks
    MaxStamps  \* bound: timestamps in the deque, present and to come

\* __init__ raises ValueError for a budget or a window that is not positive.
ASSUME LimiterAssumption ==
    /\ MaxCalls \in Nat \ {0}
    /\ Window \in Nat \ {0}
    /\ MaxStamps \in Nat
ASSUME ThreadsAssumption == IsFiniteSet(Threads)

VARIABLES
    stamps,     \* _timestamps: ages, oldest first
    asleep,     \* threads between the two critical sections
    sleep,      \* [Threads -> ticks each sleeping thread still has to sleep]
    granted,    \* history: ages of the permits of the last Window ticks
    contended   \* history: a budget check could have been misled, see Misled

limiterVars == <<stamps, asleep, sleep, granted, contended>>

LimiterTypeOK ==
    /\ stamps \in Seq(0..Window + 1)
    /\ Len(stamps) + Cardinality(asleep) <= MaxStamps
    /\ asleep \subseteq Threads
    /\ sleep \in [Threads -> 0..Window]
    /\ granted \in Seq(0..Window - 1)
    /\ contended \in BOOLEAN

LimiterInit ==
    /\ stamps = <<>>
    /\ asleep = {}
    /\ sleep = [t \in Threads |-> 0]
    /\ granted = <<>>
    /\ contended = FALSE

-----------------------------------------------------------------------------
(* Helpers *)

\* Ages without the first ones, as far as they are beyond a limit.
Within(limit, ages) ==
    LET expired == {n \in 0..Len(ages) : \A k \in 1..n : ages[k] > limit}
    IN  SubSeq(ages, 1 + Max(expired), Len(ages))

\* The popleft loop: it stops at the first timestamp inside the window.
Pruned == Within(Window, stamps)

\* A permit now: the timestamp joins "before".
Grant(before) ==
    /\ stamps' = Append(before, 0)
    /\ granted' = Append(granted, 0)

\* History: while somebody sleeps the deque lacks the permit that sleeper will
\* get, and a head exactly one window old is neither dropped nor waited for.
Misled(t) ==
    \/ asleep \ {t} # {}
    \/ Pruned # <<>> /\ Head(Pruned) = Window

WithinBound == Len(Pruned) + Cardinality(asleep) < MaxStamps

-----------------------------------------------------------------------------
(* Actions *)

\* Mutant of AcquireAtOnce: <= where the code has <.
AcquireOneMore(t) ==
    /\ t \notin asleep
    /\ WithinBound
    /\ Len(Pruned) <= MaxCalls
    /\ Grant(Pruned)
    /\ contended' = (contended \/ Misled(t))
    /\ UNCHANGED <<asleep, sleep>>

\* The first critical section finds budget left: acquire returns.
AcquireAtOnce(t) ==
    /\ t \notin asleep
    /\ WithinBound
    /\ Len(Pruned) < MaxCalls
    /\ Grant(Pruned)
    /\ contended' = (contended \/ Misled(t))
    /\ UNCHANGED <<asleep, sleep>>

\* It finds none: sleep until the oldest timestamp is one window old.
AcquireLater(t) ==
    /\ t \notin asleep
    /\ WithinBound
    /\ Len(Pruned) >= MaxCalls
    /\ stamps' = Pruned
    /\ asleep' = asleep \cup {t}
    /\ sleep' = [sleep EXCEPT ![t] = Window - Head(Pruned)]
    /\ contended' = (contended \/ Misled(t))
    /\ UNCHANGED granted

\* Mutant of WakeUp: the permit is not entered into the deque.
WakeUpUnrecorded(t) ==
    /\ t \in asleep
    /\ sleep[t] = 0
    /\ granted' = Append(granted, 0)
    /\ asleep' = asleep \ {t}
    /\ UNCHANGED <<stamps, sleep, contended>>

\* Mutant of WakeUp: the budget is checked again, so others may get in first.
WakeUpAndRecheck(t) ==
    /\ t \in asleep
    /\ sleep[t] = 0
    /\ IF Len(Pruned) < MaxCalls
          THEN Grant(Pruned) /\ asleep' = asleep \ {t} /\ UNCHANGED sleep
          ELSE /\ sleep' = [sleep EXCEPT ![t] = Window - Head(Pruned)]
               /\ UNCHANGED <<stamps, granted, asleep>>
    /\ UNCHANGED contended

\* time.sleep is over and the second critical section runs: acquire returns.
WakeUp(t) ==
    /\ t \in asleep
    /\ sleep[t] = 0
    /\ Grant(stamps)
    /\ asleep' = asleep \ {t}
    /\ UNCHANGED <<sleep, contended>>

\* reset() starts a new account.
Reset ==
    /\ stamps # <<>>
    /\ stamps' = <<>>
    /\ granted' = <<>>
    /\ UNCHANGED <<asleep, sleep, contended>>

\* The clock advances by one tick.
Tick ==
    LET Older(a) == IF a > Window THEN a ELSE a + 1
    IN  /\ stamps' = [k \in DOMAIN stamps |-> Older(stamps[k])]
        /\ sleep' = [t \in Threads |-> IF sleep[t] > 0 THEN sleep[t] - 1 ELSE 0]
        /\ granted' = Within(Window - 1, [k \in DOMAIN granted |-> granted[k] + 1])
        /\ UNCHANGED <<asleep, contended>>

Use ==
    \/ \E t \in Threads : AcquireAtOnce(t) \/ AcquireLater(t) \/ WakeUp(t)
    \/ Tick

LimiterNext == Use \/ Reset

LimiterSpec == LimiterInit /\ [][LimiterNext]_limiterVars

\* Time goes on, and a thread whose sleep is over is scheduled and gets the lock.
LimiterFairSpec ==
    LimiterSpec /\ WF_limiterVars(Tick) /\ \A t \in Threads : WF_limiterVars(WakeUp(t))

-----------------------------------------------------------------------------
(* Properties *)

\* What the class documents: max_calls permits in a window, for any number of
\* threads.
InBudget == Len(granted) <= MaxCalls

\* What it gives: the budget holds until acquire is entered while another
\* caller sleeps, or in the tick in which the oldest timestamp is exactly one
\* window old.
InBudgetUntilContended == ~contended => InBudget

\* The deque never forgets a permit that still counts, and keeps them in order,
\* after those that no longer do: pruning from the left is enough whoever
\* appended last.
NothingForgotten ==
    \E n \in 0..Len(stamps) :
        /\ \A k \in 1..n : stamps[k] >= Window
        /\ granted = SubSeq(stamps, n + 1, Len(stamps))

\* Every acquire returns, whatever the other callers take meanwhile.
AcquireEnds == \A t \in Threads : t \in asleep ~> t \notin asleep
=============================================================================
