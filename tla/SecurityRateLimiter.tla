-------------------------- MODULE SecurityRateLimiter --------------------------
(***************************************************************************)
(* One bucket of _SecurityRateLimiter of services/security_gateway.py,     *)
(* which the gateway asks before it sanitises an input or lets a file      *)
(* operation pass: at most max_calls admissions in an interval, a refusal  *)
(* otherwise.  try_acquire reads the clock first and takes the lock then,  *)
(* so a caller may decide by a reading that others have overtaken.  The    *)
(* queue is a deque with a maximal length of its own, and drops its oldest *)
(* event when it is full.                                                  *)
(*                                                                         *)
(* Time is in ticks, relative to now: a reading and an event are ages.     *)
(***************************************************************************)
EXTENDS Integers, Sequences, FiniteSets, FiniteSetsExt

CONSTANTS
    Callers,        \* threads that call try_acquire
    Idle,           \* no reading: the caller is not in try_acquire
    SecurityCalls,  \* max_calls
    Interval,       \* interval, in ticks
    QueueSizes,     \* values of max_queue_size, which the environment may set
    MaxBackoff,     \* max_backoff_multiplier; the base is 2
    MaxDelay,       \* bound: ticks between a reading and its use
    MaxAdmitted     \* bound: admissions on record at a time

\* SecurityGateway builds a limiter only for a positive budget and interval.
ASSUME SecurityAssumption ==
    /\ SecurityCalls \in Nat \ {0} /\ Interval \in Nat \ {0}
    /\ QueueSizes \subseteq Nat \ {0}
    /\ MaxBackoff \in Nat \ {0} /\ MaxDelay \in Nat /\ MaxAdmitted \in Nat
    /\ Idle \notin Nat

VARIABLES
    queueSize,  \* _max_queue_size
    events,     \* _events[bucket]
    reading,    \* [Callers -> now, or Idle]
    backoff,    \* _backoff_state[bucket]
    admitted,   \* history: ages of the admissions, at the time they were made
    delay       \* history: the oldest reading anybody has decided by

securityVars == <<queueSize, events, reading, backoff, admitted, delay>>

\* Ages past this one are not told apart.
Horizon == Interval + MaxDelay + 1

SecurityTypeOK ==
    /\ queueSize \in QueueSizes
    /\ events \in Seq(0..Horizon) /\ Len(events) <= queueSize
    /\ reading \in [Callers -> 0..MaxDelay \cup {Idle}]
    /\ backoff \in 1..MaxBackoff
    /\ admitted \in Seq(0..Horizon)
    /\ delay \in 0..MaxDelay

SecurityInit ==
    /\ queueSize \in QueueSizes
    /\ events = <<>>
    /\ reading = [t \in Callers |-> Idle]
    /\ backoff = 1
    /\ admitted = <<>>
    /\ delay = 0

-----------------------------------------------------------------------------
(* Helpers *)

\* What is left of a queue when its leading events older than an age have left:
\* it stops at the first event that is not.
NotOlder(q, age) ==
    LET gone == {n \in 0..Len(q) : \A k \in 1..n : q[k] > age}
    IN  SubSeq(q, 1 + Max(gone), Len(q))

\* Mutant of Remaining: an event is dropped when it is exactly one interval old.
RemainingEarly(now) == NotOlder(events, Interval + now - 1)

\* The popleft loop of a caller whose reading is "now".
Remaining(now) == NotOlder(events, Interval + now)

\* deque.append with maxlen: a full queue drops its head.
Enqueue(q, e) == Append(IF Len(q) < queueSize THEN q ELSE Tail(q), e)

\* Admissions that are at most "age" ticks old.
Recent(age) == Cardinality({k \in DOMAIN admitted : admitted[k] <= age})

Later(m, n) == IF m > n THEN m ELSE n

-----------------------------------------------------------------------------
(* Actions *)

\* now = time.time()
ReadClock(t) ==
    /\ reading[t] = Idle
    /\ Len(admitted) + Cardinality({u \in Callers : reading[u] # Idle}) < MaxAdmitted
    /\ reading' = [reading EXCEPT ![t] = 0]
    /\ UNCHANGED <<queueSize, events, backoff, admitted, delay>>

\* Under the lock: fewer events than max_calls are left, and try_acquire admits.
Admit(t) ==
    /\ reading[t] # Idle
    /\ Len(Remaining(reading[t])) < SecurityCalls
    /\ events' = Enqueue(Remaining(reading[t]), reading[t])
    /\ backoff' = 1
    /\ reading' = [reading EXCEPT ![t] = Idle]
    /\ admitted' = Append(admitted, 0)
    /\ delay' = Later(delay, reading[t])
    /\ UNCHANGED queueSize

\* Under the lock: the budget is spent, and the time to retry after grows.
Refuse(t) ==
    /\ reading[t] # Idle
    /\ Len(Remaining(reading[t])) >= SecurityCalls
    /\ events' = Remaining(reading[t])
    /\ backoff' = IF 2 * backoff < MaxBackoff THEN 2 * backoff ELSE MaxBackoff
    /\ reading' = [reading EXCEPT ![t] = Idle]
    /\ delay' = Later(delay, reading[t])
    /\ UNCHANGED <<queueSize, admitted>>

SecurityTick ==
    LET Older(a) == IF a < Horizon THEN a + 1 ELSE a
    IN  /\ \A t \in Callers : reading[t] # MaxDelay
        /\ events' = [k \in DOMAIN events |-> Older(events[k])]
        /\ reading' = [t \in Callers |-> IF reading[t] = Idle THEN Idle ELSE reading[t] + 1]
        /\ admitted' = NotOlder([k \in DOMAIN admitted |-> Older(admitted[k])], Horizon - 1)
        /\ UNCHANGED <<queueSize, backoff, delay>>

SecurityNext ==
    \/ \E t \in Callers : ReadClock(t) \/ Admit(t) \/ Refuse(t)
    \/ SecurityTick

SecuritySpec == SecurityInit /\ [][SecurityNext]_securityVars

-----------------------------------------------------------------------------
(* Properties *)

\* What readings taken outside the lock cost: with D the longest delay between
\* a reading and its use, a call is admitted only if fewer than max_calls were
\* admitted within the interval less D, and refused only if max_calls were
\* within the interval and D more, although events enter the queue out of order.
\* The first half needs a queue that can hold max_calls events.
SecurityVerdicts ==
    [][\A t \in Callers :
         /\ Admit(t) /\ queueSize >= SecurityCalls =>
               Recent(Interval - delay') < SecurityCalls
         /\ Refuse(t) => Recent(Interval + delay') >= SecurityCalls
      ]_securityVars
=============================================================================
