------------------------------- MODULE ApiProofs -------------------------------
(***************************************************************************)
(* Theorems about the calls of an API client: ApiClient and ApiFetch for   *)
(* every number of retries, every threshold and every number of items,     *)
(* RateLimiter for every number of threads, every budget and every window, *)
(* and ZephyrFetch for every server, all page sizes and every number of    *)
(* items.                                                                  *)
(***************************************************************************)
EXTENDS ApiFetch, RateLimiter, ZephyrFetch, CommonLemmas

-----------------------------------------------------------------------------
(***************************************************************************)
(* ApiClient and ApiFetch                                                  *)
(*                                                                         *)
(* The three safety invariants of the breaker are inductive together with  *)
(* the types; fetch_all only uses the client through its actions, so they  *)
(* carry over to ApiFetch by step simulation.                              *)
(***************************************************************************)

-----------------------------------------------------------------------------
(* The client alone *)

ApiInv ==
    /\ ApiTypeOK
    /\ NoAttemptWhileOpen
    /\ OpenIsJustified
    /\ ProbeSettlesBreaker

LEMMA ApiInitInv == ApiInit => ApiInv
<1> SUFFICES ASSUME ApiInit
             PROVE  ApiInv
    OBVIOUS
<1>1. ApiTypeOK
  <2>1. open \in BOOLEAN
        BY DEF ApiInit
  <2>2. QED
        BY <2>1, MaxRetriesAssumption DEF ApiInit, ApiTypeOK, Ages, Outcomes
<1>2. ~open
      BY DEF ApiInit
<1>3. ~(failures >= Threshold)
      BY ThresholdAssumption DEF ApiInit
<1>4. QED
      BY <1>1, <1>2, <1>3 DEF ApiInv, NoAttemptWhileOpen, OpenIsJustified,
                              ProbeSettlesBreaker

\* What _record_failure establishes, whatever else the step does.
LEMMA RecordedFailureJustifies ==
    ASSUME ApiInv, RecordFailure
    PROVE  OpenIsJustified' /\ (failures' >= Threshold => open')
<1>1. failures' >= Threshold => open'
      BY DEF RecordFailure
<1>2. open => failures' >= Threshold
      BY ThresholdAssumption DEF ApiInv, ApiTypeOK, OpenIsJustified, RecordFailure
<1>3. open' => failures' >= Threshold
      BY <1>2 DEF RecordFailure
<1>4. last' # "none"
      BY DEF RecordFailure
<1>5. QED
      BY <1>1, <1>3, <1>4 DEF OpenIsJustified

\* One step of the client, action by action.
LEMMA ApiStepInv == ApiInv /\ [ApiNext]_apiVars => ApiInv'
<1> SUFFICES ASSUME ApiInv, [ApiNext]_apiVars
             PROVE  ApiInv'
    OBVIOUS
<1> USE ThresholdAssumption, MaxRetriesAssumption
        DEF ApiInv, ApiTypeOK, NoAttemptWhileOpen, OpenIsJustified,
            ProbeSettlesBreaker, Ages, Outcomes, breaker
<1>1. CASE RequestRejected
  <2>1. open /\ UNCHANGED breaker /\ req' = "idle"
        BY <1>1 DEF RequestRejected, End
  <2>2. ApiTypeOK'
        BY <1>1 DEF RequestRejected, End
  <2>3. QED
        BY <2>1, <2>2
<1>2. CASE RequestStarts
  <2>1. ~open' /\ req' = "attempt"
        BY <1>2 DEF RequestStarts
  <2>2. open' \in BOOLEAN
        BY <1>2 DEF RequestStarts
  <2>3. ApiTypeOK'
        BY <1>2, <2>2 DEF RequestStarts
  <2>4. QED
        BY <2>1, <2>3
<1>3. CASE AttemptSucceeds
  <2>1. ~open' /\ open' \in BOOLEAN
        BY <1>3 DEF AttemptSucceeds, RecordSuccess
  <2>2. ApiTypeOK' /\ ~(failures' >= Threshold)
        BY <1>3, <2>1 DEF AttemptSucceeds, RecordSuccess, End
  <2>3. QED
        BY <2>1, <2>2
<1>4. CASE AttemptThrottled
      BY <1>4 DEF AttemptThrottled, NextAttempt
<1>5. ASSUME NEW suppressed \in BOOLEAN, AttemptHttpError(suppressed)
      PROVE  ApiInv'
  <2>1. CASE open'
    <3>1. ApiTypeOK' /\ req' = "idle"
          BY <1>5, <2>1 DEF AttemptHttpError, RecordFailure, End
    <3>2. OpenIsJustified'
          BY <1>5, RecordedFailureJustifies DEF AttemptHttpError
    <3>3. QED
          BY <2>1, <3>1, <3>2
  <2>2. CASE ~open'
    <3>1. ApiTypeOK'
          BY <1>5, <2>2 DEF AttemptHttpError, RecordFailure, End, NextAttempt
    <3>2. ~(failures' >= Threshold)
          BY <1>5, <2>2, RecordedFailureJustifies DEF AttemptHttpError
    <3>3. QED
          BY <2>2, <3>1, <3>2
  <2>3. QED
        BY <2>1, <2>2
<1>6. CASE AttemptRaises
      BY <1>6 DEF AttemptRaises, NextAttempt
<1>7. CASE AttemptRaisesBreakerText
      BY <1>7 DEF AttemptRaisesBreakerText, End
<1>8. CASE GiveUp
  <2>1. ApiTypeOK' /\ req' = "idle"
        BY <1>8 DEF GiveUp, RecordFailure, End
  <2>2. OpenIsJustified' /\ (failures' >= Threshold => open')
        BY <1>8, RecordedFailureJustifies DEF GiveUp
  <2>3. QED
        BY <2>1, <2>2
<1>9. CASE TimeoutElapses \/ ClockSetBack
      BY <1>9 DEF TimeoutElapses, ClockSetBack
<1>10. CASE UNCHANGED apiVars
      BY <1>10 DEF apiVars
<1>11. QED
      BY <1>1, <1>2, <1>3, <1>4, <1>5, <1>6, <1>7, <1>8, <1>9, <1>10
      DEF ApiNext, RequestStep

\* _request sends nothing while the circuit is open, an open circuit has
\* counted its threshold and can become half-open, and a probe settles it.
THEOREM BreakerInvariant == ApiSpec => []ApiInv
<1>1. ApiInit => ApiInv
      BY ApiInitInv
<1>2. ApiInv /\ [ApiNext]_apiVars => ApiInv'
      BY ApiStepInv
<1>3. QED
      BY <1>1, <1>2, PTL DEF ApiSpec

-----------------------------------------------------------------------------
(* fetch_all drives the client and nothing else does *)

LEMMA FetchStepUsesClient == [Next]_vars => [ApiNext]_apiVars
<1> SUFFICES ASSUME [Next]_vars
             PROVE  [ApiNext]_apiVars
    OBVIOUS
<1>1. CASE StartFetch
      BY <1>1 DEF StartFetch
<1>2. CASE RequestPage
      BY <1>2 DEF RequestPage, ApiNext
<1>3. CASE RequestGoesOn
      BY <1>3 DEF RequestGoesOn, ApiNext
<1>4. CASE PageArrives \/ PageUnreadable
      BY <1>4 DEF PageArrives, PageUnreadable, ApiNext, RequestStep
<1>5. CASE EmptyPageArrives
      BY <1>5 DEF EmptyPageArrives, ApiNext, RequestStep
<1>6. CASE FetchRaises
      BY <1>6 DEF FetchRaises, ApiNext
<1>7. CASE TimePasses
      BY <1>7 DEF TimePasses, ApiNext
<1>8. CASE UNCHANGED vars
      BY <1>8 DEF vars
<1>9. QED
      BY <1>1, <1>2, <1>3, <1>4, <1>5, <1>6, <1>7, <1>8 DEF Next, FetchStep

\* Every behaviour of fetch_all is a behaviour of the client.
THEOREM FetchImplementsClient == Spec => ApiSpec
<1>1. Init => ApiInit
      BY DEF Init
<1>2. [Next]_vars => [ApiNext]_apiVars
      BY FetchStepUsesClient
<1>3. QED
      BY <1>1, <1>2, PTL DEF Spec, ApiSpec

\* Nothing is sent while the circuit is open, also in the middle of a retry
\* loop and from one page to the next.
THEOREM FetchesRespectBreaker == Spec => []NoAttemptWhileOpen
<1>1. ApiInv => NoAttemptWhileOpen
      BY DEF ApiInv
<1>2. QED
      BY <1>1, FetchImplementsClient, BreakerInvariant, PTL

\* An open circuit has counted its threshold and knows when it opened.
THEOREM FetchesJustifyOpen == Spec => []OpenIsJustified
<1>1. ApiInv => OpenIsJustified
      BY DEF ApiInv
<1>2. QED
      BY <1>1, FetchImplementsClient, BreakerInvariant, PTL

\* Between requests a count at the threshold goes with an open circuit.
THEOREM FetchesSettleBreaker == Spec => []ProbeSettlesBreaker
<1>1. ApiInv => ProbeSettlesBreaker
      BY DEF ApiInv
<1>2. QED
      BY <1>1, FetchImplementsClient, BreakerInvariant, PTL

-----------------------------------------------------------------------------
(* Completeness of what fetch_all returns *)

\* Beside the property: fetch_all is waiting exactly while a request runs.
FetchInv ==
    /\ TypeOK
    /\ fetch = "waiting" <=> req # "idle"
    /\ FetchIsComplete

LEMMA FetchInitInv == Init => FetchInv
<1> SUFFICES ASSUME Init
             PROVE  FetchInv
    OBVIOUS
<1>1. ApiTypeOK
      BY ApiInitInv DEF Init, ApiInv
<1>2. known \in BOOLEAN /\ reported \in BOOLEAN
      BY DEF Init
<1>3. offset \in 0..total /\ fetches \in 0..MaxFetches
      BY FetchBounds DEF Init
<1>4. fetch = "idle" /\ req = "idle"
      BY DEF Init, ApiInit
<1>5. TypeOK
      BY <1>1, <1>2, <1>3, <1>4 DEF Init, TypeOK, FetchStates
<1>6. QED
      BY <1>4, <1>5 DEF FetchInv, FetchIsComplete

\* A page never reaches past the last item, and it is empty only there.
LEMMA PageFits ==
    ASSUME TypeOK
    PROVE  /\ PageSize \in Nat
           /\ offset + PageSize \in 0..total
           /\ PageSize = 0 => offset = total
BY FetchBounds DEF TypeOK, PageSize

LEMMA FetchStepInv == FetchInv /\ ApiInv /\ ApiInv' /\ [Next]_vars => FetchInv'
<1> SUFFICES ASSUME FetchInv, ApiInv, ApiInv', [Next]_vars
             PROVE  FetchInv'
    OBVIOUS
<1>0. ApiTypeOK' /\ TypeOK
      BY DEF ApiInv, FetchInv
<1>1. CASE StartFetch
  <2>1. known' \in BOOLEAN /\ reported' \in BOOLEAN
        BY <1>0, <1>1 DEF StartFetch, TypeOK, server
  <2>2. offset' \in 0..total' /\ fetches' \in 0..MaxFetches
        BY <1>0, <1>1, FetchBounds DEF StartFetch, TypeOK, server
  <2>3. fetch' = "loop" /\ fetch # "waiting" /\ req' = req
        BY <1>1 DEF StartFetch, apiVars
  <2>4. TypeOK'
        BY <1>0, <1>1, <2>1, <2>2, <2>3 DEF StartFetch, TypeOK, FetchStates, server
  <2>5. QED
        BY <2>3, <2>4 DEF FetchInv, FetchIsComplete
<1>2. CASE RequestPage
      BY <1>0, <1>2
      DEF RequestPage, RequestRejected, RequestStarts, End, FetchInv, TypeOK,
          FetchIsComplete, FetchStates, server
<1>3. CASE RequestGoesOn
      BY <1>0, <1>3
      DEF RequestGoesOn, FetchInv, TypeOK, FetchIsComplete, FetchStates, server
<1>4. CASE PageArrives
  <2>1. /\ offset' \in 0..total
        /\ LastPage(PageSize, offset', known') => offset' = total
        BY <1>0, <1>4, PageFits DEF PageArrives, LastPage, TypeOK
  <2>2. req' = "idle" /\ outcome' = "ok"
        BY <1>4 DEF PageArrives, AttemptSucceeds, End
  <2>3. fetch' \in {"done", "loop"} /\ (fetch' = "done" => offset' = total')
        BY <1>4, <2>1 DEF PageArrives, server
  <2>4. known' \in BOOLEAN
        BY <1>0, <1>4 DEF PageArrives, TypeOK
  <2>5. QED
        BY <1>0, <1>4, <2>1, <2>2, <2>3, <2>4
        DEF PageArrives, FetchInv, TypeOK, FetchIsComplete, FetchStates, server
<1>5. CASE PageUnreadable
      BY <1>0, <1>5
      DEF PageUnreadable, AttemptSucceeds, End, FetchInv, TypeOK, FetchIsComplete,
          FetchStates, server
<1>6. CASE EmptyPageArrives
      BY <1>0, <1>6
      DEF EmptyPageArrives, FetchInv, TypeOK, FetchIsComplete, FetchStates, server
<1>7. CASE FetchRaises
      BY <1>0, <1>7
      DEF FetchRaises, FetchInv, TypeOK, FetchIsComplete, FetchStates, server
<1>8. CASE TimePasses
      BY <1>0, <1>8
      DEF TimePasses, TimeoutElapses, ClockSetBack, FetchInv, TypeOK,
          FetchIsComplete, FetchStates, server
<1>9. CASE UNCHANGED vars
      BY <1>0, <1>9
      DEF vars, apiVars, breaker, FetchInv, TypeOK, FetchIsComplete, FetchStates, server
<1>10. QED
      BY <1>1, <1>2, <1>3, <1>4, <1>5, <1>6, <1>7, <1>8, <1>9 DEF Next, FetchStep

\* What a fetch has collected, and where it stands in the pages, at every step.
THEOREM FetchInvariant == Spec => []FetchInv
<1>1. Init => FetchInv
      BY FetchInitInv
<1>2. FetchInv /\ ApiInv /\ ApiInv' /\ [Next]_vars => FetchInv'
      BY FetchStepInv
<1>3. Spec => []ApiInv
      BY FetchImplementsClient, BreakerInvariant, PTL
<1>4. QED
      BY <1>1, <1>2, <1>3, PTL DEF Spec

\* The variables of fetch_all and of its client keep their types.
THEOREM FetchTypes == Spec => []TypeOK
<1>1. FetchInv => TypeOK
      BY DEF FetchInv
<1>2. QED
      BY <1>1, FetchInvariant, PTL

\* A fetch_all that returns after an unsuppressed end has delivered every item.
THEOREM FetchCompleteness == Spec => []FetchIsComplete
<1>1. FetchInv => FetchIsComplete
      BY DEF FetchInv
<1>2. QED
      BY <1>1, FetchInvariant, PTL

-----------------------------------------------------------------------------
(***************************************************************************)
(* RateLimiter                                                             *)
(*                                                                         *)
(* The deque is judged by the permits of the window, which it must end     *)
(* with.  Until a check could have been misled, Account says how full the  *)
(* deque is: within the budget, counting the permit a sleeper will get, or *)
(* one beyond it, with a head that will have left the window by the time   *)
(* the sleeper wakes up.                                                   *)
(***************************************************************************)

LimiterTypes ==
    /\ stamps \in Seq(0..Window + 1)
    /\ granted \in Seq(0..Window - 1)
    /\ \A i, j \in DOMAIN granted : i <= j => granted[i] >= granted[j]
    /\ sleep \in [Threads -> 0..Window] /\ asleep \subseteq Threads

\* Permits the deque has room for, beside the one a sleeper will get.
Budget == IF asleep = {} THEN MaxCalls ELSE MaxCalls - 1

\* Ages from which the head no longer counts once the sleepers wake up.
Leaving == IF asleep = {} THEN {0} ELSE {sleep[t] : t \in asleep}

Account ==
    /\ \A t, u \in asleep : t = u
    /\ \/ Len(stamps) <= Budget
       \/ Len(stamps) = Budget + 1 /\ \A s \in Leaving : stamps[1] >= Window - s

LimiterInv == LimiterTypes /\ NothingForgotten /\ (~contended => Account)

USE LimiterAssumption

\* What Within leaves of a sequence of ages.
LEMMA WithinElements ==
    ASSUME NEW S, S \subseteq Int, NEW limit \in Int, NEW ages \in Seq(S)
    PROVE  \E n \in 0..Len(ages) :
              /\ \A k \in 1..n : ages[k] > limit
              /\ n < Len(ages) => ages[n + 1] <= limit
              /\ Within(limit, ages) = SubSeq(ages, n + 1, Len(ages))
<1> DEFINE T == {n \in 0..Len(ages) : \A k \in 1..n : ages[k] > limit}
           m == Max(T)
<1>1. m \in T /\ \A y \in T : y <= m
  <2>1. T \subseteq Nat /\ 0 \in T /\ Len(ages) \in Nat /\ \A y \in T : y <= Len(ages)
    OBVIOUS
  <2> HIDE DEF T
  <2>2. QED
    BY <2>1, MaxIn
<1>2. Within(limit, ages) = SubSeq(ages, 1 + m, Len(ages))
  BY DEF Within
<1> HIDE DEF m
<1>3. m \in 0..Len(ages) /\ \A k \in 1..m : ages[k] > limit
  BY <1>1
<1>4. ASSUME m < Len(ages), ~(ages[m + 1] <= limit) PROVE FALSE
  <2>1. m + 1 \in 0..Len(ages) /\ ages[m + 1] > limit
    <3>1. m + 1 \in 1..Len(ages)
      BY <1>3, <1>4
    <3>2. ages[m + 1] \in S
      BY <3>1, ElementOfSeq
    <3>3. \A x \in S : ~(x <= limit) => x > limit
      OBVIOUS
    <3>4. ages[m + 1] > limit
      BY <1>4, <3>2, <3>3
    <3>5. QED
      BY <3>1, <3>4
  <2>2. \A k \in 1..(m + 1) : ages[k] > limit
    BY <1>3, <2>1
  <2>3. m + 1 \in T
    BY <2>1, <2>2
  <2>4. QED
    BY <1>1, <1>3, <2>3
<1>5. 1 + m = m + 1
  BY <1>3
<1>6. QED
  BY <1>2, <1>3, <1>4, <1>5

\* A sequence without its first n elements.
LEMMA Rest ==
    ASSUME NEW S, NEW s \in Seq(S), NEW n \in 0..Len(s)
    PROVE  /\ SubSeq(s, n + 1, Len(s)) \in Seq(S)
           /\ Len(SubSeq(s, n + 1, Len(s))) = Len(s) - n
           /\ \A k \in 1..(Len(s) - n) : SubSeq(s, n + 1, Len(s))[k] = s[n + k]
  OBVIOUS

\* Two sequences whose elements are those of a third from some point on.
LEMMA RestOfRest ==
    ASSUME NEW S, NEW s \in Seq(S), NEW n \in 0..Len(s), NEW m \in 0..n
    PROVE  SubSeq(s, n + 1, Len(s))
              = SubSeq(SubSeq(s, m + 1, Len(s)), (n - m) + 1, Len(s) - m)
<1> DEFINE r == SubSeq(s, m + 1, Len(s))
           a == SubSeq(s, n + 1, Len(s))
           b == SubSeq(r, (n - m) + 1, Len(r))
<1>1. r \in Seq(S) /\ Len(r) = Len(s) - m /\ \A k \in 1..(Len(s) - m) : r[k] = s[m + k]
  BY Rest
<1>2. a \in Seq(S) /\ Len(a) = Len(s) - n /\ \A k \in 1..(Len(s) - n) : a[k] = s[n + k]
  BY Rest
<1>3. b \in Seq(S) /\ Len(b) = Len(r) - (n - m) /\ \A k \in 1..(Len(r) - (n - m)) : b[k] = r[(n - m) + k]
  <2>1. n - m \in 0..Len(r)
    BY <1>1
  <2> HIDE DEF r
  <2>2. QED
    BY <1>1, <2>1, Rest
<1> HIDE DEF r, a, b
<1>4. Len(a) = Len(b) /\ \A k \in 1..Len(a) : a[k] = b[k]
  <2>1. Len(a) = Len(b)
    BY <1>1, <1>2, <1>3
  <2>2. ASSUME NEW k \in 1..Len(a) PROVE a[k] = b[k]
    <3>1. k \in 1..(Len(s) - n) /\ k \in 1..(Len(r) - (n - m)) /\ (n - m) + k \in 1..(Len(s) - m)
          /\ m + ((n - m) + k) = n + k
      BY <1>1, <1>2, <1>3, <2>1
    <3>2. QED
      BY <1>1, <1>2, <1>3, <3>1
  <2>3. QED
    BY <2>1, <2>2
<1>5. a = b
  BY <1>2, <1>3, <1>4, SeqEqual
<1>6. QED
  BY <1>1, <1>5 DEF r, a, b

LEMMA FunctionIsSeq ==
    ASSUME NEW T, NEW n \in Nat, NEW f \in [1..n -> T]
    PROVE  f \in Seq(T) /\ Len(f) = n
  OBVIOUS

\* The deque from its n-th timestamp on is the permits of the window.
Splits(ages, n) ==
    /\ ages \in Seq(0..Window + 1)
    /\ n \in 0..Len(ages)
    /\ \A k \in 1..n : ages[k] >= Window
    /\ granted = SubSeq(ages, n + 1, Len(ages))

LEMMA SplitCounts ==
    ASSUME NEW ages, NEW n, Splits(ages, n)
    PROVE  Len(granted) = Len(ages) - n
  BY Rest DEF Splits

\* Pruning takes no permit that counts.
LEMMA PruneSplits ==
    ASSUME LimiterTypes, NothingForgotten
    PROVE  \E m \in 0..Len(stamps), n \in 0..Len(Pruned) :
              /\ \A k \in 1..m : stamps[k] > Window
              /\ m < Len(stamps) => stamps[m + 1] <= Window
              /\ Len(Pruned) = Len(stamps) - m
              /\ \A k \in 1..(Len(stamps) - m) : Pruned[k] = stamps[m + k]
              /\ Splits(Pruned, n)
<1>0. stamps \in Seq(0..Window + 1) /\ 0..Window + 1 \subseteq Int /\ Window \in Int
  BY DEF LimiterTypes
<1>1. PICK m \in 0..Len(stamps) :
          /\ \A k \in 1..m : stamps[k] > Window
          /\ m < Len(stamps) => stamps[m + 1] <= Window
          /\ Pruned = SubSeq(stamps, m + 1, Len(stamps))
  BY <1>0, WithinElements DEF Pruned
<1>2. PICK n \in 0..Len(stamps) :
          /\ \A k \in 1..n : stamps[k] >= Window
          /\ granted = SubSeq(stamps, n + 1, Len(stamps))
  BY DEF NothingForgotten
<1>3. /\ Pruned \in Seq(0..Window + 1) /\ Len(Pruned) = Len(stamps) - m
      /\ \A k \in 1..(Len(stamps) - m) : Pruned[k] = stamps[m + k]
  BY <1>0, <1>1, Rest
<1>4. m <= n
  <2>1. SUFFICES ASSUME n < m PROVE FALSE
    BY <1>0
  <2>2. n + 1 \in 1..m /\ 1 \in 1..(Len(stamps) - n) /\ n + 1 \in 1..Len(stamps)
    BY <1>0, <2>1
  <2>3. granted[1] = stamps[n + 1] /\ Len(granted) = Len(stamps) - n
    BY <1>0, <1>2, <2>2, Rest
  <2>4. granted[1] \in 0..Window - 1
    BY SMTT(30), <1>0, <2>2, <2>3 DEF LimiterTypes
  <2>5. stamps[n + 1] > Window
    BY <1>1, <2>2
  <2>6. QED
    BY <2>3, <2>4, <2>5
<1>5. n - m \in 0..Len(Pruned) /\ granted = SubSeq(Pruned, (n - m) + 1, Len(Pruned))
  <2>1. n - m \in 0..Len(Pruned) /\ m \in 0..n
    BY <1>0, <1>3, <1>4
  <2>2. SubSeq(stamps, n + 1, Len(stamps))
          = SubSeq(SubSeq(stamps, m + 1, Len(stamps)), (n - m) + 1, Len(stamps) - m)
    BY <1>0, <2>1, RestOfRest
  <2>3. QED
    BY <1>1, <1>2, <1>3, <2>1, <2>2
<1>6. \A k \in 1..(n - m) : Pruned[k] >= Window
  <2>1. SUFFICES ASSUME NEW k \in 1..(n - m) PROVE Pruned[k] >= Window
    OBVIOUS
  <2>2. k \in 1..(Len(stamps) - m) /\ m + k \in 1..n
    BY <1>0, <1>4
  <2>3. QED
    BY <1>2, <1>3, <2>2
<1>7. Splits(Pruned, n - m)
  BY <1>3, <1>5, <1>6 DEF Splits
<1>8. QED
  BY <1>1, <1>3, <1>5, <1>7

\* A permit joins both accounts at the end.
LEMMA GrantSplits ==
    ASSUME LimiterTypes, NEW before, NEW n, Splits(before, n), Grant(before)
    PROVE  /\ stamps' \in Seq(0..Window + 1)
           /\ granted' \in Seq(0..Window - 1)
           /\ \A i, j \in DOMAIN granted' : i <= j => granted'[i] >= granted'[j]
           /\ NothingForgotten'
           /\ Len(stamps') = Len(before) + 1
           /\ before # <<>> => stamps'[1] = before[1]
<1>0. /\ before \in Seq(0..Window + 1) /\ n \in 0..Len(before)
      /\ granted \in Seq(0..Window - 1)
      /\ 0 \in 0..Window + 1 /\ 0 \in 0..Window - 1
  BY DEF Splits, LimiterTypes
<1>1. stamps' = Append(before, 0) /\ granted' = Append(granted, 0)
  BY DEF Grant
<1>2. /\ stamps' \in Seq(0..Window + 1) /\ Len(stamps') = Len(before) + 1
      /\ granted' \in Seq(0..Window - 1) /\ Len(granted') = Len(granted) + 1
      /\ \A k \in 1..Len(before) : stamps'[k] = before[k]
      /\ \A k \in 1..Len(granted) : granted'[k] = granted[k]
      /\ stamps'[Len(before) + 1] = 0 /\ granted'[Len(granted) + 1] = 0
  BY <1>0, <1>1
<1>3. \A i, j \in DOMAIN granted' : i <= j => granted'[i] >= granted'[j]
  <2>1. SUFFICES ASSUME NEW i \in 1..(Len(granted) + 1), NEW j \in 1..(Len(granted) + 1), i <= j
                 PROVE  granted'[i] >= granted'[j]
    BY <1>2
  <2>2. granted'[i] \in 0..Window - 1
    BY <1>2
  <2>3. CASE j = Len(granted) + 1
    BY <1>2, <2>2, <2>3
  <2>4. CASE j # Len(granted) + 1
    <3>1. i \in 1..Len(granted) /\ j \in 1..Len(granted)
      BY <1>0, <2>1, <2>4
    <3>2. granted[i] >= granted[j]
      BY <1>0, <2>1, <3>1 DEF LimiterTypes
    <3>3. QED
      BY <1>2, <3>1, <3>2
  <2>5. QED
    BY <2>3, <2>4
<1>4. NothingForgotten'
  <2>0. n \in 0..Len(before) /\ \A k \in 1..n : before[k] >= Window
    BY DEF Splits
  <2>1. n \in 0..Len(stamps') /\ \A k \in 1..n : stamps'[k] >= Window
    <3>1. Len(before) \in Nat /\ Len(stamps') = Len(before) + 1
      BY <1>0, <1>2
    <3>2. ASSUME NEW k \in 1..n PROVE stamps'[k] = before[k]
      BY <1>2, <2>0, <3>1
    <3>3. QED
      BY <2>0, <3>1, <3>2
  <2> DEFINE r == SubSeq(stamps', n + 1, Len(stamps'))
  <2>2. /\ r \in Seq(0..Window + 1) /\ Len(r) = Len(stamps') - n
        /\ \A k \in 1..(Len(stamps') - n) : r[k] = stamps'[n + k]
    BY <1>2, <2>1, Rest
  <2>3. Len(granted) = Len(before) - n /\ \A k \in 1..(Len(before) - n) : granted[k] = before[n + k]
    BY <1>0, Rest DEF Splits
  <2> HIDE DEF r
  <2>4. Len(granted') = Len(r) /\ \A k \in 1..Len(granted') : granted'[k] = r[k]
    <3>1. Len(granted') = Len(r)
      BY <1>0, <1>2, <2>2, <2>3
    <3>2. ASSUME NEW k \in 1..Len(granted') PROVE granted'[k] = r[k]
      <4>1. r[k] = stamps'[n + k]
        BY <1>0, <1>2, <2>2, <3>1
      <4>2. CASE k = Len(granted) + 1
        <5>1. n + k = Len(before) + 1
          BY <1>0, <2>3, <4>2
        <5>2. QED
          BY <1>2, <4>1, <4>2, <5>1
      <4>3. CASE k # Len(granted) + 1
        <5>1. k \in 1..Len(granted) /\ n + k \in 1..Len(before)
          <6>1. Len(granted') = Len(granted) + 1 /\ Len(granted) = Len(before) - n
            BY <1>2, <2>3
          <6>2. k \in 1..(Len(before) - n + 1) /\ k # Len(before) - n + 1
            BY <4>3, <6>1
          <6>3. Len(before) \in Nat /\ n \in 0..Len(before)
            BY <1>0
          <6>4. QED
            BY <6>1, <6>2, <6>3
        <5>2. QED
          BY <1>2, <2>3, <4>1, <5>1
      <4>4. QED
        BY <4>2, <4>3
    <3>3. QED
      BY <3>1, <3>2
  <2>5. r \in Seq(Int) /\ granted' \in Seq(Int)
    BY <1>2, <2>2
  <2>6. granted' = r
    BY <2>4, <2>5, SeqEqual
  <2>7. QED
    BY <2>1, <2>6 DEF NothingForgotten, r
<1>5. before # <<>> => stamps'[1] = before[1]
  BY <1>0, <1>2
<1>6. QED
  BY <1>2, <1>3, <1>4, <1>5

-----------------------------------------------------------------------------

LEMMA LimiterInitInv == LimiterInit => LimiterInv
<1> SUFFICES ASSUME LimiterInit PROVE LimiterInv
  OBVIOUS
<1>1. LimiterTypes
  BY DEF LimiterInit, LimiterTypes
<1>2. NothingForgotten
  <2>1. 0 \in 0..Len(stamps) /\ granted = SubSeq(stamps, 0 + 1, Len(stamps))
    BY DEF LimiterInit
  <2>2. QED
    BY <2>1 DEF NothingForgotten
<1>3. Account
  BY DEF LimiterInit, Account, Budget
<1>4. QED
  BY <1>1, <1>2, <1>3 DEF LimiterInv

LEMMA AcquireAtOnceInv ==
    ASSUME LimiterInv, NEW t \in Threads, AcquireAtOnce(t)
    PROVE  LimiterInv'
<1>1. PICK m \in 0..Len(stamps), n \in 0..Len(Pruned) : Splits(Pruned, n)
  BY PruneSplits DEF LimiterInv
<1>2. LimiterTypes /\ Grant(Pruned) /\ sleep' = sleep /\ asleep' = asleep /\ t \notin asleep
  BY DEF LimiterInv, AcquireAtOnce
<1> DEFINE p == Pruned
<1>3. p \in Seq(0..Window + 1) /\ Len(p) < MaxCalls /\ Splits(p, n) /\ Grant(p)
  BY <1>1, <1>2 DEF Splits, AcquireAtOnce
<1> HIDE DEF p
<1>4. /\ stamps' \in Seq(0..Window + 1) /\ granted' \in Seq(0..Window - 1)
      /\ \A i, j \in DOMAIN granted' : i <= j => granted'[i] >= granted'[j]
      /\ NothingForgotten' /\ Len(stamps') = Len(p) + 1
  BY <1>2, <1>3, GrantSplits
<1>5. LimiterTypes'
  BY <1>2, <1>4 DEF LimiterTypes
<1>6. ~contended' => Account'
  <2>1. SUFFICES ASSUME ~contended' PROVE Account'
    OBVIOUS
  <2>2. asleep \ {t} = {}
    BY <2>1 DEF AcquireAtOnce, Misled
  <2>3. asleep' = {}
    BY <1>2, <2>2
  <2>4. Len(stamps') <= MaxCalls
    BY <1>3, <1>4, LimiterAssumption
  <2>5. QED
    BY <2>3, <2>4 DEF Account, Budget
<1>7. QED
  BY <1>4, <1>5, <1>6 DEF LimiterInv

LEMMA AcquireLaterInv ==
    ASSUME LimiterInv, NEW t \in Threads, AcquireLater(t)
    PROVE  LimiterInv'
<1>1. PICK m \in 0..Len(stamps), n \in 0..Len(Pruned) :
          /\ m < Len(stamps) => stamps[m + 1] <= Window
          /\ Len(Pruned) = Len(stamps) - m
          /\ \A k \in 1..(Len(stamps) - m) : Pruned[k] = stamps[m + k]
          /\ Splits(Pruned, n)
  BY PruneSplits DEF LimiterInv
<1>2. /\ LimiterTypes /\ t \notin asleep /\ Len(Pruned) >= MaxCalls /\ stamps' = Pruned
      /\ asleep' = asleep \cup {t} /\ sleep' = [sleep EXCEPT ![t] = Window - Head(Pruned)]
      /\ granted' = granted
  BY DEF LimiterInv, AcquireLater
<1> DEFINE p == Pruned
<1>3. /\ p \in Seq(0..Window + 1) /\ Len(p) >= MaxCalls /\ Len(p) = Len(stamps) - m
      /\ stamps' = p /\ stamps \in Seq(0..Window + 1)
  BY <1>1, <1>2 DEF Splits, LimiterTypes
<1>4. p[1] = stamps[m + 1] /\ m < Len(stamps) /\ Head(Pruned) = p[1]
  <2>1. Len(stamps) \in Nat /\ MaxCalls > 0 /\ m \in 0..Len(stamps)
    BY <1>3
  <2>2. 1 \in 1..(Len(stamps) - m) /\ m < Len(stamps)
    BY <1>3, <2>1
  <2>3. p # <<>>
    BY <1>3, <2>1
  <2>4. QED
    BY <1>1, <1>3, <2>2, <2>3
<1>5. p[1] \in 0..Window
  <2>1. 1 \in 1..Len(p)
    BY <1>3
  <2>2. p[1] \in 0..Window + 1
    BY SMTT(30), <1>3, <2>1
  <2>3. QED
    BY <1>1, <1>4, <2>2
<1> HIDE DEF p
<1>6. LimiterTypes'
  <2>1. sleep' \in [Threads -> 0..Window]
    <3>1. Window - p[1] \in 0..Window
      BY <1>5
    <3>2. sleep \in [Threads -> 0..Window] /\ sleep' = [sleep EXCEPT ![t] = Window - p[1]]
      BY <1>2, <1>4 DEF LimiterTypes
    <3>3. QED
      BY <3>1, <3>2
  <2>2. QED
    BY <1>2, <1>3, <2>1 DEF LimiterTypes
<1>7. NothingForgotten'
  <2>1. \E k \in 0..Len(Pruned) :
            (\A i \in 1..k : Pruned[i] >= Window) /\ granted = SubSeq(Pruned, k + 1, Len(Pruned))
    BY <1>1 DEF Splits
  <2>2. QED
    BY <1>2, <2>1 DEF NothingForgotten
<1>8. ~contended' => Account'
  <2>1. SUFFICES ASSUME ~contended' PROVE Account'
    OBVIOUS
  <2>2. ~contended /\ asleep \ {t} = {} /\ ~(Pruned # <<>> /\ Head(Pruned) = Window)
    BY <2>1 DEF AcquireLater, Misled
  <2>3. asleep = {} /\ asleep' = {t}
    BY <1>2, <2>2
  <2>4. p[1] # Window
    <3>1. Len(p) > 0
      BY <1>3
    <3>2. QED
      BY SMTT(30), <1>3, <1>4, <2>2, <3>1 DEF p
  <2>5. \/ Len(stamps) <= MaxCalls
        \/ Len(stamps) = MaxCalls + 1 /\ stamps[1] >= Window - 0
    BY <2>2, <2>3 DEF LimiterInv, Account, Budget, Leaving
  <2>6. Len(p) = MaxCalls
    <3>1. CASE Len(stamps) <= MaxCalls
      BY <1>3, <3>1
    <3>2. CASE Len(stamps) = MaxCalls + 1 /\ stamps[1] >= Window
      <4>1. m # 0
        <5>1. m = 0 => p[1] >= Window
          BY <1>4, <3>2
        <5>2. QED
          BY <1>5, <2>4, <5>1
      <4>2. QED
        BY <1>3, <3>2, <4>1
    <3>3. QED
      BY <2>5, <3>1, <3>2
  <2>7. sleep'[t] = Window - p[1]
    <3>1. sleep \in [Threads -> 0..Window]
      BY <1>2 DEF LimiterTypes
    <3>2. sleep' = [sleep EXCEPT ![t] = Window - p[1]]
      BY <1>2, <1>4
    <3>3. QED
      BY <3>1, <3>2
  <2>8. stamps'[1] >= Window - sleep'[t]
    <3>1. stamps'[1] = p[1]
      BY <1>3
    <3>2. Window - (Window - p[1]) = p[1]
      BY <1>5
    <3>3. QED
      BY <1>5, <2>7, <3>1, <3>2
  <2>9. Len(stamps') = (MaxCalls - 1) + 1
    BY <1>3, <2>6
  <2>10. QED
    BY <2>3, <2>8, <2>9 DEF Account, Budget, Leaving
<1>9. QED
  BY <1>6, <1>7, <1>8 DEF LimiterInv

LEMMA WakeUpInv ==
    ASSUME LimiterInv, NEW t \in Threads, WakeUp(t)
    PROVE  LimiterInv'
<1>1. PICK n \in 0..Len(stamps) : Splits(stamps, n)
  BY DEF LimiterInv, NothingForgotten, Splits, LimiterTypes
<1>2. /\ LimiterTypes /\ Grant(stamps) /\ sleep' = sleep /\ asleep' = asleep \ {t} /\ t \in asleep
      /\ contended' = contended /\ sleep[t] = 0
  BY DEF LimiterInv, WakeUp
<1>3. /\ stamps' \in Seq(0..Window + 1) /\ granted' \in Seq(0..Window - 1)
      /\ \A i, j \in DOMAIN granted' : i <= j => granted'[i] >= granted'[j]
      /\ NothingForgotten' /\ Len(stamps') = Len(stamps) + 1
      /\ stamps # <<>> => stamps'[1] = stamps[1]
  BY <1>1, <1>2, GrantSplits
<1>4. LimiterTypes'
  BY <1>2, <1>3 DEF LimiterTypes
<1>5. ~contended' => Account'
  <2>1. SUFFICES ASSUME ~contended PROVE Account'
    BY <1>2
  <2>2. asleep = {t} /\ asleep' = {}
    BY <1>2, <2>1 DEF LimiterInv, Account
  <2>3. \/ Len(stamps) <= MaxCalls - 1
        \/ Len(stamps) = MaxCalls - 1 + 1 /\ stamps[1] >= Window - 0
    BY <1>2, <2>1, <2>2 DEF LimiterInv, Account, Budget, Leaving
  <2>4. Len(stamps) \in Nat
    BY <1>2 DEF LimiterTypes
  <2>5. \/ Len(stamps') <= MaxCalls
        \/ Len(stamps') = MaxCalls + 1 /\ stamps'[1] >= Window - 0
    <3>1. CASE Len(stamps) <= MaxCalls - 1
      BY <1>3, <2>4, <3>1
    <3>2. CASE Len(stamps) = MaxCalls - 1 + 1 /\ stamps[1] >= Window - 0
      <4>1. Len(stamps) > 0 /\ Len(stamps) = MaxCalls
        BY <3>2
      <4>2. stamps # <<>>
        BY <1>2, <4>1 DEF LimiterTypes
      <4>3. QED
        BY <1>3, <3>2, <4>1, <4>2
    <3>3. QED
      BY <2>3, <3>1, <3>2
  <2>6. QED
    BY <2>2, <2>5 DEF Account, Budget, Leaving
<1>6. QED
  BY <1>3, <1>4, <1>5 DEF LimiterInv

LEMMA ResetInv == LimiterInv /\ Reset => LimiterInv'
<1> SUFFICES ASSUME LimiterInv, Reset PROVE LimiterInv'
  OBVIOUS
<1>1. /\ stamps' = <<>> /\ granted' = <<>> /\ asleep' = asleep /\ sleep' = sleep
      /\ contended' = contended /\ LimiterTypes
  BY DEF Reset, LimiterInv
<1>2. LimiterTypes'
  BY <1>1 DEF LimiterTypes
<1>3. NothingForgotten'
  <2>1. 0 \in 0..Len(stamps') /\ granted' = SubSeq(stamps', 0 + 1, Len(stamps'))
    BY <1>1
  <2>2. QED
    BY <2>1 DEF NothingForgotten
<1>4. ~contended => Account'
  <2>1. Len(stamps') = 0 /\ Budget' = Budget /\ 0 <= Budget
    BY <1>1 DEF Budget
  <2>2. QED
    BY <1>1, <2>1 DEF Account, LimiterInv
<1>5. QED
  BY <1>1, <1>2, <1>3, <1>4 DEF LimiterInv

\* A tick makes everything older; what leaves the window leaves both accounts.
LEMMA TickInv == LimiterInv /\ Tick => LimiterInv'
<1> SUFFICES ASSUME LimiterInv, Tick PROVE LimiterInv'
  OBVIOUS
<1> DEFINE g == [k \in DOMAIN granted |-> granted[k] + 1]
<1>1. /\ LimiterTypes /\ Window \in Nat \ {0}
      /\ stamps \in Seq(0..Window + 1) /\ granted \in Seq(0..Window - 1)
      /\ sleep \in [Threads -> 0..Window]
      /\ \A i, j \in DOMAIN granted : i <= j => granted[i] >= granted[j]
  BY DEF LimiterInv, LimiterTypes
<1>2. /\ stamps' = [k \in DOMAIN stamps |-> IF stamps[k] > Window THEN stamps[k] ELSE stamps[k] + 1]
      /\ sleep' = [t \in Threads |-> IF sleep[t] > 0 THEN sleep[t] - 1 ELSE 0]
      /\ granted' = Within(Window - 1, g)
      /\ asleep' = asleep /\ contended' = contended
  BY DEF Tick
<1>3. /\ stamps' \in Seq(0..Window + 1) /\ Len(stamps') = Len(stamps)
      /\ \A k \in 1..Len(stamps) :
            /\ stamps[k] \in 0..Window + 1
            /\ stamps'[k] = IF stamps[k] > Window THEN stamps[k] ELSE stamps[k] + 1
  <2>1. DOMAIN stamps = 1..Len(stamps) /\ Len(stamps) \in Nat
    BY <1>1
  <2>2. ASSUME NEW k \in 1..Len(stamps)
        PROVE  /\ stamps[k] \in 0..Window + 1
               /\ (IF stamps[k] > Window THEN stamps[k] ELSE stamps[k] + 1) \in 0..Window + 1
    <3>1. stamps[k] \in 0..Window + 1
      BY <1>1, ElementOfSeq
    <3>2. \A x \in 0..Window + 1 : (IF x > Window THEN x ELSE x + 1) \in 0..Window + 1
      BY <1>1
    <3>3. QED
      BY <3>1, <3>2
  <2>3. stamps' \in [1..Len(stamps) -> 0..Window + 1]
    BY <1>2, <2>1, <2>2
  <2>4. QED
    BY <1>2, <2>1, <2>2, <2>3, FunctionIsSeq
<1>4. /\ g \in Seq(1..Window) /\ Len(g) = Len(granted)
      /\ \A k \in 1..Len(granted) : granted[k] \in 0..Window - 1 /\ g[k] = granted[k] + 1
  <2>1. DOMAIN granted = 1..Len(granted) /\ Len(granted) \in Nat
    BY <1>1
  <2>2. \A k \in 1..Len(granted) : granted[k] \in 0..Window - 1
    BY <1>1, ElementOfSeq
  <2>3. \A x \in 0..Window - 1 : x + 1 \in 1..Window
    BY <1>1
  <2>4. g \in [1..Len(granted) -> 1..Window]
    BY <2>1, <2>2, <2>3
  <2>5. QED
    BY <2>1, <2>2, <2>4, FunctionIsSeq
<1> HIDE DEF g
<1>5. PICK j \in 0..Len(g) :
          /\ \A k \in 1..j : g[k] > Window - 1
          /\ j < Len(g) => g[j + 1] <= Window - 1
          /\ granted' = SubSeq(g, j + 1, Len(g))
  <2>1. 1..Window \subseteq Int /\ Window - 1 \in Int
    BY <1>1
  <2>2. QED
    BY <1>2, <1>4, <2>1, WithinElements
<1>6. PICK n \in 0..Len(stamps) :
          /\ \A k \in 1..n : stamps[k] >= Window
          /\ granted = SubSeq(stamps, n + 1, Len(stamps))
  BY DEF LimiterInv, NothingForgotten
<1>7. /\ Len(granted) = Len(stamps) - n
      /\ \A k \in 1..(Len(stamps) - n) : granted[k] = stamps[n + k]
  BY <1>1, <1>6, Rest
<1>8. /\ granted' \in Seq(1..Window) /\ Len(granted') = Len(granted) - j
      /\ \A k \in 1..(Len(granted) - j) : granted'[k] = granted[j + k] + 1
  <2>1. /\ granted' \in Seq(1..Window) /\ Len(granted') = Len(g) - j
        /\ \A k \in 1..(Len(g) - j) : granted'[k] = g[j + k]
    BY <1>4, <1>5, Rest
  <2>2. \A k \in 1..(Len(granted) - j) : j + k \in 1..Len(granted)
    BY <1>4, <1>5
  <2>3. QED
    BY <1>4, <2>1, <2>2
<1>9. \A i, k \in DOMAIN granted' : i <= k => granted'[i] >= granted'[k]
  <2>0. DOMAIN granted' = 1..(Len(granted) - j) /\ Len(granted) \in Nat /\ j \in 0..Len(granted)
    BY <1>1, <1>4, <1>5, <1>8
  <2>1. SUFFICES ASSUME NEW i \in 1..(Len(granted) - j), NEW k \in 1..(Len(granted) - j), i <= k
                 PROVE  granted'[i] >= granted'[k]
    BY <2>0
  <2>2. /\ j + i \in DOMAIN granted /\ j + k \in DOMAIN granted /\ j + i <= j + k
        /\ j + i \in 1..Len(granted) /\ j + k \in 1..Len(granted)
    BY <1>1, <2>0, <2>1
  <2>3. granted[j + i] >= granted[j + k]
    BY <1>1, <2>2
  <2>4. granted[j + i] \in Int /\ granted[j + k] \in Int
    BY <1>4, <2>2
  <2>5. granted'[i] = granted[j + i] + 1 /\ granted'[k] = granted[j + k] + 1
    BY <1>8
  <2>6. QED
    BY <2>3, <2>4, <2>5
<1>10. granted' \in Seq(0..Window - 1)
  <2>1. ASSUME NEW k \in 1..Len(granted') PROVE granted'[k] \in 0..Window - 1
    <3>1. /\ 1 \in DOMAIN granted' /\ k \in DOMAIN granted' /\ 1 <= k
          /\ 1 \in 1..(Len(granted) - j) /\ j < Len(g) /\ j + 1 \in 1..Len(granted)
      BY <1>4, <1>5, <1>8
    <3>2. granted'[1] >= granted'[k] /\ granted'[1] = granted[j + 1] + 1 /\ g[j + 1] = granted[j + 1] + 1
      BY <1>4, <1>8, <1>9, <3>1
    <3>3. granted'[1] <= Window - 1
      BY <1>5, <3>1, <3>2
    <3>4. granted'[k] \in 1..Window /\ granted'[1] \in 1..Window
      <4>1. 1 \in 1..Len(granted')
        BY <1>8, <3>1
      <4>2. QED
        BY <1>8, <4>1, ElementOfSeq
    <3>5. granted'[k] <= Window - 1
      <4>1. \A x, y \in 1..Window : x >= y /\ x <= Window - 1 => y <= Window - 1
        BY <1>1
      <4>2. QED
        BY <3>2, <3>3, <3>4, <4>1
    <3>6. QED
      BY <1>1, <3>4, <3>5
  <2>2. granted' = [k \in 1..Len(granted') |-> granted'[k]] /\ Len(granted') \in Nat
    BY <1>8
  <2>3. QED
    BY <2>1, <2>2
<1>11. LimiterTypes'
  <2>1. sleep' \in [Threads -> 0..Window]
    BY <1>1, <1>2
  <2>2. QED
    BY <1>1, <1>2, <1>3, <1>9, <1>10, <2>1 DEF LimiterTypes
<1>12. NothingForgotten'
  <2> DEFINE r == SubSeq(stamps', (n + j) + 1, Len(stamps'))
  <2>1. n + j \in 0..Len(stamps') /\ Len(stamps) \in Nat /\ n \in Nat /\ j \in Nat
    BY <1>1, <1>3, <1>4, <1>5, <1>6, <1>7
  <2>2. /\ r \in Seq(0..Window + 1) /\ Len(r) = Len(stamps') - (n + j)
        /\ \A k \in 1..(Len(stamps') - (n + j)) : r[k] = stamps'[(n + j) + k]
    BY <1>3, <2>1, Rest
  <2> HIDE DEF r
  <2>3. \A k \in 1..(n + j) : stamps'[k] >= Window
    <3> SUFFICES ASSUME NEW k \in 1..(n + j) PROVE stamps'[k] >= Window
      OBVIOUS
    <3>1. k \in 1..Len(stamps)
      BY <1>3, <2>1
    <3>2. /\ k \in 1..Len(stamps) /\ stamps[k] \in 0..Window + 1
          /\ stamps'[k] = IF stamps[k] > Window THEN stamps[k] ELSE stamps[k] + 1
      BY <1>3, <3>1
    <3>3. CASE k <= n
      <4>1. stamps[k] >= Window
        BY <1>6, <2>1, <3>3
      <4>2. QED
        BY <1>1, <3>2, <4>1
    <3>4. CASE k > n
      <4>1. k - n \in 1..j /\ k - n \in 1..(Len(stamps) - n) /\ n + (k - n) = k
        BY <1>4, <1>5, <1>7, <2>1, <3>4
      <4>2. g[k - n] > Window - 1 /\ g[k - n] = granted[k - n] + 1 /\ granted[k - n] = stamps[k]
        BY <1>4, <1>5, <1>7, <4>1
      <4>3. stamps[k] + 1 > Window - 1
        BY <4>2
      <4>4. \A x \in 0..Window + 1 :
                x + 1 > Window - 1 => (IF x > Window THEN x ELSE x + 1) >= Window
        BY <1>1
      <4>5. QED
        BY <3>2, <4>3, <4>4
    <3>5. QED
      BY <2>1, <3>3, <3>4
  <2>4. Len(granted') = Len(r)
    BY <1>3, <1>7, <1>8, <2>1, <2>2
  <2>5. ASSUME NEW k \in 1..Len(granted') PROVE granted'[k] = r[k]
    <3>1. /\ k \in 1..(Len(granted) - j) /\ j + k \in 1..(Len(stamps) - n)
          /\ n + (j + k) = (n + j) + k /\ (n + j) + k \in 1..Len(stamps)
          /\ k \in 1..(Len(stamps') - (n + j)) /\ j + k \in 1..Len(granted)
      BY <1>3, <1>7, <1>8, <2>1
    <3>2. granted'[k] = stamps[(n + j) + k] + 1 /\ granted[j + k] = stamps[(n + j) + k]
      BY <1>7, <1>8, <3>1
    <3>3. granted[j + k] \in 0..Window - 1
      BY <1>4, <3>1
    <3>4. \A x \in 0..Window - 1 : ~(x > Window)
      BY <1>1
    <3>5. stamps'[(n + j) + k] = stamps[(n + j) + k] + 1
      BY <1>3, <3>1, <3>2, <3>3, <3>4
    <3>6. QED
      BY <2>2, <3>1, <3>2, <3>5
  <2>6. r \in Seq(Int) /\ granted' \in Seq(Int)
    BY SMTT(30), <1>8, <2>2
  <2>7. granted' = r
    BY <2>4, <2>5, <2>6, SeqEqual
  <2>8. QED
    BY <2>1, <2>3, <2>7 DEF NothingForgotten, r
<1>13. ~contended => Account'
  <2>1. SUFFICES ASSUME ~contended PROVE Account'
    OBVIOUS
  <2>2. Account /\ Budget' = Budget
    BY <1>2, <2>1 DEF LimiterInv, Budget
  <2>3. CASE Len(stamps) <= Budget
    BY <1>2, <1>3, <2>2, <2>3 DEF Account
  <2>4. CASE Len(stamps) = Budget + 1 /\ \A s \in Leaving : stamps[1] >= Window - s
    <3>1. 1 \in 1..Len(stamps)
      BY <1>1, <2>4 DEF Budget
    <3>2. /\ stamps[1] \in 0..Window + 1
          /\ stamps'[1] = IF stamps[1] > Window THEN stamps[1] ELSE stamps[1] + 1
      BY <1>1, <1>3, <3>1
    <3>3. ASSUME asleep = {} PROVE Account'
      <4>1. stamps[1] >= Window - 0
        BY <2>4, <3>3 DEF Leaving
      <4>2. stamps'[1] >= Window - 0
        BY <1>1, <3>2, <4>1
      <4>3. Leaving' = {0}
        BY <1>2, <3>3 DEF Leaving
      <4>4. QED
        BY <1>2, <1>3, <2>2, <2>4, <4>2, <4>3 DEF Account
    <3>4. ASSUME asleep # {} PROVE Account'
      <4>1. PICK t \in asleep : asleep = {t}
        BY <2>2, <3>4 DEF Account
      <4>2. stamps[1] >= Window - sleep[t]
        BY <2>4, <3>4, <4>1 DEF Leaving
      <4>3. stamps'[1] >= Window - sleep'[t]
        <5>1. sleep[t] \in 0..Window /\ sleep'[t] = IF sleep[t] > 0 THEN sleep[t] - 1 ELSE 0
          BY <1>1, <1>2 DEF LimiterTypes
        <5>2. \A x \in 0..Window + 1, s \in 0..Window :
                  x >= Window - s =>
                    (IF x > Window THEN x ELSE x + 1) >= Window - (IF s > 0 THEN s - 1 ELSE 0)
          BY <1>1
        <5>3. QED
          BY <3>2, <4>2, <5>1, <5>2
      <4>4. Leaving' = {sleep'[t]}
        BY <1>2, <4>1 DEF Leaving
      <4>5. QED
        BY <1>2, <1>3, <2>2, <2>4, <4>3, <4>4 DEF Account
    <3>5. QED
      BY <3>3, <3>4
  <2>5. QED
    BY <2>2, <2>3, <2>4 DEF Account
<1>14. QED
  BY <1>2, <1>11, <1>12, <1>13 DEF LimiterInv

-----------------------------------------------------------------------------

\* The inductive invariant of the limiter, whoever calls it and whenever it is
\* reset.
THEOREM LimiterInvariant == LimiterSpec => []LimiterInv
<1>1. ASSUME LimiterInv, [LimiterNext]_limiterVars PROVE LimiterInv'
  <2>1. CASE UNCHANGED limiterVars
    BY <1>1, <2>1 DEF limiterVars, LimiterInv, LimiterTypes, NothingForgotten, Account, Budget, Leaving
  <2>2. ASSUME NEW t \in Threads, AcquireAtOnce(t) \/ AcquireLater(t) \/ WakeUp(t)
        PROVE  LimiterInv'
    BY <1>1, <2>2, AcquireAtOnceInv, AcquireLaterInv, WakeUpInv
  <2>3. QED
    BY <1>1, <2>1, <2>2, TickInv, ResetInv DEF LimiterNext, Use
<1>2. QED
  BY <1>1, LimiterInitInv, PTL DEF LimiterSpec

\* Every permit of the last time_window is in the deque, in order and after
\* those that have left the window: popping from the left drops no other.
THEOREM PermitsRemembered == LimiterSpec => []NothingForgotten
<1>1. LimiterInv => NothingForgotten
  BY DEF LimiterInv
<1>2. QED
  BY <1>1, LimiterInvariant, PTL

\* acquire grants at most max_calls permits in a time_window, until it is entered
\* while another caller sleeps, or in the tick in which the oldest timestamp is
\* exactly one window old.
THEOREM BudgetUntilContended == LimiterSpec => []InBudgetUntilContended
<1>1. ASSUME LimiterInv, ~contended PROVE Len(granted) <= MaxCalls
  <2>1. PICK n \in 0..Len(stamps) : Splits(stamps, n)
    BY <1>1 DEF LimiterInv, NothingForgotten, Splits, LimiterTypes
  <2>2. Len(granted) = Len(stamps) - n /\ Len(stamps) \in Nat /\ granted \in Seq(0..Window - 1)
    BY <1>1, <2>1, SplitCounts DEF LimiterInv, LimiterTypes
  <2>3. CASE Len(stamps) <= MaxCalls
    BY <2>2, <2>3
  <2>4. CASE ~(Len(stamps) <= MaxCalls)
    <3>1. Len(stamps) = MaxCalls + 1 /\ stamps[1] >= Window - 0
      BY <1>1, <2>2, <2>4 DEF LimiterInv, Account, Budget, Leaving
    <3>2. n # 0
      <4>1. SUFFICES ASSUME n = 0 PROVE FALSE
        OBVIOUS
      <4>2. granted = SubSeq(stamps, 0 + 1, Len(stamps)) /\ stamps \in Seq(0..Window + 1)
        BY <2>1, <4>1 DEF Splits
      <4>3. 1 \in 1..Len(stamps) /\ 0 + 1 = 1
        BY <3>1
      <4>4. granted[1] = stamps[1] /\ 1 \in 1..Len(granted)
        BY <2>2, <4>1, <4>2, <4>3
      <4>5. granted[1] \in 0..Window - 1
        BY <2>2, <4>4
      <4>6. QED
        BY <3>1, <4>4, <4>5
    <3>3. QED
      BY <2>2, <3>1, <3>2
  <2>5. QED
    BY <2>3, <2>4
<1>2. LimiterInv => InBudgetUntilContended
  BY <1>1 DEF InBudgetUntilContended, InBudget
<1>3. QED
  BY <1>2, LimiterInvariant, PTL

-----------------------------------------------------------------------------
(***************************************************************************)
(* ZephyrFetch                                                             *)
(*                                                                         *)
(* What was delivered depends on what discovery found. A fetch of all      *)
(* items delivers what lies before startAt; one that fetches the keys      *)
(* first and has pages smaller than it asks for delivers the first page    *)
(* only, and one with full pages delivers everything that has a key.       *)
(***************************************************************************)

\* Every one of these items was delivered once in this fetch, and no other.
Once(is) == \A i \in Indices : delivered[i] = IF i \in is THEN 1 ELSE 0

Keyed == {i \in DOMAIN items : items[i]}
FirstPage == {i \in DOMAIN items : i <= pageCap /\ i <= Size}

ZephyrTypes ==
    /\ items \in Seq(BOOLEAN) /\ Len(items) <= MaxItems
    /\ pageCap \in Nat \ {0}
    /\ pageSize \in DOMAIN PageSizes
    /\ startAt \in 0..Len(items)
    /\ delivered \in [Indices -> Nat]

Discovering == mode \in {"idle", "probe", "size", "raised"}
Ended == mode = "done" /\ ~failed

BeforePages ==
    /\ Discovering => startAt = 0 /\ Once({})
    /\ mode = "direct" => ~KeysStage[pattern]
    /\ mode \in {"keys", "details"} => KeysStage[pattern]
    /\ mode = "details" => batch = Page \cap Keyed

DirectKept ==
    ~Discovering /\ ~KeysStage[pattern] =>
        /\ Once(1..startAt)
        /\ mode = "direct" /\ totals = "page" => startAt = 0
        /\ Ended => startAt = IF totals = "page" THEN Cardinality(FirstPage) ELSE Len(items)

SmallPagesKept ==
    ~Discovering /\ KeysStage[pattern] /\ pageCap < Size =>
        /\ mode \in {"keys", "details"} => startAt = 0 /\ Once({})
        /\ Ended => Once(FirstPage \cap Keyed)

FullPagesKept ==
    ~Discovering /\ KeysStage[pattern] /\ pageCap >= Size =>
        /\ mode \in {"keys", "details"} /\ ~failed =>
              /\ \A i \in Keyed : i <= startAt => delivered[i] > 0
              /\ Keyed = DOMAIN items => Once(1..startAt)
        /\ Ended =>
              /\ \A i \in Keyed : delivered[i] > 0
              /\ Keyed = DOMAIN items => Once(Keyed)

ZephyrInv == ZephyrTypes /\ BeforePages /\ DirectKept /\ SmallPagesKept /\ FullPagesKept

-----------------------------------------------------------------------------
(* Pages *)

LEMMA Sizes ==
    ASSUME ZephyrTypes
    PROVE  /\ Size \in Nat \ {0} /\ pageCap \in Nat \ {0}
           /\ Len(items) \in Nat /\ startAt \in Nat /\ startAt <= Len(items)
           /\ DOMAIN items = 1..Len(items) /\ DOMAIN items \subseteq Indices
<1>1. Size \in Nat \ {0}
  BY ZephyrAssumption DEF Size, ZephyrTypes
<1>2. Len(items) \in Nat /\ DOMAIN items = 1..Len(items) /\ Len(items) <= MaxItems
  BY DEF ZephyrTypes
<1>3. 1..Len(items) \subseteq 1..MaxItems
  BY <1>2, ZephyrAssumption
<1>4. QED
  BY <1>1, <1>2, <1>3 DEF ZephyrTypes, Indices

\* Where the page that begins after s ends, of l items, with these limits.
LEMMA PageEnd ==
    ASSUME NEW s \in Nat, NEW l \in Nat, s <= l, NEW a \in Nat \ {0}, NEW b \in Nat \ {0}
    PROVE  \E e \in s..l : e <= s + a /\ e <= s + b /\ e \in {l, s + a, s + b}
<1>1. CASE l <= s + a /\ l <= s + b
  <2>1. l \in s..l
    OBVIOUS
  <2>2. QED
    BY <1>1, <2>1
<1>2. CASE s + a <= l /\ a <= b
  <2>1. s + a \in s..l /\ s + a <= s + b
    BY <1>2
  <2>2. QED
    BY <2>1
<1>3. CASE s + b <= l /\ b <= a
  <2>1. s + b \in s..l /\ s + b <= s + a
    BY <1>3
  <2>2. QED
    BY <2>1
<1>4. QED
  BY <1>1, <1>2, <1>3

LEMMA PageIs ==
    ASSUME ZephyrTypes
    PROVE  \E e \in startAt..Len(items) :
               /\ Page = (startAt + 1)..e
               /\ IsFiniteSet(Page) /\ Cardinality(Page) = e - startAt
               /\ e <= startAt + Size /\ e <= startAt + pageCap
               /\ e \in {Len(items), startAt + Size, startAt + pageCap}
<1>1. PICK s, l, a, b : s = startAt /\ l = Len(items) /\ a = Size /\ b = pageCap
  OBVIOUS
<1>2. /\ s \in Nat /\ l \in Nat /\ s <= l /\ a \in Nat \ {0} /\ b \in Nat \ {0}
      /\ DOMAIN items = 1..l
  BY <1>1, Sizes
<1>3. PICK e \in s..l : e <= s + a /\ e <= s + b /\ e \in {l, s + a, s + b}
  BY <1>2, PageEnd
<1>4. Page = (s + 1)..e
  <2>1. Page = {i \in 1..l : s < i /\ i <= s + a /\ i <= s + b}
    BY <1>1, <1>2 DEF Page
  <2>2. \A i \in 1..l : (s < i /\ i <= s + a /\ i <= s + b) <=> i \in (s + 1)..e
    BY <1>2, <1>3
  <2>3. (s + 1)..e \subseteq 1..l
    BY <1>2, <1>3
  <2>4. QED
    BY <2>1, <2>2, <2>3
<1>5. IsFiniteSet((s + 1)..e) /\ Cardinality((s + 1)..e) = e - s
  <2>1. s + 1 \in Int /\ e \in Int /\ s <= e
    BY <1>2, <1>3
  <2>2. IsFiniteSet((s + 1)..e)
        /\ Cardinality((s + 1)..e) = IF s + 1 > e THEN 0 ELSE e - (s + 1) + 1
    BY <2>1, FS_Interval
  <2>3. QED
    BY <1>2, <2>1, <2>2
<1>6. QED
  BY <1>1, <1>3, <1>4, <1>5

\* At the start the page is the first page.
LEMMA PageAtStart == ASSUME ZephyrTypes, startAt = 0 PROVE Page = FirstPage
<1>1. PICK l, a, b : l = Len(items) /\ a = Size /\ b = pageCap
  OBVIOUS
<1>2. DOMAIN items = 1..l /\ l \in Nat /\ a \in Nat /\ b \in Nat
  BY <1>1, Sizes
<1>3. Page = {i \in 1..l : 0 < i /\ i <= 0 + a /\ i <= 0 + b}
  BY <1>1, <1>2 DEF Page
<1>4. FirstPage = {i \in 1..l : i <= b /\ i <= a}
  BY <1>1, <1>2 DEF FirstPage
<1>5. QED
  BY <1>2, <1>3, <1>4

LEMMA BatchSize ==
    ASSUME ZephyrTypes, BeforePages, mode = "details"
    PROVE  /\ batch \subseteq Page /\ Cardinality(batch) \in Nat
           /\ Cardinality(batch) <= Cardinality(Page)
           /\ startAt + Cardinality(batch) \in 0..Len(items)
           /\ Keyed = DOMAIN items => batch = Page
<1>1. batch = Page \cap Keyed
  BY DEF BeforePages
<1>2. PICK e \in startAt..Len(items) :
          Page = (startAt + 1)..e /\ IsFiniteSet(Page) /\ Cardinality(Page) = e - startAt
  BY PageIs
<1>3. IsFiniteSet(batch) /\ Cardinality(batch) <= Cardinality(Page)
  BY <1>1, <1>2, FS_Subset
<1>4. Cardinality(batch) \in Nat
  BY <1>3, FS_CardinalityType
<1>5. startAt \in Nat /\ Len(items) \in Nat
  BY Sizes
<1>6. Page \subseteq DOMAIN items
  BY DEF Page
<1>7. QED
  BY <1>1, <1>2, <1>3, <1>4, <1>5, <1>6

LEMMA DeliverOnce ==
    ASSUME ZephyrTypes, NEW a, NEW b, Once(a), Deliver(b), a \cap b = {}
    PROVE  Once(a \cup b)'
  BY DEF ZephyrTypes, Once, Deliver

LEMMA DeliverTypes ==
    ASSUME ZephyrTypes, NEW b, Deliver(b)
    PROVE  /\ delivered' \in [Indices -> Nat]
           /\ \A i \in Indices : delivered'[i] >= delivered[i]
           /\ \A i \in Indices \cap b : delivered'[i] > 0
  BY DEF ZephyrTypes, Deliver

-----------------------------------------------------------------------------
(* Steps *)

LEMMA NothingMoved ==
    ASSUME ZephyrInv, UNCHANGED zephyrVars
    PROVE  ZephyrInv'
  BY DEF ZephyrInv, ZephyrTypes, BeforePages, DirectKept, SmallPagesKept, FullPagesKept,
      zephyrVars, zephyrServer, Discovering, Ended, Once, Keyed, FirstPage, Page, Size

LEMMA StartKeeps == ASSUME ZephyrInv, StartZephyrFetch PROVE ZephyrInv'
<1>1. startAt' = 0 /\ Once({})' /\ failed' = FALSE /\ UNCHANGED <<zephyrServer, pageSize>>
  BY DEF StartZephyrFetch, Once
<1>2. \/ mode' = "probe"
      \/ mode' = "keys" /\ KeysStage[pattern']
      \/ mode' = "direct" /\ ~KeysStage[pattern']
  BY DEF StartZephyrFetch
<1>3. ZephyrTypes'
  <2>1. Len(items) \in Nat
    BY Sizes DEF ZephyrInv
  <2>2. delivered' \in [Indices -> Nat]
    BY DEF StartZephyrFetch
  <2>3. QED
    BY <1>1, <2>1, <2>2 DEF ZephyrInv, ZephyrTypes, zephyrServer
<1>4. BeforePages'
  BY <1>1, <1>2 DEF BeforePages, Discovering
<1>5. Once(1..0)'
  BY <1>1 DEF Once
<1>6. DirectKept'
  BY <1>1, <1>2, <1>5 DEF DirectKept, Ended
<1>7. SmallPagesKept'
  BY <1>1, <1>2 DEF SmallPagesKept, Ended
<1>8. FullPagesKept'
  <2>1. \A i \in Keyed' : ~(i <= startAt')
    <3>1. DOMAIN items = 1..Len(items) /\ Len(items) \in Nat
      BY Sizes DEF ZephyrInv
    <3>2. QED
      BY <1>1, <3>1 DEF Keyed, zephyrServer
  <2>2. QED
    BY <1>1, <1>2, <1>5, <2>1 DEF FullPagesKept, Ended
<1>9. QED
  BY <1>3, <1>4, <1>6, <1>7, <1>8 DEF ZephyrInv

LEMMA Unpaged ==
    ASSUME ZephyrTypes, startAt = 0, Once({}), ~failed, mode \notin {"details", "done"},
           mode = "direct" => ~KeysStage[pattern], mode = "keys" => KeysStage[pattern]
    PROVE  ZephyrInv
<1>1. Once(1..0)
  BY DEF Once
<1>2. \A i \in Keyed : ~(i <= startAt)
  <2>1. DOMAIN items = 1..Len(items) /\ Len(items) \in Nat
    BY Sizes
  <2>2. QED
    BY <2>1 DEF Keyed
<1>3. QED
  BY <1>1, <1>2 DEF ZephyrInv, BeforePages, DirectKept, SmallPagesKept, FullPagesKept,
      Discovering, Ended

\* What discovery changes keeps the rest as it is.
LEMMA DiscoveryKeeps ==
    ASSUME ZephyrInv, Discovering, UNCHANGED <<items, pageCap, totals, startAt, delivered>>,
           pageSize' \in DOMAIN PageSizes, mode' \notin {"details", "done"},
           mode' = "direct" => ~KeysStage[pattern'], mode' = "keys" => KeysStage[pattern'],
           failed' = failed
    PROVE  ZephyrInv'
<1>1. startAt' = 0 /\ Once({})'
  BY DEF ZephyrInv, BeforePages, Once
<1>2. ZephyrTypes'
  BY DEF ZephyrInv, ZephyrTypes
<1>3. Once(1..0)'
  BY <1>1 DEF Once
<1>4. \A i \in Keyed' : ~(i <= startAt')
  <2>1. DOMAIN items = 1..Len(items) /\ Len(items) \in Nat
    BY Sizes DEF ZephyrInv
  <2>2. QED
    BY <1>1, <2>1 DEF Keyed
<1>5. BeforePages' /\ DirectKept' /\ SmallPagesKept'
  BY <1>1, <1>3 DEF BeforePages, DirectKept, SmallPagesKept, Discovering, Ended
<1>6. FullPagesKept'
  BY <1>1, <1>3, <1>4 DEF FullPagesKept, Ended
<1>7. QED
  BY <1>2, <1>5, <1>6 DEF ZephyrInv

LEMMA DiscoverySteps ==
    ASSUME ZephyrInv, ProbeAnswers \/ ProbeFails \/ TryPageSize
    PROVE  ZephyrInv'
<1>1. Discovering /\ pageSize \in DOMAIN PageSizes
  BY DEF ProbeAnswers, ProbeFails, TryPageSize, Discovering, ZephyrInv, ZephyrTypes
<1>2. UNCHANGED <<items, pageCap, totals, startAt, delivered, failed>>
  BY DEF ProbeAnswers, ProbeFails, TryPageSize, zephyrServer
<1>3. 1 \in DOMAIN PageSizes /\ DOMAIN PageSizes = 1..Len(PageSizes) /\ Len(PageSizes) \in Nat
  BY ZephyrAssumption
<1>4. pageSize' \in DOMAIN PageSizes
  BY <1>1, <1>3 DEF ProbeAnswers, ProbeFails, TryPageSize
<1>5. /\ mode' \notin {"details", "done"}
      /\ mode' = "direct" => ~KeysStage[pattern']
      /\ mode' = "keys" => KeysStage[pattern']
  BY DEF ProbeAnswers, ProbeFails, TryPageSize
<1>6. QED
  BY <1>1, <1>2, <1>4, <1>5, DiscoveryKeeps

LEMMA DirectPageKeeps == ASSUME ZephyrInv, DirectPage PROVE ZephyrInv'
<1>1. PICK k, l : k = startAt /\ l = Len(items)
  OBVIOUS
<1>2. PICK e \in k..l :
          Page = (k + 1)..e /\ Cardinality(Page) = e - k
          /\ e \in {l, k + Size, k + pageCap}
  BY <1>1, PageIs DEF ZephyrInv
<1>3. k \in Nat /\ l \in Nat /\ Size \in Nat \ {0} /\ pageCap \in Nat \ {0}
  BY <1>1, Sizes DEF ZephyrInv
<1>4. /\ mode = "direct" /\ ~KeysStage[pattern] /\ Once(1..k)
      /\ totals = "page" => k = 0
  BY <1>1 DEF DirectPage, ZephyrInv, BeforePages, DirectKept, Discovering
<1>5. startAt' = e
  BY <1>1, <1>2, <1>3 DEF DirectPage
<1>6. Once(1..e)'
  <2>1. (1..k) \cup ((k + 1)..e) = 1..e /\ (1..k) \cap ((k + 1)..e) = {}
    BY <1>2, <1>3
  <2>2. Deliver((k + 1)..e)
    BY <1>2 DEF DirectPage
  <2>3. Once((1..k) \cup ((k + 1)..e))'
    BY <1>4, <2>1, <2>2, DeliverOnce DEF ZephyrInv
  <2>4. QED
    BY <2>1, <2>3
<1>7. ZephyrTypes'
  <2>1. delivered' \in [Indices -> Nat]
    BY DeliverTypes DEF DirectPage, ZephyrInv
  <2>2. e \in 0..l
    BY <1>2, <1>3
  <2>3. QED
    BY <1>1, <1>5, <2>1, <2>2 DEF DirectPage, ZephyrInv, ZephyrTypes, zephyrServer
<1>8. e = k => e = l
  BY <1>2, <1>3
<1>9. mode' = "done" =>
          e = IF totals = "page" THEN Cardinality(FirstPage) ELSE l
  <2>1. SUFFICES ASSUME mode' = "done"
                 PROVE  e = IF totals = "page" THEN Cardinality(FirstPage) ELSE l
    OBVIOUS
  <2>2. Page = {} \/ (totals # "nothing" /\ e >= Reported)
    BY <1>4, <1>5, <2>1 DEF DirectPage
  <2>3. CASE totals = "page"
    <3>1. k = 0 /\ Page = FirstPage
      BY <1>1, <1>4, <2>3, PageAtStart DEF ZephyrInv
    <3>2. QED
      BY <1>2, <2>3, <3>1
  <2>4. CASE totals # "page"
    <3>1. CASE Page = {}
      <4>1. e - k = 0
        BY <1>2, <3>1, FS_EmptySet
      <4>2. e = k
        BY <1>2, <1>3, <4>1
      <4>3. QED
        BY <1>8, <2>4, <4>2
    <3>2. CASE e >= Reported
      <4>1. e >= l
        BY <1>1, <2>4, <3>2 DEF Reported
      <4>2. QED
        BY <1>2, <1>3, <2>4, <4>1
    <3>3. QED
      BY <2>2, <3>1, <3>2
  <2>5. QED
    BY <2>3, <2>4
<1>10. totals = "page" => mode' = "done"
  <2>1. SUFFICES ASSUME totals = "page" PROVE mode' = "done"
    OBVIOUS
  <2>2. Reported = e /\ startAt' = e /\ e \in Nat
    BY <1>2, <1>3, <1>4, <1>5, <2>1 DEF Reported
  <2>3. QED
    BY <2>1, <2>2 DEF DirectPage, EndFetch
<1>11. mode' \in {"direct", "done"} /\ pattern' = pattern
       /\ UNCHANGED <<items, pageCap, totals, pageSize>>
  BY <1>4 DEF DirectPage, EndFetch, zephyrServer
<1>12. Len(items') = l /\ FirstPage' = FirstPage
  BY <1>1, <1>11 DEF FirstPage, Size
<1>13. BeforePages' /\ SmallPagesKept' /\ FullPagesKept'
  BY <1>4, <1>11 DEF BeforePages, SmallPagesKept, FullPagesKept, Discovering
<1>14. DirectKept'
  BY <1>5, <1>6, <1>9, <1>10, <1>11, <1>12 DEF DirectKept, Ended
<1>15. QED
  BY <1>7, <1>13, <1>14 DEF ZephyrInv

LEMMA PageFailsKeeps == ASSUME ZephyrInv, PageFails PROVE ZephyrInv'
<1>1. mode' = "done" /\ failed' /\ mode \in {"direct", "keys"}
  BY DEF PageFails, EndFetch
<1>2. UNCHANGED <<items, pageCap, totals, pattern, pageSize, startAt, delivered>>
  BY DEF PageFails, zephyrServer
<1>3. ZephyrTypes'
  BY <1>2 DEF ZephyrInv, ZephyrTypes
<1>4. DirectKept'
  BY <1>1, <1>2 DEF ZephyrInv, DirectKept, Discovering, Ended, Once
<1>5. BeforePages' /\ SmallPagesKept' /\ FullPagesKept'
  BY <1>1 DEF BeforePages, SmallPagesKept, FullPagesKept, Discovering, Ended
<1>6. QED
  BY <1>3, <1>4, <1>5 DEF ZephyrInv

LEMMA KeysEndKeeps == ASSUME ZephyrInv, KeysEnd PROVE ZephyrInv'
<1>1. mode = "keys" /\ KeysStage[pattern] /\ Page \cap Keyed = {}
  BY DEF KeysEnd, ZephyrInv, BeforePages, Page, Keyed
<1>2. mode' = "done" /\ (~failed' => ~failed /\ Page = {})
  BY DEF KeysEnd, EndFetch
<1>3. UNCHANGED <<items, pageCap, totals, pattern, pageSize, startAt, delivered>>
  BY DEF KeysEnd, zephyrServer
<1>4. ZephyrTypes'
  BY <1>3 DEF ZephyrInv, ZephyrTypes
<1>5. BeforePages' /\ DirectKept'
  BY <1>1, <1>2, <1>3 DEF BeforePages, DirectKept, Discovering
<1>6. SmallPagesKept'
  <2>1. SUFFICES ASSUME ~failed', pageCap < Size PROVE Once(FirstPage \cap Keyed)'
    BY <1>1, <1>2, <1>3 DEF SmallPagesKept, Ended, Size
  <2>2. startAt = 0 /\ Once({})
    BY <1>1, <2>1 DEF ZephyrInv, SmallPagesKept, Discovering
  <2>3. FirstPage \cap Keyed = {}
    BY <1>1, <2>2, PageAtStart DEF ZephyrInv
  <2>4. (FirstPage \cap Keyed)' = {}
    BY <1>3, <2>3 DEF FirstPage, Keyed, Size
  <2>5. QED
    BY <1>3, <2>2, <2>4 DEF Once
<1>7. FullPagesKept'
  <2>1. SUFFICES ASSUME ~failed', pageCap >= Size
                 PROVE  (/\ \A i \in Keyed : delivered[i] > 0
                         /\ Keyed = DOMAIN items => Once(Keyed))'
    BY <1>1, <1>2, <1>3 DEF FullPagesKept, Ended, Size
  <2>2. /\ \A i \in Keyed : i <= startAt => delivered[i] > 0
        /\ Keyed = DOMAIN items => Once(1..startAt)
    BY <1>1, <1>2, <2>1 DEF ZephyrInv, FullPagesKept, Discovering
  <2>3. startAt = Len(items) /\ DOMAIN items = 1..Len(items) /\ Len(items) \in Nat
    <3>1. PICK k, l : k = startAt /\ l = Len(items)
      OBVIOUS
    <3>2. PICK e \in k..l : Cardinality(Page) = e - k /\ e \in {l, k + Size, k + pageCap}
      BY <3>1, PageIs DEF ZephyrInv
    <3>3. k \in Nat /\ l \in Nat /\ Size \in Nat \ {0} /\ pageCap \in Nat \ {0}
          /\ DOMAIN items = 1..l
      BY <3>1, Sizes DEF ZephyrInv
    <3>4. e - k = 0
      BY <1>2, <2>1, <3>2, FS_EmptySet
    <3>5. QED
      BY <3>1, <3>2, <3>3, <3>4
  <2>4. \A i \in Keyed : delivered[i] > 0
    BY <2>2, <2>3 DEF Keyed
  <2>5. Keyed = DOMAIN items => Once(Keyed)
    BY <2>2, <2>3
  <2>6. Keyed' = Keyed
    BY <1>3 DEF Keyed
  <2>7. QED
    BY <1>3, <2>4, <2>5, <2>6 DEF Once
<1>8. QED
  BY <1>4, <1>5, <1>6, <1>7 DEF ZephyrInv

LEMMA KeysPageKeeps == ASSUME ZephyrInv, KeysPage PROVE ZephyrInv'
<1>1. mode = "keys" /\ mode' = "details" /\ batch' = Page \cap Keyed
  BY DEF KeysPage, Page, Keyed
<1>2. UNCHANGED <<items, pageCap, totals, pattern, pageSize, startAt, delivered, failed>>
  BY DEF KeysPage, zephyrServer
<1>3. ZephyrTypes'
  BY <1>2 DEF ZephyrInv, ZephyrTypes
<1>4. Page' = Page /\ Keyed' = Keyed /\ FirstPage' = FirstPage /\ Size' = Size
  BY <1>2 DEF Page, Keyed, FirstPage, Size
<1>5. BeforePages' /\ DirectKept'
  BY <1>1, <1>2, <1>4 DEF ZephyrInv, BeforePages, DirectKept, Discovering
<1>6. SmallPagesKept'
  BY <1>1, <1>2, <1>4 DEF ZephyrInv, SmallPagesKept, Discovering, Ended, Once
<1>7. FullPagesKept'
  BY <1>1, <1>2, <1>4 DEF ZephyrInv, FullPagesKept, Discovering, Ended, Once
<1>8. QED
  BY <1>3, <1>5, <1>6, <1>7 DEF ZephyrInv

\* The offset moves by the batch.  A page that is shorter than asked for and no
\* smaller than the server gives reaches the end.
LEMMA NextKeysKeeps ==
    ASSUME ZephyrInv, mode = "details", NextKeys,
           UNCHANGED <<items, pageCap, totals, pattern, pageSize>>,
           delivered' \in [Indices -> Nat],
           \A i \in Indices : delivered'[i] >= delivered[i],
           ~failed' => ~failed /\ Deliver(batch)
    PROVE  ZephyrInv'
<1>1. PICK k, l, n : k = startAt /\ l = Len(items) /\ n = Cardinality(batch)
  OBVIOUS
<1>2. PICK e \in k..l :
          /\ Page = (k + 1)..e /\ Cardinality(Page) = e - k
          /\ e <= k + Size /\ e <= k + pageCap /\ e \in {l, k + Size, k + pageCap}
  BY <1>1, PageIs DEF ZephyrInv
<1>3. k \in Nat /\ l \in Nat /\ Size \in Nat \ {0} /\ pageCap \in Nat \ {0}
      /\ DOMAIN items = 1..l /\ DOMAIN items \subseteq Indices
  BY <1>1, Sizes DEF ZephyrInv
<1>4. /\ KeysStage[pattern] /\ batch = Page \cap Keyed
      /\ n \in Nat /\ k + n \in 0..l /\ n <= e - k
      /\ Keyed = DOMAIN items => batch = Page
  BY <1>1, <1>2, BatchSize DEF ZephyrInv, BeforePages
<1>5. /\ startAt' = k + n
      /\ mode' = IF e - k < Size THEN "done" ELSE "keys"
  BY <1>1, <1>2 DEF NextKeys, EndFetch
<1>6. ZephyrTypes'
  <2>1. startAt' \in 0..Len(items')
    BY <1>1, <1>4, <1>5
  <2>2. QED
    BY <2>1 DEF ZephyrInv, ZephyrTypes
<1>7. Keyed' = Keyed /\ FirstPage' = FirstPage /\ Size' = Size
  BY DEF Keyed, FirstPage, Size
<1>8. BeforePages' /\ DirectKept'
  BY <1>4, <1>5 DEF BeforePages, DirectKept, Discovering
<1>9. SmallPagesKept'
  <2>1. SUFFICES ASSUME pageCap < Size
                 PROVE  mode' = "done" /\ (~failed' => Once(FirstPage \cap Keyed)')
    BY <1>7 DEF SmallPagesKept, Ended
  <2>2. k = 0 /\ Once({})
    BY <1>1, <1>4, <2>1 DEF ZephyrInv, SmallPagesKept, Discovering
  <2>3. mode' = "done"
    BY <1>2, <1>3, <1>5, <2>1
  <2>4. batch = FirstPage \cap Keyed
    BY <1>1, <1>4, <2>2, PageAtStart DEF ZephyrInv
  <2>5. ASSUME ~failed' PROVE Once(FirstPage \cap Keyed)'
    <3>1. \A i \in Indices : delivered'[i] = IF i \in batch THEN 1 ELSE 0
      BY <2>2, <2>5 DEF Deliver, Once
    <3>2. QED
      BY <1>7, <2>4, <3>1 DEF Once
  <2>6. QED
    BY <2>3, <2>5
<1>10. FullPagesKept'
  <2>1. SUFFICES ASSUME pageCap >= Size, ~failed'
                 PROVE  /\ \A i \in Keyed : i <= k + n \/ mode' = "done" => delivered'[i] > 0
                        /\ Keyed = DOMAIN items =>
                              Once(1..(k + n))' /\ (mode' = "done" => Once(Keyed)')
    BY <1>5, <1>7 DEF FullPagesKept, Ended, Discovering
  <2>2. /\ \A i \in Keyed : i <= k => delivered[i] > 0
        /\ Keyed = DOMAIN items => Once(1..k)
    BY <1>1, <1>4, <2>1 DEF ZephyrInv, FullPagesKept, Discovering
  <2>3. Deliver(batch) /\ Keyed \subseteq 1..l /\ Keyed \subseteq Indices
    BY <1>3, <2>1 DEF Keyed
  <2>4. mode' = "done" => e = l
    BY <1>2, <1>3, <1>5, <2>1
  <2>5. ASSUME NEW i \in Keyed, i <= e PROVE delivered'[i] > 0
    <3>1. i \in Nat /\ delivered[i] \in Nat /\ delivered'[i] \in Nat
          /\ delivered'[i] >= delivered[i]
      BY <1>3, <2>3 DEF ZephyrInv, ZephyrTypes
    <3>2. CASE i <= k
      BY <2>2, <3>1, <3>2
    <3>3. CASE ~(i <= k)
      <4>1. i \in (k + 1)..e
        BY <1>2, <1>3, <2>5, <3>1, <3>3
      <4>2. i \in batch
        BY <1>2, <1>4, <4>1
      <4>3. delivered'[i] = delivered[i] + 1
        BY <2>3, <4>2 DEF Deliver
      <4>4. QED
        BY <3>1, <4>3
    <3>4. QED
      BY <3>2, <3>3
  <2>6. \A i \in Keyed : i <= k + n \/ mode' = "done" => delivered'[i] > 0
    <3>1. ASSUME NEW i \in Keyed, i <= k + n \/ mode' = "done" PROVE i <= e
      <4>1. i \in 1..l /\ k + n <= e
        BY <1>2, <1>3, <1>4, <2>3
      <4>2. CASE i <= k + n
        BY <1>2, <1>3, <1>4, <4>1, <4>2
      <4>3. CASE mode' = "done"
        BY <2>4, <4>1, <4>3
      <4>4. QED
        BY <3>1, <4>2, <4>3
    <3>2. QED
      BY <2>5, <3>1
  <2>7. ASSUME Keyed = DOMAIN items
        PROVE  Once(1..(k + n))' /\ (mode' = "done" => Once(Keyed)')
    <3>1. batch = (k + 1)..e /\ n = e - k
      <4>1. batch = Page
        BY <1>4, <2>7
      <4>2. QED
        BY <1>1, <1>2, <4>1
    <3>2. (1..k) \cup ((k + 1)..e) = 1..e /\ (1..k) \cap ((k + 1)..e) = {}
      BY <1>2, <1>3
    <3>3. Once((1..k) \cup ((k + 1)..e))'
      BY <2>2, <2>3, <2>7, <3>1, <3>2, DeliverOnce DEF ZephyrInv
    <3>4. Once(1..e)'
      BY <3>2, <3>3
    <3>5. k + n = e
      BY <1>2, <1>3, <3>1
    <3>6. mode' = "done" => Keyed' = 1..e
      BY <1>3, <1>7, <2>4, <2>7
    <3>7. QED
      BY <3>4, <3>5, <3>6 DEF Once
  <2>8. QED
    BY <2>6, <2>7
<1>11. QED
  BY <1>6, <1>8, <1>9, <1>10 DEF ZephyrInv

LEMMA DetailsKeep == ASSUME ZephyrInv, Details \/ DetailsFail PROVE ZephyrInv'
<1>1. mode = "details" /\ NextKeys /\ UNCHANGED <<items, pageCap, totals, pattern, pageSize>>
  BY DEF Details, DetailsFail, zephyrServer
<1>2. CASE Details
  <2>1. Deliver(batch) /\ failed' = failed
    BY <1>2 DEF Details
  <2>2. QED
    BY <1>1, <2>1, DeliverTypes, NextKeysKeeps DEF ZephyrInv
<1>3. CASE DetailsFail
  <2>1. failed' /\ delivered' = delivered
    BY <1>3 DEF DetailsFail
  <2>2. delivered \in [Indices -> Nat] /\ \A i \in Indices : delivered[i] >= delivered[i]
    BY DEF ZephyrInv, ZephyrTypes
  <2>3. QED
    BY <1>1, <2>1, <2>2, NextKeysKeeps
<1>4. QED
  BY <1>2, <1>3

-----------------------------------------------------------------------------
(* Theorems *)

LEMMA ZephyrStart == ZephyrInit => ZephyrInv
<1> SUFFICES ASSUME ZephyrInit PROVE ZephyrInv
  OBVIOUS
<1>1. PICK n \in 0..MaxItems : items \in [1..n -> BOOLEAN]
  BY DEF ZephyrInit
<1>2. items \in Seq(BOOLEAN) /\ Len(items) = n
  BY <1>1
<1>3. ZephyrTypes
  BY <1>2, ZephyrAssumption DEF ZephyrInit, ZephyrTypes
<1>4. Once({})
  BY DEF ZephyrInit, Once
<1>5. QED
  BY <1>3, <1>4, Unpaged DEF ZephyrInit

LEMMA ZephyrStepKeeps == ZephyrInv /\ [ZephyrNext]_zephyrVars => ZephyrInv'
<1> SUFFICES ASSUME ZephyrInv, [ZephyrNext]_zephyrVars PROVE ZephyrInv'
  OBVIOUS
<1>1. QED
  BY NothingMoved, StartKeeps, DiscoverySteps, DirectPageKeeps, PageFailsKeeps,
     KeysEndKeeps, KeysPageKeeps, DetailsKeep DEF ZephyrNext

\* Where a fetch of the Zephyr client stands (fetch_all, _fetch_direct_search and
\* _fetch_with_keys_stage): what it has delivered is known from its offset.
THEOREM ZephyrInvariant == ZephyrSpec => []ZephyrInv
<1>1. ZephyrInit => ZephyrInv
  BY ZephyrStart
<1>2. ZephyrInv /\ [ZephyrNext]_zephyrVars => ZephyrInv'
  BY ZephyrStepKeeps
<1>3. QED
  BY <1>1, <1>2, PTL DEF ZephyrSpec

\* A fetch that ends without an error has delivered every item it can, once, where the
\* client reads pages directly or keys of pages as large as asked for, and the first
\* page only where the server's are smaller or report their own count.
THEOREM ZephyrFetchDelivers == ZephyrSpec => []ZephyrDelivers
<1>1. ZephyrInv => ZephyrDelivers
  <2> SUFFICES ASSUME ZephyrInv, pattern # 0 PROVE ZephyrDelivers
    BY DEF ZephyrDelivers
  <2>1. CASE Discovering
    <3>1. startAt = 0 /\ Once({}) /\ mode # "done"
      BY <2>1 DEF ZephyrInv, BeforePages, Discovering
    <3>2. Once(1..startAt)
      BY <3>1 DEF Once
    <3>3. QED
      BY <3>1, <3>2 DEF ZephyrDelivers, Once
  <2>2. CASE ~Discovering
    <3>1. pageCap < Size \/ pageCap >= Size
      BY Sizes DEF ZephyrInv
    <3>2. CASE ~KeysStage[pattern]
      BY <2>2, <3>2 DEF ZephyrInv, DirectKept, ZephyrDelivers, Once, FirstPage, Ended
    <3>3. CASE KeysStage[pattern]
      <4>1. Ended /\ pageCap < Size => Once(FirstPage \cap Keyed)
        BY <2>2, <3>3 DEF ZephyrInv, SmallPagesKept
      <4>2. Ended /\ pageCap >= Size =>
                /\ \A i \in Keyed : delivered[i] > 0
                /\ Keyed = DOMAIN items => Once(Keyed)
        BY <2>2, <3>3 DEF ZephyrInv, FullPagesKept
      <4>3. QED
        BY <3>3, <4>1, <4>2 DEF ZephyrDelivers, Once, FirstPage, Keyed, Ended
    <3>4. QED
      BY <3>2, <3>3
  <2>3. QED
    BY <2>1, <2>2
<1>2. QED
  BY <1>1, ZephyrInvariant, PTL
=============================================================================
