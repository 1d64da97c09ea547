------------------------------- MODULE ApiClient -------------------------------
(***************************************************************************)
(* One request of BaseAPIClient (integrations/clients/base.py): up to      *)
(* MaxRetries + 1 attempts, the answers a server or the network may give   *)
(* to each, the error handler a caller may register, and the circuit       *)
(* breaker that counts failures over all requests of the client.           *)
(*                                                                         *)
(* A client serves one request at a time.  Time is kept only as far as the *)
(* breaker looks at it: the last failure is recent or the half-open        *)
(* timeout has passed since.  How long a retry waits is left out.          *)
(***************************************************************************)
EXTENDS Integers

CONSTANTS
    MaxRetries,  \* _max_retries: retries after the first attempt
    Threshold    \* _circuit_breaker_threshold

ASSUME MaxRetriesAssumption == MaxRetries \in Nat
ASSUME ThresholdAssumption == Threshold \in Nat \ {0}

VARIABLES
    failures,  \* _circuit_failure_count
    last,      \* age of _circuit_last_failure_time; "none" stands for None
    open,      \* _circuit_open
    req,       \* where the request is in _request
    attempt,   \* the loop's variable
    outcome,   \* how the last request ended
    bad        \* history: attempts that failed since the last success, 429 apart

breaker == <<failures, last, open>>
apiVars == <<breaker, req, attempt, outcome, bad>>

Ages == {"none", "recent", "old"}
Outcomes == {"none", "ok", "empty", "rejected", "breaker", "misread", "error"}

ApiTypeOK ==
    /\ failures \in Nat
    /\ last \in Ages
    /\ open \in BOOLEAN
    /\ req \in {"idle", "attempt", "giveUp"}
    /\ attempt \in 0..MaxRetries
    /\ outcome \in Outcomes
    /\ bad \in Nat

ApiInit ==
    /\ failures = 0
    /\ last = "none"
    /\ open = FALSE
    /\ req = "idle"
    /\ attempt = 0
    /\ outcome = "none"
    /\ bad = 0

-----------------------------------------------------------------------------
(* Helpers *)

\* Mutant of RecordFailure: the time of the failure is not kept.
RecordUntimedFailure ==
    /\ failures' = failures + 1
    /\ open' = (open \/ failures + 1 >= Threshold)
    /\ UNCHANGED last

\* Mutant of RecordFailure: the circuit opens at the threshold and not above it.
RecordFailureAtThreshold ==
    /\ failures' = failures + 1
    /\ last' = "recent"
    /\ open' = (open \/ failures + 1 = Threshold)

RecordFailure ==
    /\ failures' = failures + 1
    /\ last' = "recent"
    /\ open' = (open \/ failures + 1 >= Threshold)

RecordSuccess ==
    /\ failures' = 0
    /\ last' = "none"
    /\ open' = FALSE

\* _request returns or raises.
End(how) ==
    /\ req' = "idle"
    /\ attempt' = 0
    /\ outcome' = how

\* "continue" at the end of an attempt: the next one, or the code after the loop.
NextAttempt ==
    /\ IF attempt < MaxRetries
          THEN attempt' = attempt + 1 /\ req' = "attempt"
          ELSE attempt' = attempt /\ req' = "giveUp"
    /\ UNCHANGED outcome

-----------------------------------------------------------------------------
(* Actions *)

\* _check_circuit_breaker refuses the request.
RequestRejected ==
    /\ req = "idle"
    /\ open /\ last # "old"
    /\ End("rejected")
    /\ UNCHANGED <<breaker, bad>>

\* The circuit is closed, or half-open: the flag is cleared, the count is not.
RequestStarts ==
    /\ req = "idle"
    /\ open => last = "old"
    /\ open' = FALSE
    /\ req' = "attempt"
    /\ attempt' = 0
    /\ UNCHANGED <<failures, last, outcome, bad>>

AttemptSucceeds ==
    /\ req = "attempt"
    /\ RecordSuccess
    /\ End("ok")
    /\ bad' = 0

\* 429: sleep and retry; without a retry left the RuntimeError raised inside
\* the try block is caught by its own except clause.
AttemptThrottled ==
    /\ req = "attempt"
    /\ NextAttempt
    /\ UNCHANGED <<breaker, bad>>

\* Mutant of AttemptHttpError: the breaker is looked at before a request only.
AttemptHttpErrorUnchecked(suppressed) ==
    /\ req = "attempt"
    /\ RecordFailure
    /\ bad' = bad + 1
    /\ IF suppressed THEN End("empty") ELSE NextAttempt

\* Any other status from 400 up, and what the error handler says of it.
AttemptHttpError(suppressed) ==
    /\ req = "attempt"
    /\ RecordFailure
    /\ bad' = bad + 1
    /\ IF open'
          THEN End("breaker")
          ELSE IF suppressed THEN End("empty") ELSE NextAttempt

\* The session or the error handler raises.
AttemptRaises ==
    /\ req = "attempt"
    /\ NextAttempt
    /\ bad' = bad + 1
    /\ UNCHANGED breaker

\* The same with an exception whose text mentions a circuit breaker, which
\* _request takes for its own and raises at once, counting nothing.
AttemptRaisesBreakerText ==
    /\ req = "attempt"
    /\ End("misread")
    /\ bad' = bad + 1
    /\ UNCHANGED breaker

\* The code after the loop.
GiveUp ==
    /\ req = "giveUp"
    /\ RecordFailure
    /\ End(IF open' THEN "breaker" ELSE "error")
    /\ UNCHANGED bad

\* _circuit_breaker_timeout seconds have passed since the last failure.
TimeoutElapses ==
    /\ last = "recent"
    /\ last' = "old"
    /\ UNCHANGED <<failures, open, req, attempt, outcome, bad>>

\* time.time() is a wall clock, which may be set back.
ClockSetBack ==
    /\ last = "old"
    /\ last' = "recent"
    /\ UNCHANGED <<failures, open, req, attempt, outcome, bad>>

RequestStep ==
    \/ AttemptSucceeds
    \/ AttemptThrottled
    \/ \E suppressed \in BOOLEAN : AttemptHttpError(suppressed)
    \/ AttemptRaises
    \/ AttemptRaisesBreakerText
    \/ GiveUp

ApiNext == RequestRejected \/ RequestStarts \/ RequestStep \/ TimeoutElapses \/ ClockSetBack

ApiSpec == ApiInit /\ [][ApiNext]_apiVars

-----------------------------------------------------------------------------
(* Properties *)

\* Nothing is sent while the circuit is open: an attempt is made only when the
\* flag is clear, also after a failure in the middle of the retry loop.
NoAttemptWhileOpen == req # "idle" => ~open

\* An open circuit has counted its threshold and knows when it opened, so the
\* half-open test can come true.
OpenIsJustified == open => failures >= Threshold /\ last # "none"

\* A probe settles the breaker: between requests a count at the threshold goes
\* with an open circuit, unless the last request was taken for the breaker's
\* own error.
ProbeSettlesBreaker ==
    req = "idle" /\ failures >= Threshold => open \/ outcome = "misread"

\* What the class documents: the circuit opens after Threshold consecutive
\* failures.
OpensAtThreshold == open => bad >= Threshold
=============================================================================
