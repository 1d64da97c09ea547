-------------------------------- MODULE ApiFetch --------------------------------
(***************************************************************************)
(* fetch_all of the Jira/Xray, TestRail and TestLink clients: the loop     *)
(* that requests page after page through BaseAPIClient._request and        *)
(* decides from each payload whether there is another one.                 *)
(*                                                                         *)
(* "count": Jira/Xray advances by the items received and stops at the      *)
(* reported total, if the server reports one, or at an empty page.         *)
(* "link": TestRail and TestLink follow the server's next link or cursor.  *)
(*                                                                         *)
(* The server holds Total items in a fixed order and returns at most Cap   *)
(* of them at a time, whatever page size was asked for.  The payload of a  *)
(* suppressed error is {}.                                                 *)
(***************************************************************************)
EXTENDS ApiClient

CONSTANTS
    MaxTotal,   \* bound: items on the server
    MaxFetches  \* bound: calls of fetch_all on one client

ASSUME FetchBounds == MaxTotal \in Nat \ {0} /\ MaxFetches \in Nat

VARIABLES
    style,     \* which pagination the client uses
    total,     \* items on the server
    cap,       \* largest page the server returns
    reported,  \* the server reports a total ("count" only)
    fetch,     \* state of fetch_all
    offset,    \* items received; start_at, offset or cursor of the next page
    known,     \* fetch_all has been told the total
    fetches    \* calls of fetch_all so far

server == <<style, total, cap, reported>>
vars == <<apiVars, server, fetch, offset, known, fetches>>

FetchStates == {"idle", "loop", "waiting", "done", "raised"}

TypeOK ==
    /\ ApiTypeOK
    /\ style \in {"count", "link"}
    /\ total \in 0..MaxTotal
    /\ cap \in 1..MaxTotal
    /\ reported \in BOOLEAN
    /\ fetch \in FetchStates
    /\ offset \in 0..total
    /\ known \in BOOLEAN
    /\ fetches \in 0..MaxFetches

Init ==
    /\ ApiInit
    /\ style \in {"count", "link"}
    /\ total \in 0..MaxTotal
    /\ cap \in 1..MaxTotal
    /\ reported \in BOOLEAN
    /\ fetch = "idle"
    /\ offset = 0
    /\ known = FALSE
    /\ fetches = 0

-----------------------------------------------------------------------------
(* Helpers *)

\* Items on the page that starts at offset.
PageSize == IF cap <= total - offset THEN cap ELSE total - offset

\* Mutant of LastPage: a page shorter than MaxTotal items is the last one.
ShortPageIsLast(n, seen, totalKnown) == n < MaxTotal

\* Mutant of LastPage: an empty page does not stop the loop.
OnlyTotalStops(n, seen, totalKnown) ==
    IF style = "count" THEN totalKnown /\ seen >= total ELSE seen >= total

\* Does the payload with n items, now that "seen" items are in, end the loop?
LastPage(n, seen, totalKnown) ==
    IF style = "count"
       THEN n = 0 \/ (totalKnown /\ seen >= total)
       ELSE seen >= total

-----------------------------------------------------------------------------
(* Actions *)

StartFetch ==
    /\ fetch \in {"idle", "done", "raised"}
    /\ fetches < MaxFetches
    /\ fetches' = fetches + 1
    /\ fetch' = "loop"
    /\ offset' = 0
    /\ known' = FALSE
    /\ UNCHANGED <<apiVars, server>>

\* self._request(...): refused by the breaker, or started.
RequestPage ==
    /\ fetch = "loop"
    /\ \/ RequestRejected /\ fetch' = "raised"
       \/ RequestStarts /\ fetch' = "waiting"
    /\ UNCHANGED <<server, offset, known, fetches>>

\* A step inside _request that does not end it.
RequestGoesOn ==
    /\ fetch = "waiting"
    /\ RequestStep
    /\ req' # "idle"
    /\ UNCHANGED <<server, fetch, offset, known, fetches>>

\* A payload with the next page.
PageArrives ==
    /\ fetch = "waiting"
    /\ AttemptSucceeds
    /\ offset' = offset + PageSize
    /\ known' = (known \/ reported)
    /\ fetch' = IF LastPage(PageSize, offset', known') THEN "done" ELSE "loop"
    /\ UNCHANGED <<server, fetches>>

\* A 2xx answer whose body response.json() cannot parse.
PageUnreadable ==
    /\ fetch = "waiting"
    /\ AttemptSucceeds
    /\ fetch' = "raised"
    /\ UNCHANGED <<server, offset, known, fetches>>

\* The empty payload of a suppressed error has no items and no next link.
EmptyPageArrives ==
    /\ fetch = "waiting"
    /\ AttemptHttpError(TRUE)
    /\ req' = "idle" /\ outcome' = "empty"
    /\ fetch' = "done"
    /\ UNCHANGED <<server, offset, known, fetches>>

\* _request raises, and so does fetch_all.
FetchRaises ==
    /\ fetch = "waiting"
    /\ RequestStep
    /\ req' = "idle" /\ outcome' \in {"breaker", "misread", "error"}
    /\ fetch' = "raised"
    /\ UNCHANGED <<server, offset, known, fetches>>

TimePasses ==
    /\ TimeoutElapses \/ ClockSetBack
    /\ UNCHANGED <<server, fetch, offset, known, fetches>>

FetchStep ==
    \/ RequestPage \/ RequestGoesOn
    \/ PageArrives \/ PageUnreadable \/ EmptyPageArrives \/ FetchRaises

Next == StartFetch \/ FetchStep \/ TimePasses

Spec == Init /\ [][Next]_vars

\* The client's own code goes on.  An attempt need not end: the session's get
\* and post have no timeout, and a server may leave one without an answer.
FairSpec == Spec /\ WF_vars(RequestPage) /\ WF_vars(FetchRaises /\ GiveUp)

-----------------------------------------------------------------------------
(* Properties *)

\* A fetch_all that returns without an exception has delivered every item of
\* the server, whatever the server's page cap and whether or not it reports a
\* total -- unless an error was suppressed, which looks like a last page.
FetchIsComplete == fetch = "done" /\ outcome # "empty" => offset = total

\* Every fetch_all returns or raises, unless one of its attempts is never
\* answered: no server that goes on answering keeps it paging for ever.
FetchEnds == fetch = "loop" ~> fetch \in {"done", "raised"} \/ [](req = "attempt")
=============================================================================
