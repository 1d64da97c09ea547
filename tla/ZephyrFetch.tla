------------------------------ MODULE ZephyrFetch ------------------------------
(***************************************************************************)
(* fetch_all of integrations/clients/zephyr.py.  The client tries patterns *)
(* of the API, each with every kind of authentication, keeps the first     *)
(* that answers, tries page sizes, and then reads either the test cases    *)
(* page by page or their keys page by page and the details of each batch.  *)
(* It uses the session directly, past _request with its retries, circuit   *)
(* breaker and rate limiter: an exception at a page ends the iteration as  *)
(* the last page does, and one at a batch of details skips the batch.      *)
(*                                                                         *)
(* The server holds items in a fixed order, of which some may have no key, *)
(* and returns at most pageCap of them whatever it was asked for.          *)
(***************************************************************************)
EXTENDS Integers, Sequences, FiniteSets

CONSTANTS
    MaxItems,         \* bound: items on the server
    PageSizes,        \* DEFAULT_PAGE_SIZES, as a sequence
    Strategies,       \* number of AUTH_STRATEGIES
    MaxZephyrFetches  \* bound: calls of fetch_all

ASSUME ZephyrAssumption ==
    /\ MaxItems \in Nat /\ Strategies \in Nat \ {0} /\ MaxZephyrFetches \in Nat
    /\ PageSizes \in Seq(Nat \ {0}) /\ PageSizes # <<>>

VARIABLES
    items,      \* the server's items: has it a key?
    pageCap,    \* largest page of the server
    totals,     \* what the server reports: the "total", the count of the "page", "nothing"
    project,    \* the client was given a project
    mode,       \* where fetch_all stands
    pattern,    \* _discovered_pattern: index, or 0
    strategy,   \* _working_auth_strategy, or the one being tried
    pageSize,   \* _effective_page_size, as an index
    startAt,    \* offset
    batch,      \* results of the page being worked on
    delivered,  \* history: how often each item was delivered in this fetch
    failed,     \* history: a request of this fetch has failed, or a page had no key
    calls       \* calls of fetch_all so far

zephyrServer == <<items, pageCap, totals, project>>
zephyrVars == <<zephyrServer, mode, pattern, strategy, pageSize, startAt, batch, delivered,
                failed, calls>>

\* requires_keys_stage of API_PATTERNS
KeysStage == <<TRUE, FALSE, FALSE, TRUE, TRUE, FALSE>>

Indices == 1..MaxItems
Size == PageSizes[pageSize]

ZephyrTypeOK ==
    /\ items \in UNION {[1..n -> BOOLEAN] : n \in 0..MaxItems}
    /\ pageCap \in 1..MaxItems
    /\ totals \in {"total", "page", "nothing"}
    /\ project \in BOOLEAN
    /\ mode \in {"idle", "probe", "size", "direct", "keys", "details", "done", "raised"}
    /\ pattern \in 0..Len(KeysStage) /\ strategy \in 1..Strategies
    /\ pageSize \in DOMAIN PageSizes
    /\ startAt \in 0..Len(items)
    /\ batch \subseteq DOMAIN items
    /\ delivered \in [Indices -> Nat]
    /\ failed \in BOOLEAN
    /\ calls \in 0..MaxZephyrFetches

ZephyrInit ==
    /\ items \in UNION {[1..n -> BOOLEAN] : n \in 0..MaxItems}
    /\ pageCap \in 1..MaxItems
    /\ totals \in {"total", "page", "nothing"}
    /\ project \in BOOLEAN
    /\ mode = "idle"
    /\ pattern = 0 /\ strategy = 1 /\ pageSize = 1
    /\ startAt = 0 /\ batch = {}
    /\ delivered = [i \in Indices |-> 0]
    /\ failed = FALSE
    /\ calls = 0

-----------------------------------------------------------------------------
(* Helpers *)

\* Patterns after p that are tried: those with a keys stage need a project.
Candidates(p) == {q \in p + 1..Len(KeysStage) : project \/ ~KeysStage[q]}

\* The page at startAt: at most Size items, and no more than the server gives.
Page ==
    {i \in DOMAIN items : startAt < i /\ i <= startAt + Size /\ i <= startAt + pageCap}

\* _extract_total
Reported == IF totals = "page" THEN Cardinality(Page) ELSE Len(items)

Deliver(is) == delivered' = [i \in Indices |-> delivered[i] + IF i \in is THEN 1 ELSE 0]

EndFetch == mode' = "done"

-----------------------------------------------------------------------------
(* Discovery *)

StartZephyrFetch ==
    /\ mode \in {"idle", "done", "raised"}
    /\ calls < MaxZephyrFetches
    /\ calls' = calls + 1
    /\ startAt' = 0 /\ batch' = {} /\ failed' = FALSE
    /\ delivered' = [i \in Indices |-> 0]
    /\ IF pattern = 0
          THEN /\ mode' = "probe" /\ strategy' = 1
               /\ pattern' = CHOOSE p \in Candidates(0) : \A q \in Candidates(0) : p <= q
          ELSE /\ mode' = IF KeysStage[pattern] THEN "keys" ELSE "direct"
               /\ UNCHANGED <<strategy, pattern>>
    /\ UNCHANGED <<zephyrServer, pageSize>>

\* _test_api_connection: a keys stage needs a result, the others any dictionary
\* that is not empty.
ProbeAnswers ==
    /\ mode = "probe"
    /\ KeysStage[pattern] => items # <<>>
    /\ mode' = "size" /\ pageSize' = 1
    /\ UNCHANGED <<zephyrServer, pattern, strategy, startAt, batch, delivered, failed, calls>>

\* Anything else: the next kind of authentication, then the next pattern; after
\* the last one fetch_all raises, with nothing discovered.
ProbeFails ==
    /\ mode = "probe"
    /\ IF strategy < Strategies
          THEN strategy' = strategy + 1 /\ UNCHANGED <<mode, pattern>>
          ELSE /\ strategy' = 1
               /\ IF Candidates(pattern) = {}
                     THEN mode' = "raised" /\ pattern' = 0
                     ELSE /\ pattern' = CHOOSE p \in Candidates(pattern) :
                                           \A q \in Candidates(pattern) : p <= q
                          /\ UNCHANGED mode
    /\ UNCHANGED <<zephyrServer, pageSize, startAt, batch, delivered, failed, calls>>

\* _detect_optimal_page_size: the first size that is answered, or else the first.
TryPageSize ==
    /\ mode = "size"
    /\ \/ mode' = (IF KeysStage[pattern] THEN "keys" ELSE "direct") /\ UNCHANGED pageSize
       \/ IF pageSize < Len(PageSizes)
             THEN pageSize' = pageSize + 1 /\ UNCHANGED mode
             ELSE pageSize' = 1 /\ mode' = IF KeysStage[pattern] THEN "keys" ELSE "direct"
    /\ UNCHANGED <<zephyrServer, pattern, strategy, startAt, batch, delivered, failed, calls>>

-----------------------------------------------------------------------------
(* _fetch_direct_search *)

DirectPage ==
    /\ mode = "direct"
    /\ Deliver(Page)
    /\ startAt' = startAt + Cardinality(Page)
    /\ IF Page = {} \/ (totals # "nothing" /\ startAt' >= Reported)
          THEN EndFetch ELSE UNCHANGED mode
    /\ UNCHANGED <<zephyrServer, pattern, strategy, pageSize, batch, failed, calls>>

\* An error of the transport, the server or the payload: the iteration ends.
PageFails ==
    /\ mode \in {"direct", "keys"}
    /\ EndFetch
    /\ failed' = TRUE
    /\ UNCHANGED <<zephyrServer, pattern, strategy, pageSize, startAt, batch, delivered, calls>>

-----------------------------------------------------------------------------
(* _fetch_with_keys_stage, _fetch_all_keys *)

\* A page without results or without a single key is the last.
KeysEnd ==
    /\ mode = "keys"
    /\ \A i \in Page : ~items[i]
    /\ EndFetch
    /\ failed' = (failed \/ Page # {})
    /\ UNCHANGED <<zephyrServer, pattern, strategy, pageSize, startAt, batch, delivered, calls>>

KeysPage ==
    /\ mode = "keys"
    /\ \E i \in Page : items[i]
    /\ batch' = {i \in Page : items[i]}
    /\ mode' = "details"
    /\ UNCHANGED <<zephyrServer, pattern, strategy, pageSize, startAt, delivered, failed, calls>>

\* Mutant of NextKeys: a short page is not the last one.
NextKeysOn ==
    /\ startAt' = startAt + Cardinality(batch)
    /\ mode' = "keys"

\* The offset moves by the keys found, and a page shorter than asked for is the last.
NextKeys ==
    /\ startAt' = startAt + Cardinality(batch)
    /\ IF Cardinality(Page) < Size THEN EndFetch ELSE mode' = "keys"

\* _fetch_details_for_keys delivers the batch.
Details ==
    /\ mode = "details"
    /\ Deliver(batch)
    /\ batch' = {}
    /\ NextKeys
    /\ UNCHANGED <<zephyrServer, pattern, strategy, pageSize, failed, calls>>

\* It fails, and the batch is skipped.
DetailsFail ==
    /\ mode = "details"
    /\ failed' = TRUE
    /\ batch' = {}
    /\ NextKeys
    /\ UNCHANGED <<zephyrServer, pattern, strategy, pageSize, delivered, calls>>

ZephyrNext ==
    \/ StartZephyrFetch \/ ProbeAnswers \/ ProbeFails \/ TryPageSize
    \/ DirectPage \/ PageFails \/ KeysEnd \/ KeysPage \/ Details \/ DetailsFail

ZephyrSpec == ZephyrInit /\ [][ZephyrNext]_zephyrVars

-----------------------------------------------------------------------------
(* Properties *)

\* What a fetch that ended without an error has delivered.  Read directly: every
\* item once, unless the server reports the count of each page, which ends it
\* after the first.  Read by keys, from a server that gives pages as large as
\* asked for: every item with a key, and no item twice if all have one; from a
\* server that gives smaller pages: the first page only.  Pages with failures
\* leave no gap and no repetition in a direct read.
ZephyrDelivers ==
    LET once(is) == \A i \in Indices : delivered[i] = IF i \in is THEN 1 ELSE 0
        Keyed == {i \in DOMAIN items : items[i]}
        First == {i \in DOMAIN items : i <= pageCap /\ i <= Size}
        Ended == mode = "done" /\ ~failed
    IN  pattern # 0 =>
          IF ~KeysStage[pattern]
             THEN /\ once(1..startAt)
                  /\ Ended => startAt = IF totals = "page" THEN Cardinality(First) ELSE Len(items)
             ELSE /\ Ended /\ pageCap < Size => once(First \cap Keyed)
                  /\ Ended /\ pageCap >= Size =>
                        /\ \A i \in Keyed : delivered[i] > 0
                        /\ Keyed = DOMAIN items => once(Keyed)
=============================================================================
