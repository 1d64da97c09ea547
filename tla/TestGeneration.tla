---------------------------- MODULE TestGeneration ----------------------------
(***************************************************************************)
(* generate_test_suite of utils/test_generation: total tests are shared    *)
(* out over categories, by counts that are scaled or by weights, made one  *)
(* after another and written in batches through a queue that belongs to    *)
(* the generator, which may make another suite, in a directory of its own, *)
(* after one that raised.  The slot that resource_manager gives a suite is *)
(* in ResourceManager, the contents of a test are left out.                *)
(***************************************************************************)
EXTENDS Integers, Sequences, FiniteSets, FiniteSetsExt

CONSTANTS
    Categories,  \* categories with scenarios: get_available_scenarios
    ScenarioTypes, \* [Categories -> number of its scenario types]
    Requests,    \* distributions and weights asked for: sequences of [category, share]
    Totals,      \* values of total_tests
    BatchSize,   \* file_write_batch_size
    MaxSuites    \* bound: suites of one generator

\* There are four categories; a request is a dictionary.
ASSUME GenerationAssumption ==
    /\ IsFiniteSet(Categories) /\ Cardinality(Categories) <= 4 /\ "none" \notin Categories
    /\ ScenarioTypes \in [Categories -> Nat \ {0}]
    /\ Totals \subseteq Nat \ {0}
    /\ \A r \in Requests :
          /\ Len(r) \in Nat \ {0} /\ DOMAIN r = 1..Len(r)
          /\ \A k \in DOMAIN r : r[k].share \in Nat \ {0}
          /\ \A j, k \in DOMAIN r : r[j].category = r[k].category => j = k
    /\ BatchSize \in Nat \ {0} /\ MaxSuites \in Nat

VARIABLES
    suite,     \* the suite being made, or made last
    toWrite,   \* _file_write_queue
    stored,    \* tests of this suite on disk
    lost,      \* history: a write of this suite failed
    suites     \* suites begun

generationVars == <<suite, toWrite, stored, lost, suites>>

\* A test is known by its category and number; one of an earlier suite is stale.
Stale == [category |-> "none", id |-> 0]

NoSuite == [at |-> "rest", total |-> 1, request |-> <<>>, weighted |-> FALSE,
            counts |-> <<>>,     \* get_test_distribution
            generated |-> <<>>,  \* generated_counts
            todo |-> <<>>,       \* tests left, by scenario type
            testId |-> 1,        \* number of the next test
            written |-> 0]       \* items of toWrite that have been written

GenerationTypeOK ==
    /\ suite.at \in {"rest", "distribute", "category", "tests", "write", "returned", "raised"}
    /\ Len(suite.generated) <= Len(suite.request)
    /\ suite.testId \in Int
    /\ Len(toWrite) <= BatchSize /\ suite.written \in 0..Len(toWrite)
    /\ lost \in BOOLEAN /\ suites \in 0..MaxSuites

GenerationInit ==
    /\ suite = NoSuite
    /\ toWrite = <<>> /\ stored = {}
    /\ lost = FALSE
    /\ suites = 0

-----------------------------------------------------------------------------
(* DistributionManager *)

Total(counts) ==
    LET sum[n \in 0..Len(counts)] == IF n = 0 THEN 0 ELSE sum[n - 1] + counts[n]
    IN  sum[Len(counts)]
Shares(request) == [k \in DOMAIN request |-> request[k].share]

AtLeastOne(n) == IF n < 1 THEN 1 ELSE n

\* Each share of the total, rounded down, and what that leaves of it.
Floors(shares, total) == [k \in DOMAIN shares |-> (shares[k] * total) \div Total(shares)]
Fractions(shares, total) == [k \in DOMAIN shares |-> (shares[k] * total) % Total(shares)]

\* int(v * scale_factor) of a product that is whole may be one less, as scale_factor
\* is a rounded quotient.
Scaled(shares, total) ==
    LET floor == Floors(shares, total)
        whole == {k \in DOMAIN shares : Fractions(shares, total)[k] = 0}
    IN  {[k \in DOMAIN shares |-> AtLeastOne(floor[k] - (IF k \in short THEN 1 ELSE 0))] :
         short \in SUBSET whole}

LargestCategory(counts) ==
    Min({k \in DOMAIN counts : \A j \in DOMAIN counts : counts[j] <= counts[k]})

\* process_absolute_distribution.  The first of the largest takes up the difference,
\* and may end below one.
Absolute(request, total) ==
    LET shares == Shares(request)
    IN  IF Total(shares) = total
           THEN {shares}
           ELSE {[counts EXCEPT ![LargestCategory(counts)] = @ + total - Total(counts)] :
                 counts \in Scaled(shares, total)}

\* process_weighted_distribution: what is left goes to the largest fractions.  A
\* whole product that is rounded down is a fraction near one and gets it back.
Weighted(request, total) ==
    LET shares == Shares(request)
        floor == Floors(shares, total)
        fraction == Fractions(shares, total)
    IN  {[k \in DOMAIN shares |-> IF k \in up THEN floor[k] + 1 ELSE floor[k]] :
            up \in {u \in SUBSET DOMAIN shares :
                /\ Cardinality(u) = total - Total(floor)
                /\ \A k \in u, j \in DOMAIN shares \ u : fraction[k] >= fraction[j]}}

-----------------------------------------------------------------------------
(* Helpers *)

Making(where) == suite.at = where
Category == suite.request[Len(suite.generated) + 1].category
Count == suite.counts[Len(suite.generated) + 1]
CategoriesLeft == Len(suite.generated) < Len(suite.request)

\* _calculate_test_distribution: the first types get the remainder.
Spread(count, types) ==
    [k \in 1..types |-> count \div types + IF k <= count % types THEN 1 ELSE 0]

-----------------------------------------------------------------------------
(* generate_test_suite *)

\* What an earlier suite that raised has left in the queue stays there.
StartSuite(request, total, weighted) ==
    /\ suite.at \in {"rest", "returned", "raised"}
    /\ suites < MaxSuites
    /\ suites' = suites + 1
    /\ suite' = [NoSuite EXCEPT !.at = "distribute", !.total = total,
                                !.request = request, !.weighted = weighted]
    /\ toWrite' = [k \in DOMAIN toWrite |-> Stale]
    /\ stored' = {} /\ lost' = FALSE

Distribute ==
    /\ Making("distribute")
    /\ \A k \in DOMAIN suite.request : suite.request[k].category \in Categories
    /\ \E counts \in (IF suite.weighted THEN Weighted(suite.request, suite.total)
                                        ELSE Absolute(suite.request, suite.total)) :
          suite' = [suite EXCEPT !.at = "category", !.counts = counts]
    /\ UNCHANGED <<toWrite, stored, lost, suites>>

\* The request is beyond a limit, no slot is free, a category is unknown, the
\* operation runs too long, its directory cannot be made, or a test cannot be
\* made: what is queued stays queued.
SuiteRaises ==
    /\ suite.at \in {"distribute", "category", "tests"}
    /\ Making("category") => CategoriesLeft
    /\ Making("tests") => Total(suite.todo) > 0
    /\ suite' = [suite EXCEPT !.at = "raised"]
    /\ UNCHANGED <<toWrite, stored, lost, suites>>

\* CategoryTestParams.validate: a count below one is no error, and a negative one
\* takes the numbering back.
SkipCategory ==
    /\ Making("category") /\ CategoriesLeft
    /\ Count <= 0
    /\ suite' = [suite EXCEPT !.generated = Append(@, 0), !.testId = @ + Count]
    /\ UNCHANGED <<toWrite, stored, lost, suites>>

EnterCategory ==
    /\ Making("category") /\ CategoriesLeft
    /\ Count > 0
    /\ suite' = [suite EXCEPT !.at = "tests", !.todo = Spread(Count, ScenarioTypes[Category])]
    /\ UNCHANGED <<toWrite, stored, lost, suites>>

ReturnCounts ==
    /\ Making("category") /\ ~CategoriesLeft
    /\ suite' = [suite EXCEPT !.at = "returned"]
    /\ UNCHANGED <<toWrite, stored, lost, suites>>

-----------------------------------------------------------------------------
(* _generate_category_tests and the queue *)

MakeTest ==
    /\ Making("tests") /\ Total(suite.todo) > 0
    /\ LET type == Min({k \in DOMAIN suite.todo : suite.todo[k] > 0})
           queued == Append(toWrite, [category |-> Category, id |-> suite.testId])
       IN  /\ toWrite' = queued
           /\ suite' = [suite EXCEPT
                 !.todo[type] = @ - 1, !.testId = @ + 1,
                 !.at = IF Len(queued) >= BatchSize THEN "write" ELSE "tests"]
    /\ UNCHANGED <<stored, lost, suites>>

\* Mutant of EndTests: what is left in the queue is not written.
EndTestsUnflushed ==
    /\ Making("tests") /\ Total(suite.todo) = 0
    /\ suite' = [suite EXCEPT !.at = "category", !.generated = Append(@, Count)]
    /\ UNCHANGED <<toWrite, stored, lost, suites>>

EndTests ==
    /\ Making("tests") /\ Total(suite.todo) = 0
    /\ suite' = IF toWrite # <<>>
                   THEN [suite EXCEPT !.at = "write"]
                   ELSE [suite EXCEPT !.at = "category", !.generated = Append(@, Count)]
    /\ UNCHANGED <<toWrite, stored, lost, suites>>

\* _write_queue_item: a write that fails is passed over, and the test counts.
WriteTest(fails) ==
    /\ Making("write") /\ suite.written < Len(toWrite)
    /\ LET test == toWrite[suite.written + 1]
       IN  IF test = Stale
              THEN UNCHANGED <<stored, lost>>
              ELSE /\ stored' = IF fails THEN stored ELSE stored \cup {test}
                   /\ lost' = (lost \/ fails)
    /\ suite' = [suite EXCEPT !.written = @ + 1]
    /\ UNCHANGED <<toWrite, suites>>

ClearQueue ==
    /\ Making("write") /\ suite.written = Len(toWrite)
    /\ toWrite' = <<>>
    /\ suite' = [suite EXCEPT !.at = "tests", !.written = 0]
    /\ UNCHANGED <<stored, lost, suites>>

GenerationNext ==
    \/ \E request \in Requests, total \in Totals, weighted \in BOOLEAN :
          StartSuite(request, total, weighted)
    \/ Distribute \/ SuiteRaises
    \/ SkipCategory \/ EnterCategory \/ ReturnCounts
    \/ MakeTest \/ EndTests \/ ClearQueue
    \/ \E fails \in BOOLEAN : WriteTest(fails)

GenerationSpec == GenerationInit /\ [][GenerationNext]_generationVars

-----------------------------------------------------------------------------
(* Properties *)

\* A suite that returns is what its counts say, whatever a suite before it left in
\* the queue: every test counted has a file of its own and a number of its own
\* through all categories, unless a write failed, and the counts add up to the
\* request, unless fewer tests than categories were asked for.
SuiteIsWhole ==
    Making("returned") =>
        /\ toWrite = <<>>
        /\ ~lost => \A k \in DOMAIN suite.request :
              suite.generated[k] =
                  Quantify(stored, LAMBDA test : test.category = suite.request[k].category)
        /\ \A s, t \in stored : s.id = t.id => s = t
        /\ suite.weighted \/ Len(suite.request) <= suite.total =>
              Total(suite.generated) = suite.total

\* "total_tests: Total number of tests to generate" (utils/test_generation/helpers.py).
RequestIsMet == Making("returned") => Total(suite.generated) = suite.total
=============================================================================
