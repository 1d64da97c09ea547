---------------------------- MODULE SuggestionEngine ----------------------------
(***************************************************************************)
(* apply_suggestions of core/suggestions: the test cases of a file are     *)
(* improved one after the other, in a deep copy, and what it returns may   *)
(* be given to it again.  Each improver reads what the ones before it have *)
(* left: names, steps, parameters, steps that compare the outputs of two   *)
(* commands, and the wording of built-in keywords.                         *)
(*                                                                         *)
(* A text is known by what the improvers look for in it.  A command is a   *)
(* sequence of tokens without options or commas; its step is one for       *)
(* collect_command_steps.  An action stands under "step" and uses          *)
(* parameters only where it is the command.  What is no dictionary among   *)
(* the test cases and steps is left out.                                   *)
(***************************************************************************)
EXTENDS Integers, Sequences, FiniteSets
LOCAL INSTANCE SequencesExt

CONSTANTS
    TestFiles, \* files: sequences of test cases
    HashWords, \* tokens that name a comparison: _is_comparison_candidate
    MaxApplied \* bound: calls of apply_suggestions

VARIABLES
    given,         \* the data the caller has
    copied,        \* improved_data: the deep copy
    improvedCases, \* test cases of it that are done
    changes,       \* kinds of changes_made
    engine,        \* rest, improving, returned or raised
    applied        \* calls so far

engineVars == <<given, copied, improvedCases, changes, engine, applied>>

\* A step: its command, or none; the field of its test data, or "action" for a step
\* without, whose action is its command; the keyword its action stands for; whether
\* that names a comparison; whether the data name a value; whether a result is
\* expected; parameters it uses, and those that stand in other braces; its number, or
\* 0; and, when it was generated, the numbers of the steps it compares.
Keywords == {"assert", "convert", "log"}
StepTypeOK(s) ==
    /\ s.action \in {"none", "plain"} \cup Keywords
    /\ s.field \in {"testData", "test_data", "action"}
    /\ s.word \in BOOLEAN /\ s.value \in BOOLEAN /\ s.result \in BOOLEAN
    /\ s.field = "action" => s.action # "none" /\ ~s.value
    /\ s.index \in Nat /\ Len(s.from) \in {0, 2}
    /\ s.from # <<>> => Head(s.cmd) = "command_1:"

\* A test case: has it a name and a description; is its script a dictionary, with
\* these steps, or another value; steps outside of a script; the field of its
\* parameters and the names in it.
EngineTypeOK ==
    /\ engine \in {"rest", "improving", "returned", "raised"}
    /\ improvedCases \in 0..Len(copied)
    /\ applied \in 0..MaxApplied
    /\ \A i \in DOMAIN copied :
          /\ copied[i].script \in {"steps", "other", "none"}
          /\ copied[i].field \in {"parameters", "params", "text", "none"}
          /\ \A k \in DOMAIN copied[i].steps : StepTypeOK(copied[i].steps[k])

EngineAtRest ==
    /\ copied = <<>> /\ improvedCases = 0 /\ changes = {}
    /\ engine = "rest" /\ applied = 0

EngineInit == given \in TestFiles /\ EngineAtRest

-----------------------------------------------------------------------------
(* FieldValidator and StepAnalyzer *)

Named(test) == [test EXCEPT !.name = TRUE, !.described = TRUE]

DefaultStep ==
    [cmd |-> <<>>, field |-> "action", action |-> "plain", word |-> FALSE, value |-> FALSE,
     result |-> TRUE, uses |-> {}, loose |-> {}, index |-> 1, from |-> <<>>]

\* _improve_single_step: an action and a result, and placeholders in the braces
\* that parameters have.
ImprovedStep(s) ==
    [s EXCEPT !.action = IF @ = "none" THEN "plain" ELSE @, !.result = TRUE,
              !.uses = @ \cup s.loose, !.loose = {}]

\* improve_steps: a script that is no dictionary is replaced, and one without
\* steps gets one, whatever stands in a steps field beside it.
WithSteps(test) ==
    [test EXCEPT
        !.script = "steps",
        !.steps = IF test.script # "steps" \/ @ = <<>>
                     THEN <<DefaultStep>>
                     ELSE [k \in DOMAIN @ |-> ImprovedStep(@[k])]]

-----------------------------------------------------------------------------
(* ParameterAnalyzer *)

Used(test) == UNION {test.steps[k].uses : k \in DOMAIN test.steps}
Defined(test) == IF test.field = "parameters" THEN ToSet(test.params) ELSE {}
Undefined(test) == Used(test) \ Defined(test)

\* _add_parameters_to_test_case: the field that is extended is "parameters", but
\* another may have been found.
ParametersFail(test) == test.field = "params" /\ Undefined(test) # {}

\* improve_parameters
WithParameters(test) ==
    [test EXCEPT
        !.field = IF @ = "none" THEN "parameters" ELSE @,
        !.params = IF test.field \in {"none", "parameters"}
                      THEN @ \o SetToSeq(Undefined(test)) ELSE @]

-----------------------------------------------------------------------------
(* ComparisonAnalyzer *)

FirstIndex(s, steps) ==
    CHOOSE k \in DOMAIN steps : steps[k] = s /\ \A j \in 1..(k - 1) : steps[j] # s

\* _is_comparison_candidate, _normalize_command_signature
Candidate(s) == s.cmd # <<>> /\ (s.word \/ \E k \in DOMAIN s.cmd : s.cmd[k] \in HashWords)
Signature(s) == Head(s.cmd)

\* _group_comparable_commands, over all steps that find_steps finds: those that
\* share their signature with another.
Comparable(all) ==
    SelectSeq(all, LAMBDA s : Candidate(s) /\
        Len(SelectSeq(all, LAMBDA t : Candidate(t) /\ Signature(t) = Signature(s))) > 1)

\* _index_comparable_commands: in the order of the script, all groups together;
\* equal steps all count where the first of them is.
Indexed(steps, all) ==
    FlattenSeq([k \in DOMAIN steps |->
        IF FirstIndex(steps[k], steps) = k
           THEN SelectSeq(Comparable(all), LAMBDA s : s = steps[k]) ELSE <<>>])

Pairs(commands) ==
    [j \in 1..(Len(commands) \div 2) |-> <<commands[2 * j - 1], commands[2 * j]>>]

\* _source_step_numbers, _next_step_index
StepNumber(s, steps) == IF s.index # 0 THEN s.index ELSE FirstIndex(s, steps)
NextIndex(steps) ==
    LET highest == FoldLeft(LAMBDA n, s : IF s.index > n THEN s.index ELSE n, 0, steps)
    IN  IF highest # 0 THEN highest + 1 ELSE Len(steps) + 1

\* _create_comparison_step
Comparison(pair, steps) ==
    [cmd |-> <<"command_1:">> \o pair[1].cmd \o <<"command_2:">> \o pair[2].cmd,
     field |-> "testData", action |-> "assert", word |-> TRUE, value |-> FALSE, result |-> TRUE,
     uses |-> pair[1].uses \cup pair[2].uses, loose |-> {},
     index |-> NextIndex(steps),
     from |-> <<StepNumber(pair[1], steps), StepNumber(pair[2], steps)>>]

\* _existing_comparison_step
Exists(comparison, steps) ==
    \E k \in DOMAIN steps :
        /\ steps[k].from # <<>>
        /\ steps[k].from = comparison.from \/ steps[k].cmd = comparison.cmd

\* Mutant of InsertPosition: after the first command.
PositionAfterFirst(pair, steps) == FirstIndex(pair[1], steps) + 1

InsertPosition(pair, steps) == FirstIndex(pair[2], steps) + 1

\* _insert_hash_comparison_step
Inserted(steps, pair) ==
    LET comparison == Comparison(pair, steps)
    IN  IF Exists(comparison, steps)
           THEN steps
           ELSE InsertAt(steps, InsertPosition(pair, steps), comparison)

\* add_comparison_steps
WithComparisons(test) ==
    [test EXCEPT !.steps = FoldLeft(Inserted, @, Pairs(Indexed(@, @ \o test.outside)))]

-----------------------------------------------------------------------------
(* BuiltInKeywordAnalyzer *)

\* The new wording names no comparison, and its test data go to "test_data", beside
\* data of another field and over what stands there.  A conversion has the value it
\* finds in the data, or a parameter of that name.
Converted(s) ==
    LET left == IF s.field = "testData" THEN s
                ELSE [s EXCEPT !.cmd = <<>>, !.uses = {}, !.field = "test_data"]
    IN  [left EXCEPT !.word = FALSE, !.uses = IF s.value THEN @ ELSE @ \cup {"value"}]

\* An assertion has the data there are.
Asserted(s) ==
    LET left == IF s.field # "action" THEN s ELSE [s EXCEPT !.cmd = <<>>, !.uses = {}]
    IN  [left EXCEPT !.word = FALSE]

\* What is logged is the data, a message, or a text for want of data.
Logged(s) ==
    LET left == CASE s.field = "testData" -> s
                  [] s.field = "test_data" ->
                        IF s.cmd = <<>> \/ Head(s.cmd) = "message:" THEN s
                        ELSE [s EXCEPT !.cmd = <<"message:">> \o @]
                  [] s.field = "action" ->
                        [s EXCEPT !.cmd = <<>>, !.uses = {}, !.field = "test_data"]
    IN  [left EXCEPT !.word = FALSE]

\* suggest_builtin_keyword_improvements: an action that a keyword stands for is
\* worded anew as often as it is seen, after the parameters have been collected.
Reworded(test) ==
    [test EXCEPT !.steps = [k \in DOMAIN @ |->
        CASE @[k].action = "convert" -> Converted(@[k])
          [] @[k].action = "assert" -> Asserted(@[k])
          [] @[k].action = "log" -> Logged(@[k])
          [] OTHER -> @[k]]]

-----------------------------------------------------------------------------
(* GenericSuggestionEngine.apply_suggestions *)

\* deepcopy, _extract_test_cases_for_improvement
Apply ==
    /\ engine = "rest" /\ applied < MaxApplied
    /\ applied' = applied + 1
    /\ copied' = given
    /\ improvedCases' = 0 /\ changes' = {}
    /\ engine' = "improving"
    /\ UNCHANGED given

\* The kinds of changes that are recorded for a test case.
Changed(test, stepped, compared) ==
    LET kinds == [field_added |-> ~test.name \/ ~test.described,
                  step_added |-> (test.script # "steps" \/ test.steps = <<>>)
                                    \/ Len(compared.steps) > Len(stepped.steps),
                  step_improved |-> test.script = "steps" /\ test.steps # stepped.steps,
                  parameters_added |-> Undefined(stepped) # {},
                  builtin |-> \E k \in DOMAIN compared.steps : compared.steps[k].action \in Keywords]
    IN  {kind \in DOMAIN kinds : kinds[kind]}

ImproveTest ==
    /\ engine = "improving" /\ improvedCases < Len(copied)
    /\ LET test == copied[improvedCases + 1]
           stepped == WithSteps(Named(test))
           compared == WithComparisons(WithParameters(stepped))
       IN  /\ ~ParametersFail(stepped)
           /\ copied' = [copied EXCEPT ![improvedCases + 1] = Reworded(compared)]
           /\ changes' = changes \cup Changed(test, stepped, compared)
    /\ improvedCases' = improvedCases + 1
    /\ UNCHANGED <<given, engine, applied>>

\* A KeyError becomes an ImportobotError, and the copy is dropped.
ImproveRaises ==
    /\ engine = "improving" /\ improvedCases < Len(copied)
    /\ ParametersFail(WithSteps(copied[improvedCases + 1]))
    /\ engine' = "raised"
    /\ UNCHANGED <<given, copied, improvedCases, changes, applied>>

ReturnImproved ==
    /\ engine = "improving" /\ improvedCases = Len(copied)
    /\ engine' = "returned"
    /\ UNCHANGED <<given, copied, improvedCases, changes, applied>>

\* The caller keeps what was returned, or stays with what it had.
KeepImproved ==
    /\ engine \in {"returned", "raised"}
    /\ given' = IF engine = "returned" THEN copied ELSE given
    /\ engine' = "rest"
    /\ UNCHANGED <<copied, improvedCases, changes, applied>>

EngineNext == Apply \/ ImproveTest \/ ImproveRaises \/ ReturnImproved \/ KeepImproved

EngineSpec == EngineInit /\ [][EngineNext]_engineVars

-----------------------------------------------------------------------------
(* Properties *)

Generated(s) == s.from # <<>>
Distinct(steps) == \A j, k \in DOMAIN steps : steps[j] = steps[k] => j = k
Own(steps) == SelectSeq(steps, LAMBDA s : ~Generated(s))

\* The wording of a keyword takes the place of the command.
Overwritten(s) ==
    \/ s.action \in {"convert", "log"} /\ s.field # "testData"
    \/ s.action = "assert" /\ s.field = "action"

\* The parameter of a conversion without a value, when no step had it before.
UncollectedValue(before, after) ==
    {p \in {"value"} \ Used(before) :
        \E k \in DOMAIN after.steps : after.steps[k].action = "convert" /\ ~after.steps[k].value}

\* Where a comparison stands: behind the two different steps whose commands it has.
Grounded(k, steps) ==
    \E i, j \in 1..(k - 1) :
        /\ i # j
        /\ steps[k].cmd = <<"command_1:">> \o steps[i].cmd \o <<"command_2:">> \o steps[j].cmd

\* What apply_suggestions returns is the test file still, however often it is
\* applied to its own results: a script keeps its own steps, in their order, with
\* their commands, but for those the wording of a keyword overwrites; a comparison
\* is made once, under a number nobody else has, and behind the steps it compares,
\* as long as no two steps are equal and no command is overwritten; no parameter is
\* defined twice and, in a list of its own, none that is used is missing, but for
\* the value of a conversion until the next application; and if no change is
\* reported there is none, but for an empty list of parameters.
SuggestionsKeepTests ==
    engine = "returned" =>
        /\ \A i \in DOMAIN copied :
              LET steps == copied[i].steps
                  own == Own(steps)
                  before == Own(given[i].steps)
              IN
              /\ given[i].script = "steps" /\ given[i].steps # <<>> =>
                    /\ Len(own) = Len(before)
                    /\ \A k \in DOMAIN own : Overwritten(before[k]) \/ own[k].cmd = before[k].cmd
              /\ copied[i].outside = given[i].outside
              /\ \A j, k \in DOMAIN steps : Generated(steps[k]) /\ j # k =>
                    /\ steps[j].index # steps[k].index
                    /\ Generated(steps[j]) => steps[j].cmd # steps[k].cmd
              /\ Distinct(own) /\ (\A k \in DOMAIN own : ~Overwritten(own[k])) =>
                    \A k \in DOMAIN steps : Generated(steps[k]) => Grounded(k, steps)
              /\ copied[i].field = "parameters" =>
                    /\ Distinct(copied[i].params)
                    /\ Undefined(copied[i]) \subseteq UncollectedValue(given[i], copied[i])
        /\ changes = {} =>
              \A i \in DOMAIN copied : copied[i] = [given[i] EXCEPT !.field = copied[i].field]

\* "Build a comparison step based on matching hash commands"
\* (core/suggestions/comparison_analyzer.py), whose "Outputs match": the two
\* commands of a comparison, as they were before a keyword was worded over them,
\* have one signature.
ComparesMatching ==
    engine = "returned" =>
        \A i \in DOMAIN copied : \A k \in DOMAIN copied[i].steps :
            LET steps == SelectSeq(given[i].steps \o copied[i].steps, LAMBDA s : s.cmd # <<>>)
                both == copied[i].steps[k]
            IN  Generated(both) =>
                    \E s, t \in ToSet(steps) :
                        /\ both.cmd = <<"command_1:">> \o s.cmd \o <<"command_2:">> \o t.cmd
                        /\ Signature(s) = Signature(t)
=============================================================================
