-------------------------- MODULE MCSuggestionEngine --------------------------
(* Instance of SuggestionEngine for TLC: test cases of up to four steps out   *)
(* of two commands that name a comparison, two of another signature that do   *)
(* so in their action, and a step without a command whose parameter stands in *)
(* round braces, all numbered or none; scripts of up to three steps with      *)
(* conversions, messages to log and actions that are commands, whose test     *)
(* data stand in either field; a case whose steps are in no script; and       *)
(* parameters in a field of each kind.                                        *)
EXTENDS SuggestionEngine

MCStep(cmd, word, action) ==
    [cmd |-> cmd, field |-> "testData", action |-> action, word |-> word, value |-> FALSE,
     result |-> FALSE, uses |-> {}, loose |-> {}, index |-> 0, from |-> <<>>]
MCStepKinds ==
    {MCStep(<<"hashsum", "x">>, FALSE, "plain"), MCStep(<<"hashsum", "y">>, FALSE, "plain"),
     MCStep(<<"md5", "x">>, TRUE, "plain"), MCStep(<<"md5", "y">>, TRUE, "assert"),
     [MCStep(<<>>, FALSE, "none") EXCEPT !.loose = {"p"}, !.uses = {"q"}]}
MCIn(field, step) == [step EXCEPT !.field = field]
MCWordings ==
    {MCStep(<<"hashsum", "x">>, FALSE, "plain"),
     MCIn("test_data", MCStep(<<"hashsum", "y">>, FALSE, "log")),
     MCStep(<<"hashsum", "y">>, TRUE, "convert"),
     MCIn("test_data", [MCStep(<<"hashsum", "z">>, TRUE, "convert") EXCEPT !.uses = {"q"}]),
     MCIn("test_data", [MCStep(<<"hashsum", "v">>, FALSE, "convert") EXCEPT !.value = TRUE]),
     MCIn("test_data", MCStep(<<"verify", "z">>, TRUE, "assert"))}
    \cup {MCIn("action", [MCStep(<<"verify", c>>, TRUE, action) EXCEPT !.uses = {"q"}]) :
             c \in {"x", "y"}, action \in {"plain", "assert", "log"}}
MCCase(steps) ==
    [name |-> TRUE, described |-> FALSE, script |-> "steps", steps |-> steps, outside |-> <<>>,
     field |-> "none", params |-> <<>>]

MCScripts == UNION {[1..n -> MCStepKinds] : n \in 0..4}
MCNumbered(steps) == [k \in DOMAIN steps |-> [steps[k] EXCEPT !.index = k]]
MCShort == {s \in MCScripts : Len(s) \in 1..2}
MCUnnumbered == {<<MCCase(s)>> : s \in MCScripts}
MCWorded == UNION {[1..n -> MCWordings] : n \in 1..3}
MCTestFiles ==
    MCUnnumbered \cup {<<MCCase(MCNumbered(s))>> : s \in MCScripts}
    \cup {<<MCCase(s)>> : s \in MCWorded} \cup {<<MCCase(MCNumbered(s))>> : s \in MCWorded}
    \cup {<<[MCCase(<<>>) EXCEPT !.script = kind, !.outside = s], MCCase(t)>> :
             kind \in {"none", "other"}, s \in MCShort, t \in MCShort}
    \cup {<<[MCCase(s) EXCEPT !.field = field, !.params = <<"q">>, !.outside = t]>> :
             field \in {"parameters", "params", "text"}, s \in MCShort, t \in MCShort}
    \cup {<<MCCase(s), [MCCase(t) EXCEPT !.field = "params"]>> : s \in MCShort, t \in MCShort}
=============================================================================
