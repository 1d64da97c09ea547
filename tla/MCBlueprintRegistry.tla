-------------------------- MODULE MCBlueprintRegistry --------------------------
(* Instance of BlueprintRegistry for TLC: a directory of a template and a     *)
(* helper, the template once more under two names given, by when another      *)
(* process may have written its cache file, and a resource, which three       *)
(* counted files leave no room for unless the directory was left early.       *)
EXTENDS BlueprintRegistry

MCKinds == [f \in TemplateFiles |->
    CASE f = "common" -> "resource" [] f = "helpers" -> "python" [] OTHER -> "template"]
MCKeys == [f \in TemplateFiles |-> IF MCKinds[f] = "template" THEN {"login"} ELSE {}]
MCFirst == [f \in TemplateFiles |-> IF f = "Login" THEN "settings" ELSE "plain"]
MCSources ==
    <<[directory |-> TRUE, files |-> <<"Login", "helpers">>, keys |-> {}],
      [directory |-> FALSE, files |-> <<"Login">>, keys |-> {"login", "smoke"}],
      [directory |-> FALSE, files |-> <<"common">>, keys |-> {}]>>
=============================================================================
