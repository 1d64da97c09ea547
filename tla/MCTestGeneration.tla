--------------------------- MODULE MCTestGeneration ---------------------------
(* Instance of TestGeneration for TLC: all distributions of small shares over *)
(* up to four categories, one of three and one of two scenario types, and one *)
(* with an unknown category.  A batch of two is full in the middle of a       *)
(* category and leaves a rest at its end.                                     *)
EXTENDS TestGeneration

MCCategories == <<"regression", "smoke", "integration", "e2e">>
MCTypes == [c \in Categories |-> IF c = "regression" THEN 3 ELSE 2]
MCRequests ==
    {[k \in 1..Len(shares) |-> [category |-> MCCategories[k], share |-> shares[k]]] :
        shares \in UNION {[1..n -> {1, 4}] : n \in 1..4}}
    \cup {<<[category |-> "performance", share |-> 1]>>}
=============================================================================
