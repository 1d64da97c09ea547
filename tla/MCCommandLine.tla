----------------------------- MODULE MCCommandLine -----------------------------
(* Instance of CommandLine for TLC: two files of the user with one stem, from *)
(* two directories, as their improved files have; the output a file command   *)
(* is given is the one a directory command makes of them.                     *)
EXTENDS CommandLine

MCImproved ==
    [f \in Improvable |->
        CASE f = "x" -> "x_improved" [] f = "y" -> "y_improved" [] OTHER -> "payload_improved"]
MCStem == [f \in JsonFiles |->
    CASE f \in UserFiles -> "a" [] f \in Fetched -> f [] OTHER -> "a_improved"]
=============================================================================
