------------------------------ MODULE SharedState ------------------------------
(***************************************************************************)
(* What several threads or processes hold together, side by side: the      *)
(* files and listings of a layer, the telemetry client and the application *)
(* contexts of a process, and the blueprint templates and their cache on   *)
(* disk.  They have no state in common: a behaviour runs one of them,      *)
(* chosen at the start, and so every behaviour of each is shown.           *)
(***************************************************************************)
EXTENDS MCLayerListing, ApplicationContext, MCBlueprintRegistry

VARIABLE shown  \* the component of this behaviour

SharedInit ==
    /\ shown \in {"listing", "contexts", "blueprints"}
    /\ Init /\ ContextInit /\ BlueprintInit

ListingStep == shown = "listing" /\ Next /\ UNCHANGED <<shown, contextVars, blueprintVars>>
ContextStep == shown = "contexts" /\ ContextNext /\ UNCHANGED <<shown, vars, blueprintVars>>
BlueprintStep == shown = "blueprints" /\ BlueprintNext /\ UNCHANGED <<shown, vars, contextVars>>

SharedNext == ListingStep \/ ContextStep \/ BlueprintStep

SharedSpec == SharedInit /\ [][SharedNext]_<<shown, vars, contextVars, blueprintVars>>
=============================================================================
