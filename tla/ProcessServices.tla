---------------------------- MODULE ProcessServices ----------------------------
(***************************************************************************)
(* Components of the process that share no state, side by side: a          *)
(* behaviour runs one of them, chosen at the start, and the others stay in *)
(* one initial state.  Since no step of one reads or writes another's      *)
(* state, this shows every behaviour of each.                              *)
(***************************************************************************)
EXTENDS SecurityRateLimiter, LayerRestore, LRUCache, FormatDetection, ResourceManager,
        ZephyrFetch, MCCommandLine, MCTestGeneration, MCSuggestionEngine, MCStepConversion

VARIABLE running  \* the component of this behaviour

MCHash == [k \in Keys |-> IF k = "b" THEN "a" ELSE k]
MCSizes == <<1, 2>>

Components ==
    {"security", "restore", "lru", "detection", "resources", "zephyr", "command line",
     "generation", "suggestions", "conversion"}

\* Only the component that runs has all its initial states.
ServicesInit ==
    /\ running \in Components
    /\ IF running = "security" THEN TRUE ELSE queueSize = SecurityCalls
    /\ IF running = "zephyr" THEN TRUE
       ELSE items = <<>> /\ pageCap = 1 /\ totals = "nothing" /\ project = TRUE
    /\ IF running = "suggestions" THEN EngineInit ELSE given = <<>> /\ EngineAtRest
    /\ SecurityInit /\ RestoreInit /\ LRUInit /\ DetectionInit /\ ResourceInit
    /\ ZephyrInit /\ CommandInit /\ GenerationInit /\ ConversionInit

Still(component, state) == IF running = component THEN TRUE ELSE UNCHANGED state

\* All other components rest.
Rest ==
    /\ UNCHANGED running
    /\ Still("security", securityVars)
    /\ Still("restore", restoreVars)
    /\ Still("lru", lruVars)
    /\ Still("detection", detectionVars)
    /\ Still("resources", resourceVars)
    /\ Still("zephyr", zephyrVars)
    /\ Still("command line", commandVars)
    /\ Still("generation", generationVars)
    /\ Still("suggestions", engineVars)
    /\ Still("conversion", conversionVars)

SecurityStep == running = "security" /\ SecurityNext /\ Rest
RestoreStep == running = "restore" /\ RestoreNext /\ Rest
LRUStep == running = "lru" /\ LRUNext /\ Rest
DetectionStep == running = "detection" /\ DetectionNext /\ Rest
ResourceStep == running = "resources" /\ ResourceNext /\ Rest
ZephyrStep == running = "zephyr" /\ ZephyrNext /\ Rest
CommandStep == running = "command line" /\ CommandNext /\ Rest
GenerationStep == running = "generation" /\ GenerationNext /\ Rest
EngineStep == running = "suggestions" /\ EngineNext /\ Rest
ConversionStep == running = "conversion" /\ ConversionNext /\ Rest

ServicesNext ==
    \/ SecurityStep \/ RestoreStep \/ LRUStep \/ DetectionStep \/ ResourceStep
    \/ ZephyrStep \/ CommandStep \/ GenerationStep \/ EngineStep \/ ConversionStep

servicesVars ==
    <<running, securityVars, restoreVars, lruVars, detectionVars, resourceVars, zephyrVars,
      commandVars, generationVars, engineVars, conversionVars>>

ServicesSpec == ServicesInit /\ [][ServicesNext]_servicesVars
=============================================================================
