----------------------------- MODULE CallsThatEnd -----------------------------
(***************************************************************************)
(* Components whose calls must end, side by side as in ProcessServices and *)
(* for the same reason: fetch_all over the API client, the API rate        *)
(* limiter and the bronze layer.  A behaviour runs one of them, under its  *)
(* own fairness.                                                           *)
(***************************************************************************)
EXTENDS MCApiFetch, MCRateLimiter, BronzeLayer

VARIABLE serving  \* the component of this behaviour

CallsInit ==
    /\ serving \in {"fetch", "limiter", "bronze"}
    /\ Init /\ LimiterInit /\ BronzeInit
    /\ serving # "fetch" => style = "count" /\ total = 0 /\ cap = 1 /\ reported

FetchCall == serving = "fetch" /\ Next /\ UNCHANGED <<serving, limiterVars, bronzeVars>>
LimiterCall == serving = "limiter" /\ LimiterNext /\ UNCHANGED <<serving, vars, bronzeVars>>
BronzeCall == serving = "bronze" /\ BronzeNext /\ UNCHANGED <<serving, vars, limiterVars>>

CallsNext == FetchCall \/ LimiterCall \/ BronzeCall

\* The fairness of FairSpec, LimiterFairSpec and BronzeFairSpec, each for the
\* behaviours of its own component.
CallsFairness ==
    /\ WF_vars(serving = "fetch" /\ RequestPage)
    /\ WF_vars(serving = "fetch" /\ FetchRaises /\ GiveUp)
    /\ WF_limiterVars(serving = "limiter" /\ Tick)
    /\ \A t \in Threads : WF_limiterVars(serving = "limiter" /\ WakeUp(t))
    /\ \A t \in Ingesters : WF_bronzeVars(serving = "bronze" /\ BronzeStep(t))

CallsSpec ==
    CallsInit /\ [][CallsNext]_<<serving, vars, limiterVars, bronzeVars>> /\ CallsFairness
=============================================================================
