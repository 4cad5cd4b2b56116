-------------------------- MODULE MCAgentPipeline --------------------------
(***************************************************************************)
(* AgentPipeline with the rate limit that main of cmd/agent passes to Run. *)
(***************************************************************************)
EXTENDS AgentPipeline, Config

MainRateLimit == RunRateLimit(AgentEnv)

\* The flags reach the configuration, and the limit of the flag -l would be the 1
\* that is its default (flag.go 18): it is only main that passes something else.
ASSUME FlagsReachTheConfiguration ==
    /\ AgentConfig(AgentEnv, AgentDefaults).PollInterval = AgentDefaults.flagPollInterval
    /\ AgentConfig(AgentEnv, AgentDefaults).ReportInterval = AgentDefaults.flagReportInterval
    /\ FlagRateLimit(AgentEnv, AgentDefaults) = AgentDefaults.flagRateLimit
    /\ \A limit \in -1 .. 2 :
           FlagRateLimit([AgentEnv EXCEPT !.RateLimit = limit], AgentDefaults) > 0
=============================================================================
