------------------------------- MODULE Config -------------------------------
(***************************************************************************)
(* How the command line and the environment become a configuration:        *)
(* internal/config/config.go, flag.go and main.go of cmd/server and        *)
(* cmd/agent, and the choice of the storage in init_storage.go.            *)
(*                                                                         *)
(* A command line is a record of the flag variables, an environment a      *)
(* record of the fields env.Parse fills, which are zero where a variable   *)
(* is not set.  The completion of an address is left out.                  *)
(***************************************************************************)
EXTENDS Integers

\* ApplyFlags takes the flag of that name, if main has passed one, where the
\* environment has the zero value.
EnvOr(value, zero, passed, name) ==
    IF value = zero /\ name \in DOMAIN passed THEN passed[name] ELSE value

-----------------------------------------------------------------------------
(* The server.                                                             *)

ServerDefaults ==
    [flagRunAddr |-> "localhost:8080", flagStoreInterval |-> 10,
     flagFileStoragePath |-> "/tmp/metrics-db.json", flagRestore |-> TRUE,
     flagConnDB |-> "", flagKey |-> ""]

NoServerEnv ==
    [Address |-> "", FileStoragePath |-> "", DatabaseDSN |-> "",
     SecretKey |-> "", StoreInterval |-> 0, Restore |-> FALSE]

\* The map main passes: flagRestore is not in it.
ServerFlags(cmd) ==
    [name \in {"flagRunAddr", "flagStoreInterval", "flagFileStoragePath",
               "flagConnDB", "flagKey"} |-> cmd[name]]

\* ApplyFlags looks for two flags under names main does not use.
ServerConfig(env, passed) ==
    [Address         |-> EnvOr(env.Address, "", passed, "flagRunAddr"),
     Key             |-> EnvOr(env.SecretKey, "", passed, "flagKey"),
     StoreInterval   |-> EnvOr(env.StoreInterval, 0, passed, "flagStoreInterval"),
     FileStoragePath |-> EnvOr(env.FileStoragePath, "", passed, "flagFileStoragePath"),
     Restore         |-> EnvOr(env.Restore, FALSE, passed, "flagRestoreInterval"),
     DatabaseDSN     |-> EnvOr(env.DatabaseDSN, "", passed, "flagDatabaseDSN")]

\* main hands the fields of the environment to CreateStorage, not those of the
\* configuration: the path of the storage, if it is in memory.
Storage(env) == IF env.DatabaseDSN # "" THEN "postgres" ELSE "memory"
StoragePath(env) == env.FileStoragePath

\* When main calls Load.
Restores(env) ==
    env.Restore /\ env.FileStoragePath # "" /\ env.DatabaseDSN = ""

-----------------------------------------------------------------------------
(* The agent.                                                              *)

AgentDefaults ==
    [flagRunAddr |-> "localhost:8080", flagReportInterval |-> 10,
     flagPollInterval |-> 2, flagKey |-> "", flagRateLimit |-> 1]

\* main passes the struct by value: whatever env.Parse does with its copy, this
\* is what is left.
AgentEnv ==
    [Address |-> "", SecretKey |-> "", ReportInterval |-> 0,
     PollInterval |-> 0, RateLimit |-> 0]

AgentConfig(env, passed) ==
    [Address        |-> EnvOr(env.Address, "", passed, "flagRunAddr"),
     Key            |-> EnvOr(env.SecretKey, "", passed, "flagKey"),
     ReportInterval |-> EnvOr(env.ReportInterval, 0, passed, "flagReportInterval"),
     PollInterval   |-> EnvOr(env.PollInterval, 0, passed, "flagPollInterval")]

\* What ApplyFlags makes of the rate limit, and then forgets.
FlagRateLimit(env, passed) ==
    LET limit == EnvOr(env.RateLimit, 0, passed, "flagRateLimit") IN
    IF limit <= 0 THEN 1 ELSE limit

\* What main passes to Run.
RunRateLimit(env) == env.RateLimit
=============================================================================
