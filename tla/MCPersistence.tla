--------------------------- MODULE MCPersistence ---------------------------
(***************************************************************************)
(* The environments, command lines and files of the TLC instances of       *)
(* Persistence.                                                            *)
(***************************************************************************)
EXTENDS Persistence

\* FILE_STORAGE_PATH and RESTORE are set.
FileEnv ==
    [NoServerEnv EXCEPT !.FileStoragePath = "/data/metrics.json", !.Restore = TRUE]

\* -i 0
IntervalZero == [ServerDefaults EXCEPT !.flagStoreInterval = 0]

Default == {ServerDefaults}
Zero == {IntervalZero}
DefaultOrZero == Default \cup Zero
None == {}

\* Nothing, or a document of another hand: {"gauges": {}}
Nothing == {NoFile}
NothingOrNull == {NoFile, Whole({}, TRUE)}
=============================================================================
