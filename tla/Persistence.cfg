\* Started with a ticker, the server is killed; started without one, it may be
\* stopped by a signal.  Loads and file operations fail now and then, a gauge may
\* be NaN, and the file that is found may lack the counters.
SPECIFICATION FairSpec
CONSTANTS
    Updates = {u1, u2}
    Counters = {u2}
    Found <- NothingOrNull
    Env <- FileEnv
    CommandLines <- DefaultOrZero
    Signals <- Zero
    NaNs = TRUE
    LoadMayFail = TRUE
    MaxStarts = 3
    MaxFaults = 2
INVARIANTS TypeOK FileNeverTorn
PROPERTIES DurableNeverShrinks LoadedIsKept ExitSaves EventuallySaved SignalStops
