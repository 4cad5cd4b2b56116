\* A store interval of 0, nobody kills or stops the server by a signal.
SPECIFICATION Spec
CONSTANTS
    Updates = {u1}
    Counters <- None
    Found <- Nothing
    Env <- FileEnv
    CommandLines <- Zero
    Signals <- None
    NaNs = FALSE
    LoadMayFail = FALSE
    MaxStarts = 1
    MaxFaults = 0
INVARIANT AckedIsDurable
