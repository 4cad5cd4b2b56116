\* The shutdown goroutine saves beside the ticker.
SPECIFICATION Spec
CONSTANTS
    Updates = {u1}
    Counters <- None
    Found <- Nothing
    Env <- FileEnv
    CommandLines <- Default
    Signals <- Default
    NaNs = FALSE
    LoadMayFail = FALSE
    MaxStarts = 1
    MaxFaults = 0
PROPERTY ExitSaves
