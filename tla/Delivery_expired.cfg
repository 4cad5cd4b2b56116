\* The context of a request may expire before its update.
SPECIFICATION Spec
CONSTANTS
    Count = 1
    Attempts = 3
    Keys = {k1}
    NoKey = NoKey
    MayExpire = TRUE
INVARIANT AckedIsApplied
