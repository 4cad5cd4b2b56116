\* Two metrics, three attempts, any keys; handlers within their 2 seconds.
SPECIFICATION FairSpec
CONSTANTS
    Count = 2
    Attempts = 3
    Keys = {k1, k2}
    NoKey = NoKey
    MayExpire = FALSE
INVARIANTS TypeOK BoundedDuplicates AckedIsApplied OtherKeyLeavesNoTrace
PROPERTY DeliveryEnds
