\* Two batches that lock the same two rows in opposite orders; nothing else fails.
SPECIFICATION Spec
CONSTANTS
    a = a
    Procs = {p1, p2}
    Names = {a}
    HalfRange = 2
    Nil = Nil
    Absent = Absent
    None = None
    Attempts = 3
    InTime = 2
    MaxCalls = 2
    MaxFaults = 0
    Calls <- Opposite
INVARIANT AnsweredIsCommitted
