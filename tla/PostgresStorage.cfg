\* Two requests at a time on two rows, up to three requests, two faults.
SPECIFICATION FairSpec
CONSTANTS
    a = a
    Procs = {p1, p2}
    Names = {a}
    HalfRange = 2
    Nil = Nil
    Absent = Absent
    None = None
    Attempts = 3
    InTime = 2
    MaxCalls = 3
    MaxFaults = 2
    Calls <- MCCalls
INVARIANTS TypeOK TwiceAtMost LocksAreHeld SumsStayInRange ReadsAreFresh GaugeMissingIsTrue
PROPERTIES CommitsAreWhole CallsEnd
