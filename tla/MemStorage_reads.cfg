\* Unlocked readers beside writers and savers: two goroutines.
SPECIFICATION FairSpec
CONSTANTS
    a = a
    Procs = {p1, p2}
    Names = {a}
    HalfRange = 2
    Nil = Nil
    Absent = Absent
    None = None
    Calls <- MCReads
    Files <- MCFiles
PROPERTIES LeakIsForever CallsReturn
