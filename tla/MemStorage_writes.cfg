\* Writers and savers: three goroutines, one gauge and one counter.
SPECIFICATION Spec
CONSTANTS
    a = a
    Procs = {p1, p2, p3}
    Names = {a}
    HalfRange = 2
    Nil = Nil
    Absent = Absent
    None = None
    Calls <- MCWrites
    Files <- MCFiles
INVARIANTS TypeOK Inv MutualExclusion SaveSeesWholeCalls LeakNeedsNilMap
PROPERTIES CallsAreAtomic
