\* A batch that fails half way, checked against the transaction the
\* repository interface documents.
SPECIFICATION Spec
CONSTANTS
    a = a
    Procs = {p1, p2}
    Names = {a}
    HalfRange = 2
    Nil = Nil
    Absent = Absent
    None = None
    Calls <- MCWrites
    Files <- MCFiles
PROPERTY BatchIsATransaction
