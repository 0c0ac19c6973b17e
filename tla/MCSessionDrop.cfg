\* A transaction begins while the cleanup of a dropped one is still due.
CONSTANTS
    Txns = {h1, h2}
    Stmts = {s1}
    Writes = {w1, w2}
    Nobody = Nobody
    NoStmt = NoStmt
    MaxSection = 1
    MaxRetries = 0
    Discipline = "sequential"
    Calls = {}
    MaxSessions = 1
    MaxFaults = 0
SYMMETRY Symmetry
SPECIFICATION Spec
INVARIANTS
    Atomic
CHECK_DEADLOCK FALSE
