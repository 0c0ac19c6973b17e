\* A batch of two chunks with a bad value in the second.
CONSTANTS
    Txns = {h1}
    Stmts = {s1}
    Writes = {w1, w2, w3}
    Nobody = Nobody
    NoStmt = NoStmt
    MaxSection = 1
    MaxRetries = 0
    Discipline = "settled"
    Calls = {"batch"}
    MaxSessions = 1
    MaxFaults = 1
SYMMETRY Symmetry
SPECIFICATION Spec
INVARIANTS
    BatchIsOneUnit
CHECK_DEADLOCK FALSE
