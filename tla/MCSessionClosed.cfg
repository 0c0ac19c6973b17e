\* A transaction outlives the close of its client.
CONSTANTS
    Txns = {h1}
    Stmts = {s1}
    Writes = {w1}
    Nobody = Nobody
    NoStmt = NoStmt
    MaxSection = 1
    MaxRetries = 0
    Discipline = "settled"
    Calls = {"close"}
    MaxSessions = 2
    MaxFaults = 0
SYMMETRY Symmetry
SPECIFICATION Spec
INVARIANTS
    ClosedStaysClosed
CHECK_DEADLOCK FALSE
