\* Transactions begun one after the other, every operation, three sessions.
CONSTANTS
    Txns = {h1, h2}
    Stmts = {s1}
    Writes = {w1, w2}
    Nobody = Nobody
    NoStmt = NoStmt
    MaxSection = 1
    MaxRetries = 2
    Discipline = "settled"
    Calls = {"call", "change_query", "batch", "close"}
    MaxSessions = 3
    MaxFaults = 2
SYMMETRY Symmetry
SPECIFICATION Spec
INVARIANTS
    TypeOK
    Atomic
    

    
CHECK_DEADLOCK FALSE
