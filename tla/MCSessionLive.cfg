\* Statements and their sections; cleanup tasks run in the end.
CONSTANTS
    Txns = {h1}
    Stmts = {s1, s2}
    Writes = {w1}
    Nobody = Nobody
    NoStmt = NoStmt
    MaxSection = 2
    MaxRetries = 1
    Discipline = "settled"
    Calls = {"close"}
    MaxSessions = 2
    MaxFaults = 1
SPECIFICATION FairSpec
INVARIANTS
    
    RunsItsOwnSql
PROPERTIES
    DropsAreCleanedUp
CHECK_DEADLOCK FALSE
