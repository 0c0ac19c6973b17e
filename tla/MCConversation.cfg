\* Every operation on both server families, two after the session is set up.
CONSTANTS
    MaxOps = 2
    MaxRows = 2
    MaxFaults = 2
    MaxStalls = 2
    MaxTries = 1
    Systems = {"luw", "zos"}
    Kinds = {"query", "param", "limited", "lob", "change", "commit"}
SPECIFICATION Spec
INVARIANTS
    TypeOK
    CleanLine
    
    NoOrphanCursor
PROPERTIES
    OperationEnds
CHECK_DEADLOCK FALSE
