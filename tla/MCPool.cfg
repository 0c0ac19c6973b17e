\* Three tasks and every operation, dropped clients included: safety.
CONSTANTS
    Tasks = {t1, t2, t3}
    Conns = {c1, c2, c3, c4}
    MaxConnections = 2
    MinConnections = 1
    ReplaceDisconnected = TRUE
    Calls = {"acquire", "warmup", "warmup_parallel", "close", "client_close", "client_drop"}
    DrainMayTimeOut = TRUE
    MaxFaults = 1
    NoTask = NoTask
    NoConn = NoConn
SYMMETRY Symmetry
SPECIFICATION Spec
INVARIANTS
    TypeOK
    PermitConservation
    OneOwner
    
PROPERTIES
    NoDuplicateSocket
    ImplementsLending
CHECK_DEADLOCK FALSE
