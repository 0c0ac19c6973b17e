CONSTANTS
    Tasks = {t1, t2}
    Conns = {c1, c2, c3}
    MaxConnections = 1
    MinConnections = 1
    ReplaceDisconnected = TRUE
    Calls = {"acquire", "warmup", "warmup_parallel", "close", "client_close"}
    DrainMayTimeOut = FALSE
    MaxFaults = 1
    NoTask = NoTask
    NoConn = NoConn
SPECIFICATION FairSpec

    
PROPERTIES
    
    
    MaintenanceEnds
