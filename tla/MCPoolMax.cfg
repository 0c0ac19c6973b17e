CONSTANTS
    Tasks = {t1, t2}
    Conns = {c1, c2, c3}
    MaxConnections = 1
    MinConnections = 0
    ReplaceDisconnected = FALSE
    Calls = {"acquire"}
    DrainMayTimeOut = FALSE
    MaxFaults = 0
    NoTask = NoTask
    NoConn = NoConn
SPECIFICATION Spec
INVARIANTS
    WithinMax
