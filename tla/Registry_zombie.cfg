SPECIFICATION Spec
CONSTANTS
    Conns = {c1, c2, c3}
    Players = {p1}
    Ids = {0, 1, 2, 3}
    MaxServers = 2
    Renames = {}
    NoConn = NoConn
    NoServer = NoServer
CHECK_DEADLOCK FALSE
INVARIANT EndedIsUnregistered
