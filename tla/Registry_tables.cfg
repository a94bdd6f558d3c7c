SPECIFICATION FairSpec
CONSTANTS
    Conns = {c1, c2, c3}
    Players = {p1}
    Ids = {1, 2, 3}
    MaxServers = 2
    Renames = {2}
    NoConn = NoConn
    NoServer = NoServer
CHECK_DEADLOCK FALSE
INVARIANTS TypeOK OwnEntry PlayersRouted OneOfTwoTold NoPhantomPeer WithinCapacity
PROPERTIES PurgeSparesTheLiving ImplementsDirectory HandshakeDecided
