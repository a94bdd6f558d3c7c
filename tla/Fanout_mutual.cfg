SPECIFICATION FairSpec
CONSTANTS
    Conns = {a, b}
    Late = {}
    MayLeave = {}
    MayFail = {}
    MayStall = {}
    Sources = {a, b}
    Askers = {}
    Muted = {}
    Beating = {}
    Tui = Tui
    Cap = 1
    FeedCap = 2
    TuiMode = TRUE
    MaxEvents = 2
    NoConn = NoConn
CHECK_DEADLOCK FALSE
PROPERTY EventsDelivered
