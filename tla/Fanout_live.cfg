SPECIFICATION FairSpec
CONSTANTS
    Conns = {a, b, c}
    Late = {}
    MayLeave = {c}
    MayFail = {}
    MayStall = {}
    Sources = {a, b}
    Askers = {}
    Muted = {}
    Beating = {}
    Tui = Tui
    Cap = 3
    FeedCap = 1
    TuiMode = TRUE
    MaxEvents = 1
    NoConn = NoConn
CHECK_DEADLOCK FALSE
PROPERTY EventsDelivered
PROPERTY LeavingEnds
PROPERTY RecordsFlow
