SPECIFICATION Spec
CONSTANTS
    Conns = {a, b, c}
    Late = {c}
    MayLeave = {b}
    MayFail = {b}
    MayStall = {b}
    Sources = {a, b}
    Askers = {a}
    Muted = {a}
    Beating = {b}
    Tui = Tui
    Cap = 1
    FeedCap = 3
    TuiMode = FALSE
    MaxEvents = 2
    NoConn = NoConn
CHECK_DEADLOCK FALSE
INVARIANTS TypeOK InOrder CaughtUp Standstill
