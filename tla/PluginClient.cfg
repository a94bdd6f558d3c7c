SPECIFICATION FairSpec
CONSTANTS
    Sockets = {s1, s2, s3}
    NoSocket = NoSocket
    Disturbances = {{}, {"map"}, {"command"}, {"rejection"}, {"map", "command", "rejection"}}
    MaxBeats = 3
INVARIANTS TypeOK InSession HeartbeatRuns LostIsRetried NoOrphan
PROPERTIES Recovers
CHECK_DEADLOCK FALSE
