SPECIFICATION Spec
CONSTANTS
    Streams <- FromPlugin
    MaxPayload = 3
    MaxRead = 9
INVARIANTS FirstFrameDecodes
CHECK_DEADLOCK FALSE
