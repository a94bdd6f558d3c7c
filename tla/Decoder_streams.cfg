SPECIFICATION FairSpec
CONSTANTS
    Streams <- Sent
    MaxPayload = 3
    MaxRead = 9
INVARIANTS TypeOK HandledInOrder HandshakeSeen SidesAgree
PROPERTIES AllHandled ReadsAsWhole
CHECK_DEADLOCK FALSE
