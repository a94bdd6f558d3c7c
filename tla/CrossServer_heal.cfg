SPECIFICATION CrossSpec
CONSTANTS
    Players = {p1}
    Garbled = {g1}
    Servers = {v1}
    Casts = {{p1, v1}}
    Relay = Relay
    Sizes = {1}
    Clients = {c1}
    NoClient = NoClient
    Away = Away
    NoPlayer = NoPlayer
    Timeout = 1
    MaxInFlight = 1
    MaxRequests = 1
INVARIANT RequestNamesTheGhost
CHECK_DEADLOCK FALSE
