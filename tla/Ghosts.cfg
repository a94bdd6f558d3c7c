SPECIFICATION FairSpec
CONSTANTS
    Players = {p1, p2}
    Garbled = {g1}
    Servers = {v1, v2}
    Casts = {{p1, v1, v2}, {p1, p2, v1}}
    Relay = Relay
    Sizes = {1, 2}
    Clients = {c1}
    NoClient = NoClient
    Away = Away
    NoPlayer = NoPlayer
    Timeout = 1
    MaxInFlight = 1
INVARIANTS TypeOK OneGhostEach BotsAreGhosts HumansSpared
PROPERTIES GhostsFade
