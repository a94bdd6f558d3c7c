------------------------------- MODULE Ghosts -------------------------------
(***************************************************************************)
(* The ghost table of one plugin (tf2_relay_client.sp): slots for players  *)
(* of other servers, each with a fake client of this server.  Packets from *)
(* another server arrive in the order it sent them; those of different     *)
(* servers interleave.  Ghost slots refer to their fake client by client   *)
(* index, and the game gives a free index to whoever joins next.           *)
(*                                                                         *)
(* A data callback is a piece of the stream that TCP happens to deliver.   *)
(* One that ends within its first packet is read to the packet's end all   *)
(* the same, so that the end comes from whatever the buffer holds.         *)
(*                                                                         *)
(* Packets arrive here as the plugin sent them.  Today the relay does not  *)
(* pass them on like that: see PLAYER_SYNC and GHOST_SPAWN in module Wire. *)
(*                                                                         *)
(* Time is counted in frames: Timeout of them make GHOST_TIMEOUT.          *)
(***************************************************************************)
EXTENDS Integers, Sequences, FiniteSets

CONSTANTS
    Players,      \* the Steam ids of players of the other servers
    Garbled,      \* Steam ids of nobody that the end of a buffer may spell
    Servers,      \* the other servers
    Casts,        \* the sets of players and servers to look at together
    Relay,        \* the id 0 that packets of the relay itself carry
    Sizes,        \* the values of MAX_GHOSTS to look at
    Clients,      \* client indexes of this server
    NoClient,
    Away,         \* where a player is that plays nowhere
    NoPlayer,
    Timeout,
    MaxInFlight   \* bound: packets under way from one server

ASSUME GhostsAssumption ==
    /\ IsFiniteSet(Sizes) /\ Sizes # {} /\ Sizes \subseteq Nat \ {0}
    /\ Timeout \in Nat /\ MaxInFlight \in Nat
    /\ Relay \notin Servers /\ Away \notin Servers
    /\ NoClient \notin Clients /\ NoPlayer \notin Players \cup Garbled
    /\ Players \cap Garbled = {}

VARIABLES
    cast,      \* the players and servers of this behaviour
    size,      \* MAX_GHOSTS, the same throughout a behaviour
    where,     \* the server each player is on
    wire,      \* packets on their way, per server they come from
    ghosts,    \* g_Ghosts
    count,     \* g_iGhostCount
    clients,   \* who has each client index: "free", "bot", or "human"
    enabled,   \* sm_relay_ghosts
    kicked,    \* history: the game or an admin kicked a fake client
    wronged,   \* history: a player was kicked, moved or respawned as a ghost
    misread    \* history: the players of whom a packet was read as another's

vars == <<cast, size, where, wire, ghosts, count, clients, enabled, kicked, wronged, misread>>

\* The Steam ids that a plugin may read.
SteamIds == Players \cup Garbled

\* A slot also has, as history, the player whose packet filled it.
Slots == 1..size
Empty == [active |-> FALSE, steamId |-> NoPlayer, of |-> NoPlayer, server |-> Relay,
          client |-> NoClient, age |-> 0]

Init ==
    /\ cast \in Casts
    /\ size \in Sizes
    /\ where = [p \in Players |-> Away]
    /\ wire = [v \in Servers |-> <<>>]
    /\ ghosts = [s \in Slots |-> Empty]
    /\ count = 0
    /\ clients = [c \in Clients |-> "free"]
    /\ enabled = TRUE
    /\ kicked = FALSE /\ wronged = FALSE /\ misread = {}

Active == {s \in Slots : ghosts[s].active}
FreeSlots == Slots \ Active
FindGhostBySteamId(i) == {s \in Active : ghosts[s].steamId = i}
InGame(c) == c # NoClient /\ clients[c] # "free"

(***************************************************************************)
(* The other servers and the relay (external to this plugin).              *)
(***************************************************************************)
Send(v, packet) ==
    /\ Len(wire[v]) < MaxInFlight
    /\ wire' = [wire EXCEPT ![v] = Append(@, packet)]

OutThere == <<cast, size, ghosts, count, clients, enabled, kicked, wronged, misread>>

RemoteJoin(p, v) ==
    /\ {p, v} \subseteq cast
    /\ where[p] = Away
    /\ where' = [where EXCEPT ![p] = v]
    /\ UNCHANGED <<wire, OutThere>>

RemoteSync(p) ==
    /\ where[p] # Away
    /\ Send(where[p], [type |-> "sync", player |-> p])
    /\ UNCHANGED <<where, OutThere>>

\* SendPlayerSpawn, a tenth of a second after the player spawned.
RemoteSpawn(p) ==
    /\ where[p] # Away
    /\ Send(where[p], [type |-> "spawn", player |-> p])
    /\ UNCHANGED <<where, OutThere>>

RemoteLeave(p) ==
    /\ where[p] # Away
    /\ Send(where[p], [type |-> "disconnect", player |-> p])
    /\ where' = [where EXCEPT ![p] = Away]
    /\ UNCHANGED OutThere

\* The relay unregisters v and says so, in a packet with server id 0.
ServerLost(v) ==
    /\ \E p \in Players : where[p] = v
    /\ Send(v, [type |-> "server_disconnect", player |-> NoPlayer])
    /\ where' = [p \in Players |-> IF where[p] = v THEN Away ELSE where[p]]
    /\ UNCHANGED OutThere

(***************************************************************************)
(* RemoveGhost of each of a set of slots: the client index is kicked,      *)
(* whoever has it by now.                                                  *)
(***************************************************************************)
KickedBy(slots) == {ghosts[s].client : s \in slots} \ {NoClient}

\* Mutant: the slots are freed without counting them.
RemoveUncounted(slots) ==
    /\ ghosts' = [s \in Slots |-> IF s \in slots THEN Empty ELSE ghosts[s]]
    /\ clients' = [c \in Clients |-> IF c \in KickedBy(slots) THEN "free" ELSE clients[c]]
    /\ wronged' = (wronged \/ \E c \in KickedBy(slots) : clients[c] = "human")
    /\ UNCHANGED count

\* Mutant: the fake clients stay.
RemoveUnkicked(slots) ==
    /\ ghosts' = [s \in Slots |-> IF s \in slots THEN Empty ELSE ghosts[s]]
    /\ count' = count - Cardinality(slots)
    /\ UNCHANGED <<clients, wronged>>

\* Mutant: the fake clients are kicked, the slots still remember them.
RemoveUnforgotten(slots) ==
    /\ clients' = [c \in Clients |-> IF c \in KickedBy(slots) THEN "free" ELSE clients[c]]
    /\ wronged' = (wronged \/ \E c \in KickedBy(slots) : clients[c] = "human")
    /\ UNCHANGED <<ghosts, count>>

Remove(slots) ==
    /\ ghosts' = [s \in Slots |-> IF s \in slots THEN Empty ELSE ghosts[s]]
    /\ count' = count - Cardinality(slots)
    /\ clients' = [c \in Clients |-> IF c \in KickedBy(slots) THEN "free" ELSE clients[c]]
    /\ wronged' = (wronged \/ \E c \in KickedBy(slots) : clients[c] = "human")

(***************************************************************************)
(* CreateGhostEntity: a fake client on a free index, or none when the      *)
(* server is full.                                                         *)
(***************************************************************************)
FreeClients == {c \in Clients : clients[c] = "free"}

CreateGhostEntity(s, ghost) ==
    \E c \in IF FreeClients = {} THEN {NoClient} ELSE FreeClients :
        /\ ghosts' = [ghosts EXCEPT ![s] = [ghost EXCEPT !.client = c]]
        /\ clients' = IF c = NoClient THEN clients ELSE [clients EXCEPT ![c] = "bot"]

CreateGhost(s, p, i, v) ==
    /\ s \in FreeSlots /\ \A t \in FreeSlots : s <= t
    /\ CreateGhostEntity(s, [active |-> TRUE, steamId |-> i, of |-> p, server |-> v,
                             client |-> NoClient, age |-> 0])
    /\ count' = count + 1

\* What the index a slot remembers does to whoever has it by now.
Wrongs(s) == ghosts[s].client # NoClient /\ clients[ghosts[s].client] = "human"

\* UpdateGhostModel, on a change of class, respawns the client; it and
\* UpdateGhostPosition make the entity again when the client is gone.
UpdateGhost(s) ==
    /\ LET ghost == [ghosts[s] EXCEPT !.age = 0]
       IN  IF InGame(ghost.client)
           THEN ghosts' = [ghosts EXCEPT ![s] = ghost] /\ UNCHANGED clients
           ELSE CreateGhostEntity(s, ghost)
    /\ \E newClass \in BOOLEAN : wronged' = (wronged \/ (newClass /\ Wrongs(s)))
    /\ UNCHANGED count

NoGhost == UNCHANGED <<ghosts, clients, count, wronged>>

\* FindGhostBySteamId failed: a ghost in a free slot, or none.
NewGhost(p, i, v) ==
    IF FreeSlots = {} THEN NoGhost
    ELSE (\E s \in FreeSlots : CreateGhost(s, p, i, v)) /\ UNCHANGED wronged

\* A packet about p in which the Steam id i is read.
ProcessRemotePlayerSync(p, i, v) ==
    IF FindGhostBySteamId(i) = {} THEN NewGhost(p, i, v)
    ELSE \E s \in FindGhostBySteamId(i) : UpdateGhost(s)

\* Mutant: a spawn makes a ghost whether or not there is one.
SpawnAnother(p, i, v) == NewGhost(p, i, v)

\* A ghost that is there only gets a position: its age stays.
ProcessRemoteGhostSpawn(p, i, v) ==
    IF FindGhostBySteamId(i) = {} THEN NewGhost(p, i, v) ELSE NoGhost

\* Looks for the ghost of "<server>_<offset>", which is no player's id.
ProcessRemotePlayerDisconnect == Remove({})

RemoveGhostsByServer(v) == Remove({s \in Active : ghosts[s].server = v})

(***************************************************************************)
(* A data callback: ProcessIncomingData looks at the first packet in it    *)
(* and no further, so the others that came with it are lost.  lost[u] is   *)
(* how many of the packets of u that is.                                   *)
(***************************************************************************)
Arrive(v, lost) ==
    LET taken(u) == lost[u] + (IF u = v THEN 1 ELSE 0)
    IN  /\ \A u \in Servers : taken(u) <= Len(wire[u])
        /\ wire' = [u \in Servers |-> SubSeq(wire[u], taken(u) + 1, Len(wire[u]))]

\* The Steam ids a packet may be read with.  Ten bytes are enough for it to be
\* looked at, and with them its type, its server and where the Steam id is
\* are right, but the id is the packet's own only if that much of it came.
ReadAs(packet) ==
    IF packet.type \in {"sync", "spawn"} /\ enabled THEN SteamIds ELSE {packet.player}

\* A packet cut short is all there is to its callback; its rest begins
\* another one that is dropped as in LoseData, unless the rest happens to
\* begin with the two bytes of the magic, which is left out.
ProcessIncomingData(v, i) ==
    /\ wire[v] # <<>>
    /\ i \in ReadAs(Head(wire[v]))
    /\ \E lost \in [Servers -> 0..MaxInFlight] : Arrive(v, lost)
    /\ LET packet == Head(wire[v])
       IN  /\ misread' = IF i = packet.player THEN misread ELSE misread \cup {packet.player}
           /\ \/ packet.type \in {"sync", "spawn"} /\ ~enabled /\ NoGhost
              \/ /\ packet.type = "sync" /\ enabled
                 /\ ProcessRemotePlayerSync(packet.player, i, v)
              \/ /\ packet.type = "spawn" /\ enabled
                 /\ ProcessRemoteGhostSpawn(packet.player, i, v)
              \/ packet.type = "disconnect" /\ ProcessRemotePlayerDisconnect
              \/ packet.type = "server_disconnect" /\ RemoveGhostsByServer(Relay)
    /\ UNCHANGED <<cast, size, where, enabled, kicked>>

\* A callback that starts within a packet has no magic and is dropped whole,
\* and one of fewer than ten bytes is not looked at.
LoseData(v) ==
    /\ wire[v] # <<>>
    /\ wire' = [wire EXCEPT ![v] = Tail(@)]
    /\ UNCHANGED <<where, OutThere>>

(***************************************************************************)
(* OnGameFrame: ghosts that time out go, the others move their clients.    *)
(***************************************************************************)
TimedOut == {s \in Active : ghosts[s].age >= Timeout}

\* Mutant: a ghost without a body is skipped before its age is looked at.
OnGameFrameBodies ==
    /\ enabled
    /\ LET gone == {s \in TimedOut : InGame(ghosts[s].client)}
       IN  /\ ghosts' = [s \in Slots |->
                            IF s \in gone THEN Empty
                            ELSE IF s \in Active /\ InGame(ghosts[s].client)
                                 THEN [ghosts[s] EXCEPT !.age = @ + 1]
                                 ELSE ghosts[s]]
           /\ count' = count - Cardinality(gone)
           /\ clients' = [c \in Clients |->
                            IF c \in KickedBy(gone) THEN "free" ELSE clients[c]]
    /\ UNCHANGED <<cast, size, where, wire, enabled, kicked, wronged, misread>>

OnGameFrame ==
    /\ enabled
    /\ ghosts' = [s \in Slots |->
                    IF s \in TimedOut THEN Empty
                    ELSE IF s \in Active THEN [ghosts[s] EXCEPT !.age = @ + 1]
                    ELSE ghosts[s]]
    /\ count' = count - Cardinality(TimedOut)
    /\ clients' = [c \in Clients |-> IF c \in KickedBy(TimedOut) THEN "free" ELSE clients[c]]
    /\ wronged' = (wronged \/ \E s \in Active : Wrongs(s))
    /\ UNCHANGED <<cast, size, where, wire, enabled, kicked, misread>>

\* OnMapEnd and OnMapStart, and sm_relay_reconnect.
RemoveAllGhosts ==
    /\ Active # {}
    /\ Remove(Active)
    /\ UNCHANGED <<cast, size, where, wire, enabled, kicked, misread>>

Switch ==
    /\ enabled' = ~enabled
    /\ UNCHANGED <<cast, size, where, wire, ghosts, count, clients, kicked, wronged, misread>>

(***************************************************************************)
(* The game (external): players of this server come and go, and it may     *)
(* kick fake clients.                                                      *)
(***************************************************************************)
Occupy(c, from, to) ==
    /\ clients[c] = from
    /\ clients' = [clients EXCEPT ![c] = to]
    /\ kicked' = (kicked \/ from = "bot")
    /\ UNCHANGED <<cast, size, where, wire, ghosts, count, enabled, wronged, misread>>

LocalJoin(c) == Occupy(c, "free", "human")
LocalLeave(c) == Occupy(c, "human", "free")
BotKicked(c) == Occupy(c, "bot", "free")

Next ==
    \/ \E p \in Players : \/ RemoteSync(p) \/ RemoteSpawn(p) \/ RemoteLeave(p)
                          \/ \E v \in Servers : RemoteJoin(p, v)
    \/ \E v \in Servers :
          \/ ServerLost(v) \/ LoseData(v)
          \/ \E i \in SteamIds \cup {NoPlayer} : ProcessIncomingData(v, i)
    \/ OnGameFrame \/ RemoveAllGhosts \/ Switch
    \/ \E c \in Clients : LocalJoin(c) \/ LocalLeave(c) \/ BotKicked(c)

Spec == Init /\ [][Next]_vars

\* Frames are drawn.  Packets on their way need not arrive.
Fairness == WF_vars(OnGameFrame)

FairSpec == Spec /\ Fairness
-----------------------------------------------------------------------------
\* Values have their types; a slot in use has a Steam id, which need not be a
\* player's, and a server that sent a packet; and the count that
\* sm_relay_status shows is the number of slots in use.
TypeOK ==
    /\ cast \in Casts /\ size \in Sizes
    /\ where \in [Players -> Servers \cup {Away}]
    /\ ghosts \in [Slots -> [active : BOOLEAN, steamId : SteamIds \cup {NoPlayer},
                             of : Players \cup {NoPlayer},
                             server : Servers \cup {Relay},
                             client : Clients \cup {NoClient}, age : 0..Timeout]]
    /\ clients \in [Clients -> {"free", "bot", "human"}]
    /\ enabled \in BOOLEAN /\ kicked \in BOOLEAN /\ wronged \in BOOLEAN
    /\ misread \subseteq Players
    /\ \A s \in Active : /\ ghosts[s].steamId \in SteamIds /\ ghosts[s].of \in Players
                         /\ ghosts[s].server \in Servers
    /\ count = Cardinality(Active)

\* No player has two ghosts, nor a ghost under the Steam id of somebody else or
\* of nobody, whichever of its servers reports it, in whatever order and
\* however full the table is, until a packet about it was cut within its Steam
\* id.  And no two ghosts ever have one Steam id, whatever cut packets spell.
OneGhostEach ==
    /\ \A i \in SteamIds : Cardinality(FindGhostBySteamId(i)) <= 1
    /\ \A p \in Players \ misread :
          LET itsGhosts == {s \in Active : ghosts[s].of = p}
          IN  /\ Cardinality(itsGhosts) <= 1
              /\ itsGhosts \subseteq FindGhostBySteamId(p)

\* Every fake client is the body of exactly one ghost, as long as nobody but
\* the plugin kicks one: none is left behind when a ghost times out, is
\* removed, or gets its body only later.
BotsAreGhosts ==
    ~kicked => \A c \in Clients : clients[c] = "bot" =>
        Cardinality({s \in Active : ghosts[s].client = c}) = 1

\* No player of this server is kicked, moved or respawned in the place of a
\* ghost, unless a fake client was kicked from outside before: RemoveGhost,
\* OnGameFrame and UpdateGhostModel use the client index a slot remembers
\* without asking whose it is by now.
HumansSpared == wronged => kicked

\* A ghost whose Steam id is no longer read goes: that of a player who is gone
\* for good, that of a server that is gone, that of nobody.  It goes by its
\* age, since the plugin finds it neither for PLAYER_DISCONNECT nor for
\* SERVER_DISCONNECT.  Only packets of others, cut so that they are read with
\* its Steam id again and again, keep it.
GhostsFade ==
    \A i \in SteamIds :
        <>[]enabled /\ <>[][\A v \in Servers : ~ProcessIncomingData(v, i)]_vars
            => <>[](FindGhostBySteamId(i) = {})
=============================================================================
