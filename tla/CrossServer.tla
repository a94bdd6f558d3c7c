----------------------------- MODULE CrossServer -----------------------------
(***************************************************************************)
(* Healing, damage and uber across servers.  A hook of the plugin sees that*)
(* somebody healed, hurt or ubered the body of a ghost, sends a packet that*)
(* names the player, the relay carries it to that player's server (Fanout),*)
(* and the plugin there looks for a player of its own under that name.     *)
(* This is added to the ghost table of module Ghosts; the numbers and the  *)
(* health that the ghost shows are left out.                               *)
(***************************************************************************)
EXTENDS Ghosts

CONSTANT MaxRequests  \* bound: the packets sent

VARIABLES
    requests,  \* packets on their way: what for, whose ghost, whom they name
    applied    \* history: the packets that found their player

crossVars == <<vars, requests, applied>>

CrossInit == Init /\ requests = {} /\ applied = {}

\* FindGhostByClientIndex does not ask whether the index is still a bot's.
FindGhostByClientIndex(c) == {s \in Active : ghosts[s].client = c}

\* GetClientAuthId: a bot has no Steam id, and a player of this server has
\* one that is none of the others'.
AuthId(c) == NoPlayer

SendRequest(kind, s, named) ==
    /\ Cardinality(requests \cup applied) < MaxRequests
    /\ requests' = requests \cup {[kind |-> kind, player |-> ghosts[s].steamId, named |-> named]}
    /\ UNCHANGED <<vars, applied>>

\* The victim of the event is taken as it comes.
Event_PlayerHurt(c) ==
    \E s \in FindGhostByClientIndex(c) : SendRequest("damage", s, AuthId(c))

Event_PlayerHealed(c) ==
    /\ InGame(c)
    /\ \E s \in FindGhostByClientIndex(c) : SendRequest("heal", s, AuthId(c))

\* SendUberShare takes the id that the ghost was made with.
Event_UberDeployed(c) ==
    \E s \in FindGhostByClientIndex(c) : SendRequest("uber", s, ghosts[s].steamId)

\* ProcessRemoteHealRequest and its like, wherever the relay took the packet:
\* nothing is done for a name that FindClientBySteamId64 does not know.
ProcessRemoteRequest(r) ==
    /\ requests' = requests \ {r}
    /\ applied' = IF r.named \in Players /\ where[r.named] # Away
                  THEN applied \cup {r} ELSE applied
    /\ UNCHANGED vars

CrossNext ==
    \/ Next /\ UNCHANGED <<requests, applied>>
    \/ \E c \in Clients : Event_PlayerHurt(c) \/ Event_PlayerHealed(c) \/ Event_UberDeployed(c)
    \/ \E r \in requests : ProcessRemoteRequest(r)

CrossSpec == CrossInit /\ [][CrossNext]_crossVars
-----------------------------------------------------------------------------
\* A request to heal a ghost names the player it is the ghost of: AGENT.md,
\* "Server B applies healing to real Player X".
RequestNamesTheGhost ==
    \A r \in requests : r.kind = "heal" => r.named = r.player
=============================================================================
