---------------------------- MODULE PluginClient ----------------------------
(***************************************************************************)
(* The connection of one game server's plugin (tf2_relay_client.sp):       *)
(* socket, handshake, and the reconnect, heartbeat and sync timers.  Every *)
(* callback, timer and command runs on the game's main thread, one at a    *)
(* time, so each is one action.                                            *)
(*                                                                         *)
(* Two facts about SourceMod matter.  A timer made with                    *)
(* TIMER_FLAG_NO_MAPCHANGE is closed when the map ends, and a variable     *)
(* that still holds its handle is stale; delete of a stale handle raises   *)
(* an error that aborts the whole callback.                                *)
(*                                                                         *)
(* The relay's answers are taken to reach ProcessIncomingData intact, one  *)
(* to a data callback, with the magic bytes in the order it expects:       *)
(* the run decoder_magic shows that they do not come in that order.        *)
(***************************************************************************)
EXTENDS Integers, FiniteSets

CONSTANTS
    Sockets,      \* AsyncSocket handles; one whose socket is gone is used again
    NoSocket,
    Disturbances, \* the sets of disturbances to look at
    MaxBeats      \* bound: heartbeat timers running at once

\* The map changes; an admin uses sm_relay_reconnect; the relay rejects a
\* handshake.  That connections break, at any time, goes without saying.
ASSUME DisturbancesAssumption ==
    /\ Disturbances \subseteq SUBSET {"map", "command", "rejection"}
    /\ NoSocket \notin Sockets /\ MaxBeats \in Nat

VARIABLES
    may,         \* the disturbances that may happen in this behaviour
    link,        \* each handle's socket: "none", "connecting" or "open"
    relay,       \* the relay's end of it: "silent", "asked", "ack", "reject", "done"
    socket,      \* g_hSocket
    connected,   \* g_bConnected
    handshake,   \* g_bHandshakeComplete
    reconnect,   \* g_hReconnectTimer # null
    sync,        \* g_hSyncTimer: "null", "live", or "stale"
    syncs,       \* how many Timer_SyncPositions timers run
    beats,       \* how many Timer_Heartbeat timers run
    configsDue   \* OnConfigsExecuted is still to come for this map

vars == <<may, link, relay, socket, connected, handshake, reconnect, sync, syncs,
          beats, configsDue>>

Init ==
    /\ may \in Disturbances
    /\ link = [s \in Sockets |-> "none"]
    /\ relay = [s \in Sockets |-> "silent"]
    /\ socket = NoSocket
    /\ connected = FALSE /\ handshake = FALSE
    /\ reconnect = FALSE
    /\ sync = "null" /\ syncs = 0
    /\ beats = 0
    /\ configsDue = TRUE

\* delete closes the socket: no callback of it comes any more.
Deleted(links, s) == [t \in Sockets |-> IF t = s THEN "none" ELSE links[t]]

(***************************************************************************)
(* ConnectToRelay.  With a socket already connecting, the handle is        *)
(* overwritten and that socket goes on without it.                         *)
(***************************************************************************)
ConnectToRelay(links) ==
    \E s \in Sockets :
        /\ links[s] = "none"
        /\ link' = [links EXCEPT ![s] = "connecting"]
        /\ relay' = [relay EXCEPT ![s] = "silent"]
        /\ socket' = s

ConnectUnlessConnected ==
    IF connected THEN UNCHANGED <<link, relay, socket>> ELSE ConnectToRelay(link)

(***************************************************************************)
(* Disconnect, up to where it deletes the sync timer.                      *)
(***************************************************************************)
DisconnectRaises == sync = "stale"

\* Mutant: a stale handle is deleted like a live one.
TornDownStale ==
    /\ connected' = FALSE /\ handshake' = FALSE
    /\ sync' = "null"
    /\ syncs' = IF sync = "null" THEN syncs ELSE syncs - 1

\* Mutant: the handshake is not forgotten.
TornDownHandshaken ==
    /\ connected' = FALSE
    /\ sync' = "null"
    /\ syncs' = IF sync = "live" THEN syncs - 1 ELSE syncs
    /\ UNCHANGED handshake

TornDown ==
    /\ connected' = FALSE /\ handshake' = FALSE
    /\ IF DisconnectRaises THEN UNCHANGED <<sync, syncs>>
       ELSE /\ sync' = "null"
            /\ syncs' = IF sync = "live" THEN syncs - 1 ELSE syncs

\* Mutant: the handle is dropped but its socket is not deleted.
DisconnectKeepsSocket(links) ==
    /\ link' = links
    /\ socket' = NoSocket
    /\ TornDown

Disconnect(links) ==
    /\ link' = Deleted(links, socket)
    /\ socket' = NoSocket
    /\ TornDown

OnConfigsExecuted ==
    /\ configsDue
    /\ configsDue' = FALSE
    /\ ConnectUnlessConnected
    /\ UNCHANGED <<may, connected, handshake, reconnect, sync, syncs, beats>>

\* The callback of whichever socket connected; SendHandshake writes to
\* g_hSocket all the same.
OnSocketConnect(s) ==
    /\ link[s] = "connecting"
    /\ link' = [link EXCEPT ![s] = "open"]
    /\ connected' = TRUE
    /\ relay' = IF socket # NoSocket /\ link'[socket] = "open" /\ relay[socket] = "silent"
                THEN [relay EXCEPT ![socket] = "asked"] ELSE relay
    /\ UNCHANGED <<may, socket, handshake, reconnect, sync, syncs, beats, configsDue>>

\* Mutant: no reconnect is scheduled.
OnSocketErrorGivesUp(s) ==
    /\ link[s] # "none"
    /\ Disconnect(Deleted(link, s))
    /\ UNCHANGED <<may, relay, reconnect, beats, configsDue>>

\* A refused or lost connection, or the relay closing it.
OnSocketError(s) ==
    /\ link[s] # "none"
    /\ Disconnect(Deleted(link, s))
    /\ reconnect' = ~DisconnectRaises       \* ScheduleReconnect
    /\ UNCHANGED <<may, relay, beats, configsDue>>

\* The relay, external to the plugin, answers the handshake of a connection.
RelayAnswers(s) ==
    /\ link[s] = "open"
    /\ relay[s] = "asked"
    /\ \E answer \in {"ack"} \cup (IF "rejection" \in may THEN {"reject"} ELSE {}) :
          relay' = [relay EXCEPT ![s] = answer]
    /\ UNCHANGED <<may, link, socket, connected, handshake, reconnect, sync, syncs,
                   beats, configsDue>>

\* ProcessIncomingData, EVENT_HANDSHAKE_ACK with success.
OnAck(s) ==
    /\ link[s] = "open"
    /\ relay[s] = "ack"
    /\ beats < MaxBeats
    /\ relay' = [relay EXCEPT ![s] = "done"]
    /\ handshake' = TRUE
    /\ beats' = beats + 1
    /\ sync' = "live"
    /\ syncs' = syncs + 1
    /\ UNCHANGED <<may, link, socket, connected, reconnect, configsDue>>

\* And without: no reconnect is scheduled, and one that is is dropped.
OnReject(s) ==
    /\ link[s] = "open"
    /\ relay[s] = "reject"
    /\ relay' = [relay EXCEPT ![s] = "done"]
    /\ Disconnect(link)
    /\ reconnect' = FALSE
    /\ UNCHANGED <<may, beats, configsDue>>

\* Mutant: the timer only forgets its handle.
Timer_ReconnectIdle ==
    /\ reconnect
    /\ beats = 0 \/ connected
    /\ reconnect' = FALSE
    /\ UNCHANGED <<may, link, relay, socket, connected, handshake, sync, syncs, beats,
                   configsDue>>

\* The reconnect delay is never shorter than the heartbeat's second, so an
\* old heartbeat timer has stopped itself before it runs out.
Timer_Reconnect ==
    /\ reconnect
    /\ beats = 0 \/ connected
    /\ reconnect' = FALSE
    /\ ConnectUnlessConnected
    /\ UNCHANGED <<may, connected, handshake, sync, syncs, beats, configsDue>>

\* Mutant: the timer stops whether or not the connection is gone.
HeartbeatStopsEarly ==
    /\ beats > 0
    /\ beats' = beats - 1
    /\ UNCHANGED <<may, link, relay, socket, connected, handshake, reconnect, sync,
                   syncs, configsDue>>

\* One of the heartbeat timers finds the connection gone and stops.
HeartbeatStops ==
    /\ beats > 0
    /\ ~connected
    /\ beats' = beats - 1
    /\ UNCHANGED <<may, link, relay, socket, connected, handshake, reconnect, sync,
                   syncs, configsDue>>

CommandReconnect ==
    /\ "command" \in may
    /\ IF ~connected
       THEN /\ ConnectToRelay(link)
            /\ UNCHANGED <<connected, handshake, reconnect, sync, syncs>>
       ELSE /\ TornDown
            /\ reconnect' = FALSE
            /\ IF DisconnectRaises
               THEN /\ link' = Deleted(link, socket)
                    /\ socket' = NoSocket
                    /\ UNCHANGED relay
               ELSE ConnectToRelay(Deleted(link, socket))
    /\ UNCHANGED <<may, beats, configsDue>>

\* Map end and map start: the flagged timers are closed.
MapChange ==
    /\ "map" \in may
    /\ beats' = 0
    /\ syncs' = 0
    /\ sync' = IF sync = "live" THEN "stale" ELSE sync
    /\ configsDue' = TRUE
    /\ UNCHANGED <<may, link, relay, socket, connected, handshake, reconnect>>

Next ==
    \/ OnConfigsExecuted
    \/ \E s \in Sockets :
          \/ OnSocketConnect(s) \/ OnSocketError(s)
          \/ RelayAnswers(s) \/ OnAck(s) \/ OnReject(s)
    \/ Timer_Reconnect \/ HeartbeatStops
    \/ CommandReconnect \/ MapChange

Spec == Init /\ [][Next]_vars

(***************************************************************************)
(* Fairness: timers run out, configs are executed, and, the relay coming   *)
(* back each time it goes down, a connection attempt succeeds again and    *)
(* again, is answered, and the answer is read.                             *)
(***************************************************************************)
Fairness ==
    /\ WF_vars(OnConfigsExecuted) /\ WF_vars(Timer_Reconnect)
    /\ WF_vars(HeartbeatStops)
    /\ \A s \in Sockets : /\ SF_vars(OnSocketConnect(s)) /\ SF_vars(RelayAnswers(s))
                          /\ SF_vars(OnAck(s))

FairSpec == Spec /\ Fairness
-----------------------------------------------------------------------------
\* Values have their types, and the handle the plugin holds is that of a socket
\* that is being connected or is open, whichever of its sockets failed.
TypeOK ==
    /\ may \in Disturbances
    /\ link \in [Sockets -> {"none", "connecting", "open"}]
    /\ relay \in [Sockets -> {"silent", "asked", "ack", "reject", "done"}]
    /\ socket \in Sockets \cup {NoSocket}
    /\ socket # NoSocket => link[socket] # "none"
    /\ connected \in BOOLEAN /\ handshake \in BOOLEAN
    /\ reconnect \in BOOLEAN /\ configsDue \in BOOLEAN
    /\ sync \in {"null", "live", "stale"}
    /\ syncs \in 0..MaxBeats
    /\ beats \in 0..MaxBeats

\* What the plugin believes of its session fits: a complete handshake has a
\* connection, whatever errors, commands and map changes come between asking
\* and answer and even when two of its sockets are alive; and positions are
\* sent only under a complete handshake, by one timer, which can be stopped.
InSession ==
    /\ handshake => connected /\ socket # NoSocket
    /\ sync = "live" => handshake
    /\ syncs = (IF sync = "live" THEN 1 ELSE 0)

\* While the handshake stands a heartbeat is sent each second by exactly one
\* timer.  After a map change there may be none, the timer having been closed;
\* after a reconnect quicker than the timer notices, by command or by the
\* configs of a new map, there may be two.
HeartbeatRuns ==
    handshake => /\ "map" \notin may => beats >= 1
                 /\ may \cap {"map", "command"} = {} => beats <= 1

\* A connection that is lost is tried again: a plugin that knows it is not
\* connected has a reconnect timer, or its map's configs are still to be
\* executed; unless the relay rejected its handshake, or a map change left the
\* handle of the sync timer stale, whose delete cuts Disconnect short of
\* scheduling anything.
LostIsRetried ==
    ("rejection" \notin may /\ socket = NoSocket /\ ~connected /\ ~configsDue)
        => reconnect \/ sync = "stale"

\* The plugin has no socket but the one it knows: none is left behind that
\* the relay holds a connection task for.  A command and a map change may
\* start a connection beside one that is being made.
NoOrphan ==
    may \cap {"map", "command"} = {} => \A s \in Sockets : link[s] # "none" => s = socket

\* However often the connection breaks, the plugin gets back to a complete
\* handshake.
Recovers == may = {} => []<>handshake
=============================================================================
