------------------------------ MODULE Registry ------------------------------
(***************************************************************************)
(* The life of a connection to the relay and the two tables it keeps       *)
(* current: Relay::servers (which connection answers for a server id) and  *)
(* Relay::player_map (which server a player is routed to).                 *)
(*                                                                         *)
(* Every accepted socket is a tokio task, so the tasks interleave at every *)
(* await: the accept check and the duplicate check of the handshake read   *)
(* the table with try_read, registration takes the write lock later, and   *)
(* unregistration updates the two tables one after the other.              *)
(* The event fan-out of a packet is the subject of module Fanout: here a   *)
(* packet is what it does to the tables.                                   *)
(***************************************************************************)
EXTENDS Integers, FiniteSets

CONSTANTS
    Conns,       \* the sockets the listener may accept; each is one task
    Players,     \* the steam ids that appear in packets
    Ids,         \* the server ids (u8) a handshake or a header may carry
    MaxServers,  \* config.server.max_servers
    Renames,     \* the ids a plugin may adopt while it is connected
    NoConn,      \* no connection
    NoServer     \* no server

ASSUME MaxServersAssumption == MaxServers \in Nat \ {0}
ASSUME IdsAssumption == Ids \subseteq Nat /\ 1..MaxServers \subseteq Ids
ASSUME RenamesAssumption == Renames \subseteq Ids
ASSUME SentinelAssumption == NoConn \notin Conns /\ NoServer \notin Ids

VARIABLES
    pc,        \* pc[c]: how far the task of connection c is
    sid,       \* sid[c]: the id of its handshake (server_info.server_id)
    hdr,       \* hdr[c]: the id its plugin writes into packet headers
    servers,   \* servers[i]: the connection registered under i
    writer,    \* the connection that holds the write lock of servers
    peers,     \* the connections the lock holder has yet to notify
    told,      \* told[c]: the ids c was told have connected and not left
    playerMap, \* playerMap[p]: the server p's events are routed to
    via,       \* history: the connection whose packet wrote playerMap[p]
    shutdown   \* the shutdown signal was sent

vars == <<pc, sid, hdr, servers, writer, peers, told, playerMap, via, shutdown>>

(***************************************************************************)
(* The states of a task.  idle: not accepted yet.  acked: the success ACK  *)
(* is written and the task waits for the lock in register_server.          *)
(* registering / leaving: it holds the write lock and notifies the others. *)
(* closing: it left its loop and waits for the lock in unregister_server.  *)
(***************************************************************************)
Ended == {"refused", "rejected", "duplicate", "failed", "closed"}

States ==
    {"idle", "pending", "acked", "registering", "loop", "closing", "leaving"}
        \cup Ended

\* The tasks whose outbound receiver still exists, so that a send succeeds.
Listening == {"acked", "registering", "loop", "closing", "leaving"}

ValidIds == 1..MaxServers

Registered == {i \in Ids : servers[i] # NoConn}

\* The connections registered under an id other than i.
Others(i) == {servers[j] : j \in Registered \ {i}}

Init ==
    /\ pc = [c \in Conns |-> "idle"]
    /\ sid = [c \in Conns |-> NoServer]
    /\ hdr = [c \in Conns |-> NoServer]
    /\ servers = [i \in Ids |-> NoConn]
    /\ writer = NoConn
    /\ peers = {}
    /\ told = [c \in Conns |-> {}]
    /\ playerMap = [p \in Players |-> NoServer]
    /\ via = [p \in Players |-> NoConn]
    /\ shutdown = FALSE

Goto(c, from, to) ==
    /\ pc[c] = from
    /\ pc' = [pc EXCEPT ![c] = to]

(***************************************************************************)
(* try_read on servers: it fails while a writer holds the lock, and may    *)
(* fail while one is queued behind readers.  A failed attempt reads as "not*)
(* connected" and as a count of zero.                                      *)
(***************************************************************************)
TryRead ==
    IF writer # NoConn THEN {FALSE}
    ELSE IF \E c \in Conns : pc[c] \in {"acked", "closing"} THEN BOOLEAN
    ELSE {TRUE}

IsServerConnected(i, ok) == ok /\ servers[i] # NoConn

ConnectedCount(ok) == IF ok THEN Cardinality(Registered) ELSE 0

(***************************************************************************)
(* The accept loop of Server::run                                          *)
(***************************************************************************)
Accept(c) ==
    /\ ~shutdown
    /\ \E ok \in TryRead :
           Goto(c, "idle",
                IF ConnectedCount(ok) >= MaxServers THEN "refused" ELSE "pending")
    /\ UNCHANGED <<sid, hdr, servers, writer, peers, told, playerMap, via, shutdown>>

Shutdown ==
    /\ ~shutdown
    /\ shutdown' = TRUE
    /\ UNCHANGED <<pc, sid, hdr, servers, writer, peers, told, playerMap, via>>

(***************************************************************************)
(* The handshake.  A success ACK is on the wire when the task is "acked".  *)
(***************************************************************************)
\* Mutant: the handshake is read without a timer.
HandshakeNotTimed(c) ==
    /\ shutdown
    /\ Goto(c, "pending", "rejected")
    /\ UNCHANGED <<sid, hdr, servers, writer, peers, told, playerMap, via, shutdown>>

\* The timer runs out, the peer closes or sends what does not decode: nothing
\* but the timer is sure to come.
HandshakeTimeout(c) ==
    /\ Goto(c, "pending", "rejected")
    /\ UNCHANGED <<sid, hdr, servers, writer, peers, told, playerMap, via, shutdown>>

\* The id is out of range, or the duplicate check finds it registered.
RejectHandshake(c, i) ==
    /\ \/ i \notin ValidIds
       \/ \E ok \in TryRead : IsServerConnected(i, ok)
    /\ Goto(c, "pending", "rejected")
    /\ UNCHANGED <<sid, hdr, servers, writer, peers, told, playerMap, via, shutdown>>

\* Mutant: the id is not checked against the range.
AcceptAnyId(c, i) ==
    /\ \E ok \in TryRead : ~IsServerConnected(i, ok)
    /\ Goto(c, "pending", "acked")
    /\ sid' = [sid EXCEPT ![c] = i]
    /\ hdr' = [hdr EXCEPT ![c] = i]
    /\ UNCHANGED <<servers, writer, peers, told, playerMap, via, shutdown>>

AcceptHandshake(c, i) ==
    /\ i \in ValidIds
    /\ \E ok \in TryRead : ~IsServerConnected(i, ok)
    /\ Goto(c, "pending", "acked")
    /\ sid' = [sid EXCEPT ![c] = i]
    /\ hdr' = [hdr EXCEPT ![c] = i]
    /\ UNCHANGED <<servers, writer, peers, told, playerMap, via, shutdown>>

(***************************************************************************)
(* register_server: take the write lock, check again, notify, insert.      *)
(***************************************************************************)
RegisterDuplicate(c) ==
    /\ writer = NoConn
    /\ Goto(c, "acked", "duplicate")
    /\ servers[sid[c]] # NoConn
    /\ UNCHANGED <<sid, hdr, servers, writer, peers, told, playerMap, via, shutdown>>

\* Mutant: the duplicate check is not repeated under the lock.
RegisterUnchecked(c) ==
    /\ writer = NoConn
    /\ Goto(c, "acked", "registering")
    /\ writer' = c
    /\ peers' = Others(sid[c])
    /\ UNCHANGED <<sid, hdr, servers, told, playerMap, via, shutdown>>

\* Mutant: the newcomer is not announced to the servers that are there.
RegisterSilently(c) ==
    /\ writer = NoConn
    /\ Goto(c, "acked", "registering")
    /\ servers[sid[c]] = NoConn
    /\ writer' = c
    /\ peers' = {}
    /\ UNCHANGED <<sid, hdr, servers, told, playerMap, via, shutdown>>

RegisterLock(c) ==
    /\ writer = NoConn
    /\ Goto(c, "acked", "registering")
    /\ servers[sid[c]] = NoConn
    /\ writer' = c
    /\ peers' = Others(sid[c])
    /\ UNCHANGED <<sid, hdr, servers, told, playerMap, via, shutdown>>

RegisterInsert(c) ==
    /\ peers = {}
    /\ Goto(c, "registering", "loop")
    /\ servers' = [servers EXCEPT ![sid[c]] = c]
    /\ writer' = NoConn
    /\ UNCHANGED <<sid, hdr, peers, told, playerMap, via, shutdown>>

\* One iteration of either notification loop: SERVER_CONNECT while c
\* registers, SERVER_DISCONNECT while it leaves.  A send to a peer whose
\* task has ended fails, and the error is ignored.
NotifyPeer(c, d) ==
    /\ pc[c] \in {"registering", "leaving"}
    /\ d \in peers
    /\ peers' = peers \ {d}
    /\ told' = IF pc[d] \notin Listening THEN told
               ELSE IF pc[c] = "registering"
                    THEN [told EXCEPT ![d] = @ \cup {sid[c]}]
                    ELSE [told EXCEPT ![d] = @ \ {sid[c]}]
    /\ UNCHANGED <<pc, sid, hdr, servers, writer, playerMap, via, shutdown>>

(***************************************************************************)
(* Packets that change the tables, under the id of the packet's header.    *)
(***************************************************************************)
PlayerConnect(c, p) ==
    /\ pc[c] = "loop"
    /\ playerMap' = [playerMap EXCEPT ![p] = hdr[c]]
    /\ via' = [via EXCEPT ![p] = c]
    /\ UNCHANGED <<pc, sid, hdr, servers, writer, peers, told, shutdown>>

PlayerDisconnect(c, p) ==
    /\ pc[c] = "loop"
    /\ playerMap' = [playerMap EXCEPT ![p] = NoServer]
    /\ UNCHANGED <<pc, sid, hdr, servers, writer, peers, told, via, shutdown>>

\* On every map start the plugin reads its server id from the console
\* variable again, and keeps its connection.
Rename(c, i) ==
    /\ pc[c] = "loop"
    /\ hdr' = [hdr EXCEPT ![c] = i]
    /\ UNCHANGED <<pc, sid, servers, writer, peers, told, playerMap, via, shutdown>>

(***************************************************************************)
(* The ways out of the loop.  Only a break reaches unregister_server.      *)
(***************************************************************************)
PeerCloses(c) ==
    /\ Goto(c, "loop", "closing")
    /\ UNCHANGED <<sid, hdr, servers, writer, peers, told, playerMap, via, shutdown>>

\* The signal is sent right before main returns and the runtime drops every
\* task: whichever task sees it first may still begin to unregister.
ShutdownSeen(c) ==
    /\ shutdown
    /\ Goto(c, "loop", "closing")
    /\ UNCHANGED <<sid, hdr, servers, writer, peers, told, playerMap, via, shutdown>>

\* A read or write error, a missed heartbeat, a decoding error, a packet
\* error that is not recoverable: the task returns from inside the loop.
ErrorExit(c) ==
    /\ Goto(c, "loop", "failed")
    /\ UNCHANGED <<sid, hdr, servers, writer, peers, told, playerMap, via, shutdown>>

(***************************************************************************)
(* unregister_server: remove and notify under the lock of servers, then    *)
(* drop the players of the id from player_map, still under that lock.      *)
(***************************************************************************)
\* Mutant: the lock is dropped between the two tables.
UnregisterUnlocked(c) ==
    /\ writer = NoConn
    /\ Goto(c, "closing", "leaving")
    /\ servers' = [servers EXCEPT ![sid[c]] = NoConn]
    /\ peers' = {}
    /\ UNCHANGED <<sid, hdr, writer, told, playerMap, via, shutdown>>

\* Mutant: the others are not notified.
UnregisterSilently(c) ==
    /\ writer = NoConn
    /\ Goto(c, "closing", "leaving")
    /\ writer' = c
    /\ servers' = [servers EXCEPT ![sid[c]] = NoConn]
    /\ peers' = {}
    /\ UNCHANGED <<sid, hdr, told, playerMap, via, shutdown>>

UnregisterLock(c) ==
    /\ writer = NoConn
    /\ Goto(c, "closing", "leaving")
    /\ writer' = c
    /\ servers' = [servers EXCEPT ![sid[c]] = NoConn]
    /\ peers' = IF servers[sid[c]] # NoConn THEN Others(sid[c]) ELSE {}
    /\ UNCHANGED <<sid, hdr, told, playerMap, via, shutdown>>

\* Mutant: the players of the server stay in the routing table.
UnregisterKeepsPlayers(c) ==
    /\ peers = {}
    /\ Goto(c, "leaving", "closed")
    /\ writer' = NoConn
    /\ UNCHANGED <<sid, hdr, servers, peers, told, playerMap, via, shutdown>>

UnregisterPlayers(c) ==
    /\ peers = {}
    /\ Goto(c, "leaving", "closed")
    /\ playerMap' = [p \in Players |->
                        IF playerMap[p] = sid[c] THEN NoServer ELSE playerMap[p]]
    /\ writer' = NoConn
    /\ UNCHANGED <<sid, hdr, servers, peers, told, via, shutdown>>

Next ==
    \/ Shutdown
    \/ \E c \in Conns :
          \/ Accept(c)
          \/ HandshakeTimeout(c)
          \/ \E i \in Ids : RejectHandshake(c, i)
          \/ \E i \in Ids : AcceptHandshake(c, i)
          \/ RegisterDuplicate(c)
          \/ RegisterLock(c)
          \/ \E d \in Conns : NotifyPeer(c, d)
          \/ RegisterInsert(c)
          \/ \E p \in Players : PlayerConnect(c, p)
          \/ \E p \in Players : PlayerDisconnect(c, p)
          \/ \E i \in Renames : Rename(c, i)
          \/ PeerCloses(c)
          \/ ShutdownSeen(c)
          \/ ErrorExit(c)
          \/ UnregisterLock(c)
          \/ UnregisterPlayers(c)

Spec == Init /\ [][Next]_vars

(***************************************************************************)
(* Fairness, as long as main has not sent the shutdown signal: a runnable  *)
(* task is polled; the lock of servers is handed out in arrival order      *)
(* (tokio's RwLock is fair), hence strong fairness on its acquisition; the *)
(* handshake runs under a timer.  A plugin owes nothing.                   *)
(* That NotifyPeer ends assumes the peers' outbound queues have room;      *)
(* module Fanout is about what happens when they have not.                 *)
(***************************************************************************)
Runs(c) ==
    /\ ~shutdown
    /\ \/ HandshakeTimeout(c) \/ RegisterInsert(c) \/ UnregisterPlayers(c)
       \/ \E d \in Conns : NotifyPeer(c, d)

GetsLock(c) ==
    /\ ~shutdown
    /\ RegisterDuplicate(c) \/ RegisterLock(c) \/ UnregisterLock(c)

Fairness == \A c \in Conns : WF_vars(Runs(c)) /\ SF_vars(GetsLock(c))

FairSpec == Spec /\ Fairness
-----------------------------------------------------------------------------
(***************************************************************************)
(* Every variable keeps its type: the two tables map to known connections  *)
(* and ids, and the tasks are in known states.                             *)
(***************************************************************************)
TypeOK ==
    /\ pc \in [Conns -> States]
    /\ sid \in [Conns -> ValidIds \cup {NoServer}]
    /\ hdr \in [Conns -> Ids \cup {NoServer}]
    /\ servers \in [Ids -> Conns \cup {NoConn}]
    /\ writer \in Conns \cup {NoConn}
    /\ peers \subseteq Conns
    /\ told \in [Conns -> SUBSET Ids]
    /\ playerMap \in [Players -> Ids \cup {NoServer}]
    /\ via \in [Players -> Conns \cup {NoConn}]
    /\ shutdown \in BOOLEAN

(***************************************************************************)
(* A task in its loop, or about to unregister, is the one registered under *)
(* its id: however handshakes race past the unlocked duplicate check, two  *)
(* tasks never serve one id, and unregister_server, which removes the id   *)
(* without looking at whose entry it is, only ever removes its own.        *)
(***************************************************************************)
OwnEntry ==
    \A c \in Conns : pc[c] \in {"loop", "closing"} => servers[sid[c]] = c

\* The route of p was made under the id its maker is registered under, and
\* not under one it has read from its console variable since.
OwnRoute(p) == playerMap[p] # NoServer /\ sid[via[p]] = playerMap[p]

(***************************************************************************)
(* A route in player_map that its maker made under its own id leads to a   *)
(* registered server, except while the task of that server is between the  *)
(* two halves of unregister_server.                                        *)
(***************************************************************************)
PlayersRouted ==
    \A p \in Players :
        OwnRoute(p) =>
            \/ servers[playerMap[p]] # NoConn
            \/ writer # NoConn /\ pc[writer] = "leaving" /\ sid[writer] = playerMap[p]

(***************************************************************************)
(* Of two tasks in their loops exactly one was told of the other: the      *)
(* notification loop and the insertion are one critical section, so no     *)
(* concurrent registration is missed and none is announced twice.          *)
(***************************************************************************)
OneOfTwoTold ==
    \A c, d \in Conns :
        c # d /\ pc[c] = "loop" /\ pc[d] = "loop" =>
            (sid[c] \in told[d]) # (sid[d] \in told[c])

(***************************************************************************)
(* An id a connected server was told of, and not told has left, is still   *)
(* registered or is the id of the task that holds the lock.                *)
(***************************************************************************)
NoPhantomPeer ==
    \A c \in Conns : pc[c] = "loop" =>
        \A i \in told[c] :
            \/ servers[i] # NoConn
            \/ writer # NoConn /\ sid[writer] = i

(***************************************************************************)
(* max_servers bounds the connections served at once, although the accept  *)
(* check neither counts pending handshakes nor, under a writer, anything.  *)
(***************************************************************************)
WithinCapacity ==
    Cardinality({c \in Conns : pc[c] \in {"loop", "closing"}}) <= MaxServers

(***************************************************************************)
(* When a server leaves, the players dropped with it were not put there by *)
(* a connection that is in its loop and keeps its id: a successor that took*)
(* the same id keeps the routes its own packets made.                      *)
(***************************************************************************)
PurgeSparesTheLiving ==
    [][\A c \in Conns : pc[c] = "leaving" /\ pc'[c] = "closed" =>
           \A p \in Players : playerMap'[p] # playerMap[p] /\ OwnRoute(p) =>
               pc[via[p]] # "loop"]_vars

(***************************************************************************)
(* Every accepted connection is decided, gets into its loop or ends, unless*)
(* the relay is shut down first.                                           *)
(***************************************************************************)
HandshakeDecided ==
    \A c \in Conns :
        pc[c] \in {"pending", "acked", "registering"}
            ~> pc[c] \in Ended \cup {"loop"} \/ shutdown

(***************************************************************************)
(* ARCHITECTURE.md, connection life cycle: "(timeout or disconnect)" leads *)
(* to DISCONNECT, "Notify other servers".  So no registered connection's   *)
(* task may be over.                                                       *)
(***************************************************************************)
EndedIsUnregistered ==
    \A i \in Ids : servers[i] # NoConn => pc[servers[i]] \notin Ended
=============================================================================
