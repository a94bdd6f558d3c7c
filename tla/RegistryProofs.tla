--------------------------- MODULE RegistryProofs ----------------------------
(***************************************************************************)
(* Proofs about Registry for every set of connections, players and ids.    *)
(*                                                                         *)
(* The argument: a task past its handshake carries a valid id (HasId); the *)
(* write lock is held by the one task that is registering or leaving       *)
(* (LockHeld); such a task's id has no entry (HolderHasNoEntry), because   *)
(* register_server looks again under the lock; so an entry, once made,     *)
(* stays until its own task takes the lock to remove it (OwnEntry).        *)
(* What connected servers are told of each other, where the routes of      *)
(* player_map lead, and the refinement of Directory follow further below.  *)
(***************************************************************************)
EXTENDS RegistryRefinement, FiniteSetTheorems, TLAPS

\* The tasks that carry the id of their handshake.
Carrying == {"acked", "registering", "loop", "closing", "leaving"}

HasId == \A c \in Conns : pc[c] \in Carrying => sid[c] \in ValidIds

LockHeld ==
    \A c \in Conns : pc[c] \in {"registering", "leaving"} <=> writer = c

HolderHasNoEntry ==
    \A c \in Conns : pc[c] \in {"registering", "leaving"} => servers[sid[c]] = NoConn

TypeInv == TypeOK /\ HasId

\* An entry was made by its connection, which has not unregistered.
EntryOfOwner ==
    \A i \in Ids : servers[i] # NoConn =>
        sid[servers[i]] = i /\ pc[servers[i]] \in {"loop", "closing", "failed"}

EntryInv == TypeInv /\ LockHeld /\ HolderHasNoEntry /\ OwnEntry /\ EntryOfOwner
-----------------------------------------------------------------------------
(***************************************************************************)
(* The connections under other ids are connections.                        *)
(***************************************************************************)
LEMMA OthersAreConns ==
    ASSUME TypeOK, NEW i
    PROVE  Others(i) \subseteq Conns
BY DEF TypeOK, Others, Registered

(***************************************************************************)
(* A valid id is a possible id, so it indexes servers.                     *)
(***************************************************************************)
LEMMA ValidIdsAreIds == ValidIds \subseteq Ids /\ NoServer \notin ValidIds
BY IdsAssumption, SentinelAssumption DEF ValidIds

\* The empty relay, before any socket is accepted, is well typed.
LEMMA TypeInit == Init => TypeInv
BY DEF Init, TypeInv, TypeOK, HasId, States, Ended, Carrying

\* Every step of the accept loop and of the tasks keeps the types.
LEMMA TypeStep == TypeInv /\ [Next]_vars => TypeInv'
<1> SUFFICES ASSUME TypeInv, [Next]_vars PROVE TypeInv'
  OBVIOUS
<1> USE ValidIdsAreIds, RenamesAssumption
<1> USE DEF TypeInv, TypeOK, HasId, States, Ended, Carrying, Goto
<1>1. CASE UNCHANGED vars
  BY <1>1 DEF vars
<1>2. CASE Shutdown
  BY <1>2 DEF Shutdown
<1>3. ASSUME NEW c \in Conns, Accept(c) PROVE TypeInv'
  BY <1>3 DEF Accept
<1>4. ASSUME NEW c \in Conns, HandshakeTimeout(c) PROVE TypeInv'
  BY <1>4 DEF HandshakeTimeout
<1>5. ASSUME NEW c \in Conns, NEW i \in Ids, RejectHandshake(c, i) PROVE TypeInv'
  BY <1>5 DEF RejectHandshake
<1>6. ASSUME NEW c \in Conns, NEW i \in Ids, AcceptHandshake(c, i) PROVE TypeInv'
  BY <1>6 DEF AcceptHandshake
<1>7. ASSUME NEW c \in Conns, RegisterDuplicate(c) PROVE TypeInv'
  BY <1>7 DEF RegisterDuplicate
<1>8. ASSUME NEW c \in Conns, RegisterLock(c) PROVE TypeInv'
  BY <1>8, OthersAreConns DEF RegisterLock
<1>9. ASSUME NEW c \in Conns, NEW d \in Conns, NotifyPeer(c, d) PROVE TypeInv'
  BY <1>9 DEF NotifyPeer
<1>10. ASSUME NEW c \in Conns, RegisterInsert(c) PROVE TypeInv'
  BY <1>10 DEF RegisterInsert
<1>11. ASSUME NEW c \in Conns, NEW p \in Players, PlayerConnect(c, p) PROVE TypeInv'
  BY <1>11 DEF PlayerConnect
<1>12. ASSUME NEW c \in Conns, NEW p \in Players, PlayerDisconnect(c, p) PROVE TypeInv'
  BY <1>12 DEF PlayerDisconnect
<1>13. ASSUME NEW c \in Conns, NEW i \in Renames, Rename(c, i) PROVE TypeInv'
  BY <1>13 DEF Rename
<1>14. ASSUME NEW c \in Conns, PeerCloses(c) PROVE TypeInv'
  BY <1>14 DEF PeerCloses
<1>15. ASSUME NEW c \in Conns, ShutdownSeen(c) PROVE TypeInv'
  BY <1>15 DEF ShutdownSeen
<1>16. ASSUME NEW c \in Conns, ErrorExit(c) PROVE TypeInv'
  BY <1>16 DEF ErrorExit
<1>17. ASSUME NEW c \in Conns, UnregisterLock(c) PROVE TypeInv'
  BY <1>17, OthersAreConns DEF UnregisterLock
<1>18. ASSUME NEW c \in Conns, UnregisterPlayers(c) PROVE TypeInv'
  BY <1>18 DEF UnregisterPlayers
<1> QED
  BY <1>1, <1>2, <1>3, <1>4, <1>5, <1>6, <1>7, <1>8, <1>9, <1>10, <1>11,
     <1>12, <1>13, <1>14, <1>15, <1>16, <1>17, <1>18 DEF Next

(***************************************************************************)
(* The tables, the lock and the tasks keep their types in every run of the *)
(* relay; a task past its handshake carries a valid id.                    *)
(***************************************************************************)
THEOREM TypeCorrect == Spec => []TypeOK
<1>1. TypeInv => TypeOK
  BY DEF TypeInv
<1> QED
  BY TypeInit, TypeStep, <1>1, PTL DEF Spec
-----------------------------------------------------------------------------
\* No task serves and nobody holds the lock in the empty relay.
LEMMA EntryInit == Init => EntryInv
<1> SUFFICES ASSUME Init PROVE EntryInv
  OBVIOUS
<1>1. TypeInv
  BY TypeInit
<1> QED
  BY <1>1, SentinelAssumption
  DEF EntryInv, Init, LockHeld, HolderHasNoEntry, OwnEntry, EntryOfOwner

\* The write lock of servers keeps entries and tasks in step.
LEMMA EntryStep == EntryInv /\ [Next]_vars => EntryInv'
<1> SUFFICES ASSUME EntryInv, [Next]_vars PROVE EntryInv'
  OBVIOUS
<1>0. TypeInv'
  BY TypeStep DEF EntryInv
<1> DEFINE Rest == LockHeld /\ HolderHasNoEntry /\ OwnEntry /\ EntryOfOwner
<1> SUFFICES Rest'
  BY <1>0 DEF EntryInv
<1> USE ValidIdsAreIds, SentinelAssumption
<1> USE DEF EntryInv, TypeInv, TypeOK, HasId, LockHeld, HolderHasNoEntry, OwnEntry,
            EntryOfOwner, Carrying, Goto
<1>1. CASE UNCHANGED vars
  BY <1>1 DEF vars
<1>2. CASE Shutdown
  BY <1>2 DEF Shutdown
<1>3. ASSUME NEW c \in Conns, Accept(c) PROVE Rest'
  BY <1>3 DEF Accept
<1>4. ASSUME NEW c \in Conns, HandshakeTimeout(c) PROVE Rest'
  BY <1>4 DEF HandshakeTimeout
<1>5. ASSUME NEW c \in Conns, NEW i \in Ids, RejectHandshake(c, i) PROVE Rest'
  BY <1>5 DEF RejectHandshake
<1>6. ASSUME NEW c \in Conns, NEW i \in Ids, AcceptHandshake(c, i) PROVE Rest'
  BY <1>6 DEF AcceptHandshake
<1>7. ASSUME NEW c \in Conns, RegisterDuplicate(c) PROVE Rest'
  BY <1>7 DEF RegisterDuplicate
<1>8. ASSUME NEW c \in Conns, RegisterLock(c) PROVE Rest'
  BY <1>8 DEF RegisterLock
<1>9. ASSUME NEW c \in Conns, NEW d \in Conns, NotifyPeer(c, d) PROVE Rest'
  BY <1>9 DEF NotifyPeer
<1>10. ASSUME NEW c \in Conns, RegisterInsert(c) PROVE Rest'
  BY <1>10 DEF RegisterInsert
<1>11. ASSUME NEW c \in Conns, NEW p \in Players, PlayerConnect(c, p) PROVE Rest'
  BY <1>11 DEF PlayerConnect
<1>12. ASSUME NEW c \in Conns, NEW p \in Players, PlayerDisconnect(c, p) PROVE Rest'
  BY <1>12 DEF PlayerDisconnect
<1>13. ASSUME NEW c \in Conns, NEW i \in Renames, Rename(c, i) PROVE Rest'
  BY <1>13 DEF Rename
<1>14. ASSUME NEW c \in Conns, PeerCloses(c) PROVE Rest'
  BY <1>14 DEF PeerCloses
<1>15. ASSUME NEW c \in Conns, ShutdownSeen(c) PROVE Rest'
  BY <1>15 DEF ShutdownSeen
<1>16. ASSUME NEW c \in Conns, ErrorExit(c) PROVE Rest'
  BY <1>16 DEF ErrorExit
<1>17. ASSUME NEW c \in Conns, UnregisterLock(c) PROVE Rest'
  BY <1>17 DEF UnregisterLock
<1>18. ASSUME NEW c \in Conns, UnregisterPlayers(c) PROVE Rest'
  BY <1>18 DEF UnregisterPlayers
<1> QED
  BY <1>1, <1>2, <1>3, <1>4, <1>5, <1>6, <1>7, <1>8, <1>9, <1>10, <1>11,
     <1>12, <1>13, <1>14, <1>15, <1>16, <1>17, <1>18 DEF Next

\* The strengthened ownership invariant holds throughout.
LEMMA EntryInvariant == Spec => []EntryInv
BY EntryInit, EntryStep, PTL DEF Spec

(***************************************************************************)
(* However handshakes race, the task in its loop under an id is the one in *)
(* servers, so unregister_server removes only its caller's own entry.      *)
(***************************************************************************)
THEOREM EntryIsOwn == Spec => []OwnEntry
<1>1. EntryInv => OwnEntry
  BY DEF EntryInv
<1> QED
  BY EntryInvariant, <1>1, PTL
-----------------------------------------------------------------------------
(***************************************************************************)
(* Distinct serving tasks have distinct valid ids, so there are at most    *)
(* max_servers of them, for any number of sockets.                         *)
(***************************************************************************)
THEOREM CapacityRespected == Spec => []WithinCapacity
<1>1. EntryInv => WithinCapacity
  <2> SUFFICES ASSUME EntryInv PROVE WithinCapacity
    OBVIOUS
  <2> DEFINE Serving == {c \in Conns : pc[c] \in {"loop", "closing"}}
  <2> DEFINE idOf == [c \in Serving |-> sid[c]]
  <2>1. \A c \in Serving : sid[c] \in ValidIds /\ servers[sid[c]] = c
    BY DEF EntryInv, TypeInv, HasId, OwnEntry, Carrying
  <2>2. idOf \in Injection(Serving, ValidIds)
    BY <2>1 DEF Injection, IsInjective
  <2>3. IsFiniteSet(ValidIds) /\ Cardinality(ValidIds) = MaxServers
    BY MaxServersAssumption, FS_Interval DEF ValidIds
  <2>4. IsFiniteSet(Serving) /\ Cardinality(Serving) <= Cardinality(ValidIds)
    BY <2>2, <2>3, FS_Injection
  <2> QED
    BY <2>3, <2>4 DEF WithinCapacity
<1> QED
  BY EntryInvariant, <1>1, PTL
-----------------------------------------------------------------------------
(***************************************************************************)
(* What connected servers are told of each other.                          *)
(*                                                                         *)
(* The argument: whoever holds the write lock notifies a fixed set of      *)
(* peers, and no task enters its loop meanwhile.  So at insertion every    *)
(* serving task has been told of the newcomer (Announced), which knows of  *)
(* nobody yet (Fresh), and before a leaver gives the lock back every       *)
(* serving task has been told that it left (Retracted).                    *)
(***************************************************************************)
PeersAreEntries ==
    /\ writer = NoConn => peers = {}
    /\ \A d \in peers : pc[d] \in {"loop", "closing", "failed"}

Fresh ==
    \A c \in Conns :
        pc[c] \in {"idle", "pending", "acked", "registering"} => told[c] = {}

Announced ==
    \A c, d \in Conns :
        pc[c] = "registering" /\ pc[d] = "loop" /\ d \notin peers => sid[c] \in told[d]

Retracted ==
    \A c, d \in Conns :
        pc[c] = "leaving" /\ pc[d] = "loop" /\ sid[c] \in told[d] => d \in peers

NoticeInv ==
    EntryInv /\ PeersAreEntries /\ Fresh /\ Announced /\ Retracted
        /\ OneOfTwoTold /\ NoPhantomPeer
-----------------------------------------------------------------------------
\* In the empty relay nobody has been told of anybody.
LEMMA NoticeInit == Init => NoticeInv
<1> SUFFICES ASSUME Init PROVE NoticeInv
  OBVIOUS
<1>1. EntryInv
  BY EntryInit
<1> QED
  BY <1>1 DEF NoticeInv, Init, PeersAreEntries, Fresh, Announced, Retracted,
              OneOfTwoTold, NoPhantomPeer

\* Both notification loops, under the lock, keep who was told what in step
\* with servers.
LEMMA NoticeStep == NoticeInv /\ [Next]_vars => NoticeInv'
<1> SUFFICES ASSUME NoticeInv, [Next]_vars PROVE NoticeInv'
  OBVIOUS
<1>0. EntryInv'
  BY EntryStep DEF NoticeInv
<1> DEFINE Rest == PeersAreEntries /\ Fresh /\ Announced /\ Retracted
                     /\ OneOfTwoTold /\ NoPhantomPeer
<1> SUFFICES Rest'
  BY <1>0 DEF NoticeInv
<1> USE ValidIdsAreIds, SentinelAssumption
<1> USE DEF NoticeInv, EntryInv, TypeInv, TypeOK, HasId, LockHeld, HolderHasNoEntry,
            OwnEntry, EntryOfOwner, Carrying, Goto, PeersAreEntries, Fresh, Announced,
            Retracted, OneOfTwoTold, NoPhantomPeer
<1>1. CASE UNCHANGED vars
  BY <1>1 DEF vars
<1>2. CASE Shutdown
  BY <1>2 DEF Shutdown
<1>3. ASSUME NEW c \in Conns, Accept(c) PROVE Rest'
  BY <1>3 DEF Accept
<1>4. ASSUME NEW c \in Conns, HandshakeTimeout(c) PROVE Rest'
  BY <1>4 DEF HandshakeTimeout
<1>5. ASSUME NEW c \in Conns, NEW i \in Ids, RejectHandshake(c, i) PROVE Rest'
  BY <1>5 DEF RejectHandshake
<1>6. ASSUME NEW c \in Conns, NEW i \in Ids, AcceptHandshake(c, i) PROVE Rest'
  BY <1>6 DEF AcceptHandshake
<1>7. ASSUME NEW c \in Conns, RegisterDuplicate(c) PROVE Rest'
  BY <1>7 DEF RegisterDuplicate
<1>8. ASSUME NEW c \in Conns, RegisterLock(c) PROVE Rest'
  <2>1. \A d \in Conns : pc[d] = "loop" => d \in Others(sid[c])
    BY <1>8 DEF RegisterLock, Others, Registered
  <2>2. \A d \in Others(sid[c]) : d \in Conns /\ pc[d] \in {"loop", "closing", "failed"}
    BY DEF Others, Registered
  <2> QED
    BY <1>8, <2>1, <2>2 DEF RegisterLock
<1>9. ASSUME NEW c \in Conns, NEW d \in Conns, NotifyPeer(c, d) PROVE Rest'
  <2>1. writer = c /\ servers[sid[c]] = NoConn /\ sid[c] \in Ids /\ d \in peers
    BY <1>9 DEF NotifyPeer
  <2>2. UNCHANGED <<pc, sid, servers, writer>> /\ peers' = peers \ {d}
    BY <1>9 DEF NotifyPeer
  <2>3. \A e \in Conns : pc[e] = "loop" => sid[e] # sid[c]
    BY <2>1
  <2>4. \A e \in Conns : e # d => told'[e] = told[e]
    BY <1>9 DEF NotifyPeer
  <2>5. CASE pc[c] = "registering"
    <3>1. pc[d] = "loop" => told'[d] = told[d] \cup {sid[c]}
      BY <1>9, <2>5 DEF NotifyPeer, Listening
    <3> QED
      BY <2>1, <2>2, <2>3, <2>4, <2>5, <3>1
  <2>6. CASE pc[c] = "leaving"
    <3>1. pc[d] = "loop" => told'[d] = told[d] \ {sid[c]}
      BY <1>9, <2>6 DEF NotifyPeer, Listening
    <3> QED
      BY <2>1, <2>2, <2>3, <2>4, <2>6, <3>1
  <2> QED
    BY <1>9, <2>5, <2>6 DEF NotifyPeer
<1>10. ASSUME NEW c \in Conns, RegisterInsert(c) PROVE Rest'
  BY <1>10 DEF RegisterInsert
<1>11. ASSUME NEW c \in Conns, NEW p \in Players, PlayerConnect(c, p) PROVE Rest'
  BY <1>11 DEF PlayerConnect
<1>12. ASSUME NEW c \in Conns, NEW p \in Players, PlayerDisconnect(c, p) PROVE Rest'
  BY <1>12 DEF PlayerDisconnect
<1>13. ASSUME NEW c \in Conns, NEW i \in Renames, Rename(c, i) PROVE Rest'
  BY <1>13 DEF Rename
<1>14. ASSUME NEW c \in Conns, PeerCloses(c) PROVE Rest'
  BY <1>14 DEF PeerCloses
<1>15. ASSUME NEW c \in Conns, ShutdownSeen(c) PROVE Rest'
  BY <1>15 DEF ShutdownSeen
<1>16. ASSUME NEW c \in Conns, ErrorExit(c) PROVE Rest'
  BY <1>16 DEF ErrorExit
<1>17. ASSUME NEW c \in Conns, UnregisterLock(c) PROVE Rest'
  <2>1. servers[sid[c]] = c /\ sid[c] \in Ids
    BY <1>17 DEF UnregisterLock
  <2>2. \A d \in Conns : pc[d] = "loop" => d \in Others(sid[c])
    BY <1>17, <2>1 DEF UnregisterLock, Others, Registered
  <2>3. \A d \in Others(sid[c]) :
          d \in Conns /\ d # c /\ pc[d] \in {"loop", "closing", "failed"}
    BY <2>1 DEF Others, Registered
  <2>4. peers' = Others(sid[c])
    BY <1>17, <2>1 DEF UnregisterLock
  <2>5. PeersAreEntries' /\ Fresh' /\ Announced' /\ Retracted' /\ OneOfTwoTold'
    BY <1>17, <2>2, <2>3, <2>4 DEF UnregisterLock
  <2>6. NoPhantomPeer'
    BY <1>17, <2>1 DEF UnregisterLock
  <2> QED
    BY <2>5, <2>6
<1>18. ASSUME NEW c \in Conns, UnregisterPlayers(c) PROVE Rest'
  BY <1>18 DEF UnregisterPlayers
<1> QED
  BY <1>1, <1>2, <1>3, <1>4, <1>5, <1>6, <1>7, <1>8, <1>9, <1>10, <1>11,
     <1>12, <1>13, <1>14, <1>15, <1>16, <1>17, <1>18 DEF Next

\* The strengthened notification invariant holds throughout.
LEMMA NoticeInvariant == Spec => []NoticeInv
BY NoticeInit, NoticeStep, PTL DEF Spec

(***************************************************************************)
(* Of two servers in their loops exactly one was told of the other, for    *)
(* any interleaving of registrations, departures and failures.             *)
(***************************************************************************)
THEOREM ExactlyOneTold == Spec => []OneOfTwoTold
<1>1. NoticeInv => OneOfTwoTold
  BY DEF NoticeInv
<1> QED
  BY NoticeInvariant, <1>1, PTL

(***************************************************************************)
(* No connected server believes in a peer whose id has been unregistered.  *)
(***************************************************************************)
THEOREM NoPhantoms == Spec => []NoPhantomPeer
<1>1. NoticeInv => NoPhantomPeer
  BY DEF NoticeInv
<1> QED
  BY NoticeInvariant, <1>1, PTL

-----------------------------------------------------------------------------
(***************************************************************************)
(* player_map, whatever ids plugins adopt while connected.  A route made   *)
(* under the id its maker is registered under leads to a registered server *)
(* when it is made and, since the retain runs before the lock of servers   *)
(* is released, until it is dropped (PlayersRouted).  The history needs    *)
(* only that a maker got into its loop once (MadeBy), so its id is settled.*)
(***************************************************************************)
\* A route was made by a connection that got into its loop.
MadeBy ==
    \A p \in Players :
        playerMap[p] # NoServer =>
            via[p] \in Conns /\ pc[via[p]] \in {"loop", "closing", "leaving", "failed", "closed"}

RouteInv == EntryInv /\ MadeBy /\ PlayersRouted
-----------------------------------------------------------------------------
\* The empty routing table leads nowhere.
LEMMA RouteInit == Init => RouteInv
<1> SUFFICES ASSUME Init PROVE RouteInv
  OBVIOUS
<1>1. EntryInv
  BY EntryInit
<1> QED
  BY <1>1, SentinelAssumption
  DEF RouteInv, Init, MadeBy, PlayersRouted, OwnRoute

\* Every step keeps player_map in step with servers.
LEMMA RouteStep == RouteInv /\ [Next]_vars => RouteInv'
<1> SUFFICES ASSUME RouteInv, [Next]_vars PROVE RouteInv'
  OBVIOUS
<1>0. EntryInv'
  BY EntryStep DEF RouteInv
<1> DEFINE Rest == MadeBy /\ PlayersRouted
<1> SUFFICES Rest'
  BY <1>0 DEF RouteInv
<1> USE ValidIdsAreIds, SentinelAssumption
<1> USE DEF RouteInv, EntryInv, TypeInv, TypeOK, HasId, LockHeld, HolderHasNoEntry,
            OwnEntry, EntryOfOwner, MadeBy, PlayersRouted, OwnRoute, Carrying, Goto
<1>1. CASE UNCHANGED vars
  BY <1>1 DEF vars
<1>2. CASE Shutdown
  BY <1>2 DEF Shutdown
<1>3. ASSUME NEW c \in Conns, Accept(c) PROVE Rest'
  BY <1>3 DEF Accept
<1>4. ASSUME NEW c \in Conns, HandshakeTimeout(c) PROVE Rest'
  BY <1>4 DEF HandshakeTimeout
<1>5. ASSUME NEW c \in Conns, NEW i \in Ids, RejectHandshake(c, i) PROVE Rest'
  BY <1>5 DEF RejectHandshake
<1>6. ASSUME NEW c \in Conns, NEW i \in Ids, AcceptHandshake(c, i) PROVE Rest'
  BY <1>6 DEF AcceptHandshake
<1>7. ASSUME NEW c \in Conns, RegisterDuplicate(c) PROVE Rest'
  BY <1>7 DEF RegisterDuplicate
<1>8. ASSUME NEW c \in Conns, RegisterLock(c) PROVE Rest'
  BY <1>8 DEF RegisterLock
<1>9. ASSUME NEW c \in Conns, NEW d \in Conns, NotifyPeer(c, d) PROVE Rest'
  BY <1>9 DEF NotifyPeer
<1>10. ASSUME NEW c \in Conns, RegisterInsert(c) PROVE Rest'
  BY <1>10 DEF RegisterInsert
<1>11. ASSUME NEW c \in Conns, NEW p \in Players, PlayerConnect(c, p) PROVE Rest'
  BY <1>11 DEF PlayerConnect
<1>12. ASSUME NEW c \in Conns, NEW p \in Players, PlayerDisconnect(c, p) PROVE Rest'
  BY <1>12 DEF PlayerDisconnect
<1>13. ASSUME NEW c \in Conns, NEW i \in Renames, Rename(c, i) PROVE Rest'
  BY <1>13 DEF Rename
<1>14. ASSUME NEW c \in Conns, PeerCloses(c) PROVE Rest'
  BY <1>14 DEF PeerCloses
<1>15. ASSUME NEW c \in Conns, ShutdownSeen(c) PROVE Rest'
  BY <1>15 DEF ShutdownSeen
<1>16. ASSUME NEW c \in Conns, ErrorExit(c) PROVE Rest'
  BY <1>16 DEF ErrorExit
<1>17. ASSUME NEW c \in Conns, UnregisterLock(c) PROVE Rest'
  BY <1>17 DEF UnregisterLock
<1>18. ASSUME NEW c \in Conns, UnregisterPlayers(c) PROVE Rest'
  BY <1>18 DEF UnregisterPlayers
<1> QED
  BY <1>1, <1>2, <1>3, <1>4, <1>5, <1>6, <1>7, <1>8, <1>9, <1>10, <1>11,
     <1>12, <1>13, <1>14, <1>15, <1>16, <1>17, <1>18 DEF Next

\* The strengthened routing invariant holds throughout.
LEMMA RouteInvariant == Spec => []RouteInv
BY RouteInit, RouteStep, PTL DEF Spec

(***************************************************************************)
(* An own route leads to a registered server, or to the one whose task is just  *)
(* between the two halves of unregister_server.                            *)
(***************************************************************************)
THEOREM RoutesLead == Spec => []PlayersRouted
<1>1. RouteInv => PlayersRouted
  BY DEF RouteInv
<1> QED
  BY RouteInvariant, <1>1, PTL
-----------------------------------------------------------------------------
(***************************************************************************)
(* A leaving server takes no route with it that a serving connection made. *)
(***************************************************************************)
THEOREM PurgeIsOwn == Spec => PurgeSparesTheLiving
<1> DEFINE Spares ==
      \A c \in Conns : pc[c] = "leaving" /\ pc'[c] = "closed" =>
          \A p \in Players : playerMap'[p] # playerMap[p] /\ OwnRoute(p) => pc[via[p]] # "loop"
<1>1. RouteInv /\ [Next]_vars => [Spares]_vars
  <2> SUFFICES ASSUME RouteInv, [Next]_vars,
                      NEW c \in Conns, pc[c] = "leaving", pc'[c] = "closed",
                      NEW p \in Players, playerMap'[p] # playerMap[p], OwnRoute(p)
               PROVE  pc[via[p]] # "loop"
    OBVIOUS
  <2>1. /\ playerMap' = [q \in Players |->
                           IF playerMap[q] = sid[c] THEN NoServer ELSE playerMap[q]]
    BY DEF RouteInv, EntryInv, TypeInv, TypeOK, Next, vars, Goto, Shutdown, Accept,
           HandshakeTimeout, RejectHandshake, AcceptHandshake, RegisterDuplicate,
           RegisterLock, NotifyPeer, RegisterInsert, PlayerConnect, PlayerDisconnect,
           Rename, PeerCloses, ShutdownSeen, ErrorExit, UnregisterLock, UnregisterPlayers
  <2>2. playerMap[p] = sid[c] /\ playerMap[p] # NoServer
    BY <2>1 DEF OwnRoute
  <2>3. via[p] \in Conns /\ sid[via[p]] = sid[c]
    BY <2>2 DEF RouteInv, MadeBy, OwnRoute
  <2>4. servers[sid[c]] = NoConn
    BY DEF RouteInv, EntryInv, HolderHasNoEntry
  <2> QED
    BY <2>3, <2>4, SentinelAssumption DEF RouteInv, EntryInv, OwnEntry
<1> QED
  BY RouteInvariant, <1>1, PTL DEF Spec, PurgeSparesTheLiving
-----------------------------------------------------------------------------
\* The empty relay is the empty directory.
LEMMA DirectoryInit == Init => Dir!DirInit
BY DEF Init, Reachable, OwnRoute, Dir!DirInit

\* Every step of the relay is a step of the directory or changes nothing of
\* it: removing an entry is the departure, purging its players is silent.
LEMMA DirectoryStep == RouteInv /\ [Next]_vars => [Dir!DirNext]_(Dir!dirVars)
<1> SUFFICES ASSUME RouteInv, [Next]_vars
             PROVE  [Dir!DirNext]_(Dir!dirVars)
  OBVIOUS
<1> USE ValidIdsAreIds, SentinelAssumption
<1> USE DEF RouteInv, EntryInv, TypeInv, TypeOK, HasId, Carrying, Goto, Reachable, OwnRoute
<1>1. CASE UNCHANGED <<sid, servers, playerMap, via>>
  BY <1>1 DEF Dir!dirVars
<1>2. ASSUME NEW c \in Conns, RegisterInsert(c) PROVE Dir!DirNext
  <2>1. servers[sid[c]] = NoConn /\ sid[c] \in Ids
    BY <1>2 DEF RegisterInsert, HolderHasNoEntry
  <2>2. \A j \in Ids : servers[j] # c
    BY <1>2 DEF RegisterInsert, EntryOfOwner
  <2>3. servers' = [servers EXCEPT ![sid[c]] = c] /\ UNCHANGED playerMap
    BY <1>2 DEF RegisterInsert
  <2>4. \A p \in Players : OwnRoute(p) => playerMap[p] # sid[c]
    <3> SUFFICES ASSUME NEW p \in Players, OwnRoute(p), playerMap[p] = sid[c] PROVE FALSE
      OBVIOUS
    <3>1. writer = c /\ pc[c] = "registering"
      BY <1>2 DEF RegisterInsert, LockHeld
    <3> QED
      BY <2>1, <3>1 DEF PlayersRouted
  <2>5. UNCHANGED Reachable
    BY <1>2, <2>1, <2>3, <2>4 DEF RegisterInsert
  <2>6. Dir!Claim(c, sid[c])
    BY <2>1, <2>2, <2>3, <2>5 DEF Dir!Claim
  <2> QED
    BY <2>1, <2>6, Zenon DEF Dir!DirNext
<1>3. ASSUME NEW c \in Conns, UnregisterLock(c) PROVE Dir!DirNext
  <2>1. servers[sid[c]] # NoConn /\ sid[c] \in Ids
    BY <1>3 DEF UnregisterLock, OwnEntry
  <2>2. servers' = [servers EXCEPT ![sid[c]] = NoConn] /\ UNCHANGED playerMap
    BY <1>3 DEF UnregisterLock
  <2>3. Reachable' = [p \in Players |->
                        IF Reachable[p] = sid[c] THEN NoServer ELSE Reachable[p]]
    BY <1>3, <2>1, <2>2 DEF UnregisterLock
  <2>4. \E i \in Ids : Dir!Release(i)
    BY <2>1, <2>2, <2>3 DEF Dir!Release
  <2> QED
    BY <2>4 DEF Dir!DirNext
<1>4. ASSUME NEW c \in Conns, UnregisterPlayers(c) PROVE UNCHANGED Dir!dirVars
  <2>1. servers[sid[c]] = NoConn
    BY <1>4 DEF UnregisterPlayers, HolderHasNoEntry
  <2> QED
    BY <1>4, <2>1 DEF UnregisterPlayers, Dir!dirVars
<1>5. ASSUME NEW c \in Conns, NEW p \in Players, PlayerConnect(c, p)
      PROVE Dir!DirNext
  <2>1. sid[c] \in Ids /\ servers[sid[c]] # NoConn
    BY <1>5 DEF PlayerConnect, OwnEntry
  <2>2. /\ UNCHANGED <<servers, sid>>
        /\ playerMap' = [playerMap EXCEPT ![p] = hdr[c]]
        /\ via' = [via EXCEPT ![p] = c]
    BY <1>5 DEF PlayerConnect
  <2>3. CASE hdr[c] = sid[c]
    <3>1. Reachable' = [Reachable EXCEPT ![p] = sid[c]]
      BY <2>1, <2>2, <2>3
    <3>2. \E i \in Ids : Dir!Locate(p, i)
      BY <2>1, <2>2, <3>1 DEF Dir!Locate
    <3> QED
      BY <3>2 DEF Dir!DirNext
  \* The header carries an adopted id: the route does not count.
  <2>4. CASE hdr[c] # sid[c]
    <3>1. Reachable' = [Reachable EXCEPT ![p] = NoServer]
      BY <2>2, <2>4
    <3>2. Dir!Forget(p)
      BY <2>2, <3>1 DEF Dir!Forget
    <3> QED
      BY <3>2 DEF Dir!DirNext
  <2> QED
    BY <2>3, <2>4
<1>6. ASSUME NEW c \in Conns, NEW p \in Players, PlayerDisconnect(c, p)
      PROVE Dir!DirNext
  <2>1. UNCHANGED servers /\ playerMap' = [playerMap EXCEPT ![p] = NoServer]
    BY <1>6 DEF PlayerDisconnect
  <2>2. Reachable' = [Reachable EXCEPT ![p] = NoServer]
    BY <1>6, <2>1 DEF PlayerDisconnect
  <2>3. Dir!Forget(p)
    BY <2>1, <2>2 DEF Dir!Forget
  <2> QED
    BY <2>3 DEF Dir!DirNext
<1>7. CASE \/ Shutdown
           \/ \E c \in Conns :
                \/ Accept(c) \/ HandshakeTimeout(c)
                \/ \E i \in Ids : RejectHandshake(c, i)
                \/ RegisterDuplicate(c) \/ RegisterLock(c)
                \/ \E d \in Conns : NotifyPeer(c, d)
                \/ \E i \in Renames : Rename(c, i)
                \/ PeerCloses(c) \/ ShutdownSeen(c) \/ ErrorExit(c)
  BY <1>1, <1>7 DEF Shutdown, Accept, HandshakeTimeout, RejectHandshake,
     RegisterDuplicate, RegisterLock, NotifyPeer, Rename, PeerCloses, ShutdownSeen, ErrorExit
<1>8. CASE UNCHANGED vars
  BY <1>1, <1>8 DEF vars
\* The id of a handshake is set before its connection makes a route.
<1>9. ASSUME NEW c \in Conns, NEW i \in Ids, AcceptHandshake(c, i)
      PROVE  UNCHANGED Dir!dirVars
  <2>1. \A p \in Players : playerMap[p] # NoServer => via[p] # c
    BY <1>9 DEF AcceptHandshake, MadeBy
  <2>2. UNCHANGED <<servers, playerMap, via>> /\ sid' = [sid EXCEPT ![c] = i]
    BY <1>9 DEF AcceptHandshake
  <2>3. \A p \in Players : playerMap[p] # NoServer => sid'[via[p]] = sid[via[p]]
    BY <2>1, <2>2
  <2> QED
    BY <2>2, <2>3 DEF Dir!dirVars
<1> QED
  BY <1>2, <1>3, <1>4, <1>5, <1>6, <1>7, <1>8, <1>9 DEF Next

(***************************************************************************)
(* The relay's tables, with their tasks, locks and windows, implement the  *)
(* atomic directory.                                                       *)
(***************************************************************************)
THEOREM RelayImplementsDirectory == Spec => ImplementsDirectory
BY RouteInvariant, DirectoryInit, DirectoryStep, PTL
DEF Spec, ImplementsDirectory, Dir!DirSpec
=============================================================================
