------------------------- MODULE RegistryRefinement --------------------------
(***************************************************************************)
(* Registry implements Directory.  The owner of an id is its entry in      *)
(* servers.  The route of a player is its entry in player_map as far as it *)
(* can be followed: get_player_server then send_to_server, which is an     *)
(* error for an id that is not registered.  A route made under an id that  *)
(* is not its maker's leads to somebody else or nowhere: the directory     *)
(* promises nothing about it.  Under this mapping the removal from servers *)
(* releases id and routes at once, and the retain over player_map that     *)
(* follows it under the same lock is invisible.                            *)
(***************************************************************************)
EXTENDS Registry

Reachable ==
    [p \in Players |->
        IF OwnRoute(p) /\ servers[playerMap[p]] # NoConn
        THEN playerMap[p] ELSE NoServer]

Dir == INSTANCE Directory WITH owner <- servers, route <- Reachable

(***************************************************************************)
(* Every step of the relay's tables is a step of the directory or hidden:  *)
(* the two locks and the window between the tables cannot be told from one *)
(* atomic table.                                                           *)
(***************************************************************************)
ImplementsDirectory == Dir!DirSpec
=============================================================================
