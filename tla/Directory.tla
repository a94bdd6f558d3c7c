----------------------------- MODULE Directory ------------------------------
(***************************************************************************)
(* What the relay promises of its two tables, with no task, lock or window *)
(* between them: a directory of the servers and of the players reachable   *)
(* through them.  Claiming an id, and releasing it together with every     *)
(* route through it, are single steps.  Registry implements it.            *)
(***************************************************************************)
CONSTANTS Conns, Players, Ids, NoConn, NoServer

VARIABLES
    owner,  \* owner[i]: the connection that serves id i
    route   \* route[p]: the server through which p is reached

dirVars == <<owner, route>>

DirInit ==
    /\ owner = [i \in Ids |-> NoConn]
    /\ route = [p \in Players |-> NoServer]

Claim(c, i) ==
    /\ owner[i] = NoConn
    /\ \A j \in Ids : owner[j] # c
    /\ owner' = [owner EXCEPT ![i] = c]
    /\ UNCHANGED route

Release(i) ==
    /\ owner[i] # NoConn
    /\ owner' = [owner EXCEPT ![i] = NoConn]
    /\ route' = [p \in Players |-> IF route[p] = i THEN NoServer ELSE route[p]]

Locate(p, i) ==
    /\ owner[i] # NoConn
    /\ route' = [route EXCEPT ![p] = i]
    /\ UNCHANGED owner

Forget(p) ==
    /\ route' = [route EXCEPT ![p] = NoServer]
    /\ UNCHANGED owner

DirNext ==
    \/ \E c \in Conns, i \in Ids : Claim(c, i)
    \/ \E i \in Ids : Release(i)
    \/ \E p \in Players, i \in Ids : Locate(p, i)
    \/ \E p \in Players : Forget(p)

DirSpec == DirInit /\ [][DirNext]_dirVars
=============================================================================
