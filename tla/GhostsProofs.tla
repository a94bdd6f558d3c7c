---------------------------- MODULE GhostsProofs ----------------------------
(***************************************************************************)
(* Proofs about Ghosts for any players, servers, client indexes, sizes of  *)
(* the table and lengths of the timeout.                                   *)
(*                                                                         *)
(* The argument: a slot is filled only for a Steam id that no slot has     *)
(* (Unique), and it is the id of the player whose packet filled the slot   *)
(* unless that packet was misread (Owned).  As long as nobody else kicks a *)
(* fake client, the clients the slots remember are exactly the bots, each  *)
(* remembered once (Bodies): a slot gets a free index that becomes a bot   *)
(* in the same callback, and gives it up only together with the bot.  So   *)
(* whoever is kicked, moved or respawned for a slot is a bot.              *)
(***************************************************************************)
EXTENDS Ghosts, FiniteSetTheorems, SequenceTheorems, TLAPS

GhostType ==
    [active : BOOLEAN, steamId : SteamIds \cup {NoPlayer}, of : Players \cup {NoPlayer},
     server : Servers \cup {Relay}, client : Clients \cup {NoClient}, age : 0..Timeout]

Packets ==
    [type : {"sync", "spawn", "disconnect"}, player : Players]
        \cup [type : {"server_disconnect"}, player : {NoPlayer}]

WireInv == wire \in [Servers -> Seq(Packets)]

\* The parts of TypeOK that the plugin's callbacks change.
TableInv ==
    /\ size \in Sizes
    /\ ghosts \in [Slots -> GhostType]
    /\ clients \in [Clients -> {"free", "bot", "human"}]
    /\ \A s \in Active : /\ ghosts[s].steamId \in SteamIds /\ ghosts[s].of \in Players
                         /\ ghosts[s].server \in Servers
    /\ count = Cardinality(Active)

Unique == \A s, t \in Active : ghosts[s].steamId = ghosts[t].steamId => s = t

Owned == \A s \in Active : ghosts[s].of \notin misread => ghosts[s].steamId = ghosts[s].of

BodiesAreBots ==
    \A s \in Active : ghosts[s].client # NoClient => clients[ghosts[s].client] = "bot"

BodiesDiffer ==
    \A s, t \in Active :
        ghosts[s].client # NoClient /\ ghosts[s].client = ghosts[t].client => s = t

BotsHaveSlots ==
    \A c \in Clients : clients[c] = "bot" => \E s \in Active : ghosts[s].client = c

Bodies == ~kicked => BodiesAreBots /\ BodiesDiffer /\ BotsHaveSlots

Flags ==
    /\ cast \in Casts /\ misread \subseteq Players
    /\ where \in [Players -> Servers \cup {Away}]
    /\ enabled \in BOOLEAN /\ kicked \in BOOLEAN /\ wronged \in BOOLEAN

GhostInv == TableInv /\ Unique /\ Owned /\ Bodies /\ HumansSpared

Inv == WireInv /\ Flags /\ GhostInv
-----------------------------------------------------------------------------
\* A slot that is not in use.
LEMMA EmptyIsTyped == Empty \in GhostType /\ ~Empty.active
BY GhostsAssumption DEF Empty, GhostType

\* There are finitely many slots, so finitely many in use.
LEMMA ActiveIsFinite ==
    ASSUME size \in Sizes
    PROVE  IsFiniteSet(Active) /\ Cardinality(Active) \in Nat
<1>1. size \in Int /\ 1 \in Int
  BY GhostsAssumption
<1>2. IsFiniteSet(Slots)
  BY <1>1, FS_Interval DEF Slots
<1>3. Active \in SUBSET Slots
  BY DEF Active
<1> QED
  BY <1>2, <1>3, FS_Subset, FS_CardinalityType

(***************************************************************************)
(* Freeing slots together with their clients: RemoveGhost, and OnGameFrame *)
(* for those that time out, while the others may grow older.               *)
(***************************************************************************)
LEMMA SlotsFreed ==
    ASSUME GhostInv, NEW slots \in SUBSET Active,
           UNCHANGED <<size, kicked>>, misread \subseteq misread',
           ghosts' \in [Slots -> GhostType],
           \A s \in slots : ~ghosts'[s].active,
           \A s \in Slots \ slots :
              /\ ghosts'[s].active = ghosts[s].active
              /\ ghosts'[s].steamId = ghosts[s].steamId
              /\ ghosts'[s].of = ghosts[s].of
              /\ ghosts'[s].server = ghosts[s].server
              /\ ghosts'[s].client = ghosts[s].client,
           clients' = [c \in Clients |-> IF c \in KickedBy(slots) THEN "free" ELSE clients[c]],
           count' = count - Cardinality(slots)
    PROVE  TableInv' /\ Unique' /\ Owned' /\ Bodies'
<1> USE GhostsAssumption DEF GhostInv, TableInv
<1>1. Slots' = Slots /\ Active' = Active \ slots
  BY DEF Slots, Active
<1>2. count' = Cardinality(Active')
  <2>1. IsFiniteSet(Active) /\ IsFiniteSet(slots)
    BY ActiveIsFinite, FS_Subset
  <2>2. /\ Cardinality(Active \ slots) = Cardinality(Active) - Cardinality(Active \cap slots)
    BY <2>1, FS_Difference
  <2>3. Active \cap slots = slots
    OBVIOUS
  <2> QED
    BY <1>1, <2>2, <2>3
<1>3. clients' \in [Clients -> {"free", "bot", "human"}]
  OBVIOUS
<1>4. \A s \in Active' : /\ s \in Active /\ s \in Slots \ slots
                         /\ ghosts'[s].steamId = ghosts[s].steamId
                         /\ ghosts'[s].of = ghosts[s].of
                         /\ ghosts'[s].server = ghosts[s].server
                         /\ ghosts'[s].client = ghosts[s].client
  BY <1>1 DEF Active
<1>5. TableInv'
  BY <1>1, <1>2, <1>3, <1>4
<1>6. Unique' /\ Owned'
  BY <1>4 DEF Unique, Owned
<1>7. ASSUME ~kicked PROVE BodiesAreBots'
  <2> SUFFICES ASSUME NEW s \in Active', ghosts'[s].client # NoClient
               PROVE  clients'[ghosts'[s].client] = "bot"
    BY DEF BodiesAreBots
  <2>1. clients[ghosts[s].client] = "bot" /\ ghosts[s].client \in Clients
    BY <1>4, <1>7 DEF Bodies, BodiesAreBots, GhostType
  <2>2. ghosts[s].client \notin KickedBy(slots)
    BY <1>1, <1>4, <1>7 DEF KickedBy, Bodies, BodiesDiffer
  <2> QED
    BY <1>4, <2>1, <2>2
<1>8. ASSUME ~kicked PROVE BodiesDiffer'
  BY <1>4, <1>8 DEF Bodies, BodiesDiffer
<1>9. ASSUME ~kicked PROVE BotsHaveSlots'
  <2> SUFFICES ASSUME NEW c \in Clients, clients'[c] = "bot"
               PROVE  \E s \in Active' : ghosts'[s].client = c
    BY DEF BotsHaveSlots
  <2>1. clients[c] = "bot" /\ c \notin KickedBy(slots)
    OBVIOUS
  <2>2. PICK s \in Active : ghosts[s].client = c
    BY <2>1, <1>9 DEF Bodies, BotsHaveSlots
  <2>3. s \notin slots
    BY <2>1, <2>2 DEF KickedBy
  <2> QED
    BY <1>1, <1>4, <2>2, <2>3
<1> QED
  BY <1>5, <1>6, <1>7, <1>8, <1>9 DEF Bodies

(***************************************************************************)
(* Giving a slot a ghost and a free client, if there is one: CreateGhost,  *)
(* and UpdateGhostPosition for a slot whose body is gone.                  *)
(***************************************************************************)
LEMMA SlotFilled ==
    ASSUME GhostInv, NEW s \in Slots, NEW ghost \in GhostType, NEW c \in Clients \cup {NoClient},
           ghost.active, ghost.steamId \in SteamIds, ghost.of \in Players,
           ghost.server \in Servers,
           \A t \in Active \ {s} : ghosts[t].steamId # ghost.steamId,
           ghost.of \notin misread' => ghost.steamId = ghost.of,
           c # NoClient => clients[c] = "free",
           s \in Active /\ ghosts[s].client # NoClient => clients[ghosts[s].client] = "free",
           UNCHANGED <<size, kicked>>, misread \subseteq misread',
           ghosts' = [ghosts EXCEPT ![s] = [ghost EXCEPT !.client = c]],
           clients' = IF c = NoClient THEN clients ELSE [clients EXCEPT ![c] = "bot"],
           count' = IF s \in Active THEN count ELSE count + 1
    PROVE  TableInv' /\ Unique' /\ Owned' /\ Bodies'
<1> USE GhostsAssumption DEF GhostInv, TableInv
<1> DEFINE filled == [ghost EXCEPT !.client = c]
<1>1. /\ filled \in GhostType /\ filled.active /\ filled.steamId = ghost.steamId
      /\ filled.of = ghost.of /\ filled.server = ghost.server /\ filled.client = c
  BY DEF GhostType
<1> HIDE DEF filled
<1>2. /\ ghosts' \in [Slots -> GhostType] /\ ghosts'[s] = filled
      /\ \A t \in Slots \ {s} : ghosts'[t] = ghosts[t]
  BY <1>1 DEF filled
<1>3. Slots' = Slots /\ Active' = Active \cup {s}
  BY <1>1, <1>2 DEF Slots, Active
<1>4. count' = Cardinality(Active')
  BY <1>3, ActiveIsFinite, FS_AddElement
<1>5. clients' \in [Clients -> {"free", "bot", "human"}]
  OBVIOUS
<1>6. \A t \in Active' : t = s \/ (t \in Active /\ t # s /\ ghosts'[t] = ghosts[t])
  <2> TAKE t \in Active'
  <2>1. t = s \/ (t \in Active /\ t \in Slots)
    BY <1>3, Zenon DEF Active
  <2>2. t \in Slots /\ t # s => ghosts'[t] = ghosts[t]
    BY <1>2
  <2>3. CASE t = s
    BY <2>3
  <2>4. CASE t # s
    BY <2>1, <2>2, <2>4
  <2> QED
    BY <2>3, <2>4
<1>7. TableInv'
  BY <1>1, <1>2, <1>3, <1>4, <1>5, <1>6
<1>8. Unique' /\ Owned'
  BY <1>1, <1>2, <1>6 DEF Unique, Owned
<1>9. ASSUME ~kicked PROVE s \in Active => ghosts[s].client = NoClient
  BY <1>9 DEF Bodies, BodiesAreBots
<1>10. ASSUME ~kicked, NEW t \in Active, t # s, ghosts[t].client # NoClient
       PROVE  /\ ghosts[t].client \in Clients /\ ghosts[t].client # c
              /\ clients[ghosts[t].client] = "bot" /\ clients'[ghosts[t].client] = "bot"
  <2>1. t \in Slots /\ ghosts[t] \in GhostType
    BY DEF Active
  <2>2. ghosts[t].client \in Clients
    BY <1>10, <2>1 DEF GhostType
  <2>3. clients[ghosts[t].client] = "bot"
    BY <1>10 DEF Bodies, BodiesAreBots
  <2> QED
    BY <2>2, <2>3
<1>11. ASSUME ~kicked PROVE BodiesAreBots'
  BY <1>1, <1>2, <1>6, <1>10, <1>11 DEF BodiesAreBots
<1>12. ASSUME ~kicked PROVE BodiesDiffer'
  <2> SUFFICES ASSUME NEW t \in Active', NEW u \in Active',
                      ghosts'[t].client # NoClient, ghosts'[t].client = ghosts'[u].client
               PROVE  t = u
    BY DEF BodiesDiffer
  <2>1. CASE t = s /\ u # s
    BY <1>1, <1>2, <1>6, <1>10, <1>12, <2>1
  <2>2. CASE t # s /\ u = s
    BY <1>1, <1>2, <1>6, <1>10, <1>12, <2>2
  <2>3. CASE t # s /\ u # s
    BY <1>6, <1>12, <2>3 DEF Bodies, BodiesDiffer
  <2> QED
    BY <2>1, <2>2, <2>3
<1>13. ASSUME ~kicked PROVE BotsHaveSlots'
  <2> SUFFICES ASSUME NEW d \in Clients, clients'[d] = "bot"
               PROVE  \E t \in Active' : ghosts'[t].client = d
    BY DEF BotsHaveSlots
  <2>1. CASE d = c
    BY <1>1, <1>2, <1>3, <2>1
  <2>2. CASE d # c
    <3>1. clients[d] = "bot"
      BY <2>2
    <3>2. PICK t \in Active : ghosts[t].client = d
      BY <1>13, <3>1 DEF Bodies, BotsHaveSlots
    <3>3. t # s
      BY <1>9, <1>13, <3>2
    <3> QED
      BY <1>3, <1>6, <3>2, <3>3
  <2> QED
    BY <2>1, <2>2
<1> QED
  BY <1>7, <1>8, <1>11, <1>12, <1>13 DEF Bodies
-----------------------------------------------------------------------------
\* RemoveGhost of slots in use.
LEMMA RemoveStep ==
    ASSUME GhostInv, NEW slots \in SUBSET Active, Remove(slots), UNCHANGED <<size, kicked>>,
           misread \subseteq misread'
    PROVE  GhostInv' /\ (wronged \in BOOLEAN => wronged' \in BOOLEAN)
<1> USE GhostsAssumption DEF GhostInv, TableInv
<1>1. /\ ghosts' \in [Slots -> GhostType]
      /\ \A s \in slots : ~ghosts'[s].active
      /\ \A s \in Slots \ slots : ghosts'[s] = ghosts[s]
  <2>1. slots \subseteq Slots
    BY DEF Active
  <2>2. ghosts' = [s \in Slots |-> IF s \in slots THEN Empty ELSE ghosts[s]]
    BY DEF Remove
  <2> QED
    BY <2>1, <2>2, EmptyIsTyped
<1>2. TableInv' /\ Unique' /\ Owned' /\ Bodies'
  <2>1. /\ clients' = [c \in Clients |-> IF c \in KickedBy(slots) THEN "free" ELSE clients[c]]
        /\ count' = count - Cardinality(slots)
    BY DEF Remove
  <2> QED
    BY <1>1, <2>1, SlotsFreed
<1>3. HumansSpared'
  <2>1. ASSUME ~kicked, NEW c \in KickedBy(slots) PROVE clients[c] # "human"
    BY <2>1 DEF KickedBy, Bodies, BodiesAreBots
  <2>2. wronged' => wronged \/ \E c \in KickedBy(slots) : clients[c] = "human"
    BY Zenon DEF Remove
  <2> QED
    BY <2>1, <2>2 DEF HumansSpared
<1>4. wronged \in BOOLEAN => wronged' \in BOOLEAN
  BY Zenon DEF Remove
<1> QED
  BY <1>2, <1>3, <1>4

\* A new ghost, in a free slot, under a Steam id that no ghost has.
LEMMA CreateStep ==
    ASSUME GhostInv, NEW p \in Players, NEW i \in SteamIds, NEW v \in Servers,
           NEW s \in FreeSlots, FindGhostBySteamId(i) = {}, CreateGhost(s, p, i, v),
           UNCHANGED <<size, kicked, wronged>>, misread \subseteq misread', i = p \/ p \in misread'
    PROVE  GhostInv'
<1> USE GhostsAssumption DEF GhostInv, TableInv
<1> DEFINE ghost == [active |-> TRUE, steamId |-> i, of |-> p, server |-> v,
                     client |-> NoClient, age |-> 0]
<1>1. /\ ghost \in GhostType /\ ghost.active /\ ghost.steamId = i /\ ghost.of = p
      /\ ghost.server = v
  BY DEF GhostType
<1>2. s \in Slots /\ s \notin Active /\ count' = count + 1
  BY DEF FreeSlots, CreateGhost
<1>3. \A t \in Active : ghosts[t].steamId # i
  BY DEF FindGhostBySteamId
<1>4. PICK c \in Clients \cup {NoClient} :
        /\ c # NoClient => clients[c] = "free"
        /\ ghosts' = [ghosts EXCEPT ![s] = [ghost EXCEPT !.client = c]]
        /\ clients' = IF c = NoClient THEN clients ELSE [clients EXCEPT ![c] = "bot"]
  BY DEF CreateGhost, CreateGhostEntity, FreeClients
<1> HIDE DEF ghost
<1>5. TableInv' /\ Unique' /\ Owned' /\ Bodies'
  BY <1>1, <1>2, <1>3, <1>4, SlotFilled
<1> QED
  BY <1>5 DEF HumansSpared

\* A sync with the Steam id of a ghost.
LEMMA UpdateStep ==
    ASSUME GhostInv, NEW s \in Active, UpdateGhost(s), UNCHANGED <<size, kicked>>,
           misread \subseteq misread'
    PROVE  GhostInv' /\ (wronged \in BOOLEAN => wronged' \in BOOLEAN)
<1> USE GhostsAssumption DEF GhostInv, TableInv
<1> DEFINE ghost == [ghosts[s] EXCEPT !.age = 0]
<1>1. s \in Slots /\ ghosts[s].active /\ ghosts[s] \in GhostType
  BY DEF Active
<1>2. /\ ghost \in GhostType /\ ghost.active /\ ghost.steamId = ghosts[s].steamId
      /\ ghost.of = ghosts[s].of
      /\ ghost.server = ghosts[s].server /\ ghost.client = ghosts[s].client
  BY <1>1 DEF GhostType
<1>3. ASSUME InGame(ghost.client) PROVE TableInv' /\ Unique' /\ Owned' /\ Bodies'
  <2>1. ghosts' = [ghosts EXCEPT ![s] = ghost] /\ UNCHANGED <<clients, count>>
    BY <1>3 DEF UpdateGhost
  <2> HIDE DEF ghost
  <2>2. /\ ghosts' \in [Slots -> GhostType]
        /\ \A t \in Slots : /\ ghosts'[t].active = ghosts[t].active
                            /\ ghosts'[t].steamId = ghosts[t].steamId
                            /\ ghosts'[t].of = ghosts[t].of
                            /\ ghosts'[t].server = ghosts[t].server
                            /\ ghosts'[t].client = ghosts[t].client
    BY <1>1, <1>2, <2>1
  <2>3. Slots' = Slots /\ Active' = Active
    BY <2>2 DEF Slots, Active
  <2>4. TableInv'
    BY <2>1, <2>2, <2>3 DEF Active
  <2>5. Unique' /\ Owned'
    BY <2>2, <2>3 DEF Unique, Owned, Active
  <2>6. Bodies'
    BY <2>1, <2>2, <2>3 DEF Bodies, BodiesAreBots, BodiesDiffer, BotsHaveSlots, Active
  <2> QED
    BY <2>4, <2>5, <2>6
<1>4. ASSUME ~InGame(ghost.client) PROVE TableInv' /\ Unique' /\ Owned' /\ Bodies'
  <2>1. CreateGhostEntity(s, ghost) /\ count' = count
    BY <1>4 DEF UpdateGhost
  <2>2. ghosts[s].client # NoClient => clients[ghosts[s].client] = "free"
    BY <1>2, <1>4 DEF InGame
  <2> HIDE DEF ghost
  <2>3. PICK c \in Clients \cup {NoClient} :
          /\ c # NoClient => clients[c] = "free"
          /\ ghosts' = [ghosts EXCEPT ![s] = [ghost EXCEPT !.client = c]]
          /\ clients' = IF c = NoClient THEN clients ELSE [clients EXCEPT ![c] = "bot"]
    BY <2>1 DEF CreateGhostEntity, FreeClients
  <2>4. \A t \in Active \ {s} : ghosts[t].steamId # ghost.steamId
    BY <1>2 DEF Unique
  <2>5. /\ ghost.steamId \in SteamIds /\ ghost.of \in Players /\ ghost.server \in Servers
        /\ ghost.of \notin misread' => ghost.steamId = ghost.of
    BY <1>2 DEF Owned
  <2>6. TableInv' /\ Unique' /\ Owned' /\ Bodies'
    BY <1>1, <1>2, <2>1, <2>2, <2>3, <2>4, <2>5, SlotFilled
  <2> QED
    BY <2>6
<1>5. HumansSpared'
  <2>1. ~kicked => ~Wrongs(s)
    BY DEF Wrongs, Bodies, BodiesAreBots
  <2>2. wronged' => wronged \/ Wrongs(s)
    BY Zenon DEF UpdateGhost
  <2> QED
    BY <2>1, <2>2 DEF HumansSpared
<1>6. wronged \in BOOLEAN => wronged' \in BOOLEAN
  BY Zenon DEF UpdateGhost
<1> QED
  BY <1>3, <1>4, <1>5, <1>6

\* No ghost is made or updated.
LEMMA NoGhostStep ==
    ASSUME GhostInv, NoGhost, UNCHANGED <<size, kicked>>, misread \subseteq misread'
    PROVE  GhostInv'
BY DEF NoGhost, GhostInv, TableInv, Unique, Owned, Bodies, BodiesAreBots, BodiesDiffer,
       BotsHaveSlots, HumansSpared, Active, Slots

\* PLAYER_SYNC and GHOST_SPAWN about p, with whatever Steam id is read in them.
LEMMA SyncStep ==
    ASSUME GhostInv, NEW p \in Players, NEW i \in SteamIds, NEW v \in Servers,
           UNCHANGED <<size, kicked>>, misread \subseteq misread', i = p \/ p \in misread',
           ProcessRemotePlayerSync(p, i, v) \/ ProcessRemoteGhostSpawn(p, i, v)
    PROVE  GhostInv' /\ (wronged \in BOOLEAN => wronged' \in BOOLEAN)
<1> DEFINE Goal == GhostInv' /\ (wronged \in BOOLEAN => wronged' \in BOOLEAN)
<1>1. ASSUME NEW s \in FindGhostBySteamId(i), UpdateGhost(s) PROVE Goal
  <2>1. s \in Active
    BY DEF FindGhostBySteamId
  <2> QED
    BY <1>1, <2>1, UpdateStep
<1>2. ASSUME NEW s \in FreeSlots, FindGhostBySteamId(i) = {}, CreateGhost(s, p, i, v),
             UNCHANGED wronged
      PROVE  Goal
  BY <1>2, CreateStep
<1>3. CASE NoGhost
  BY <1>3, NoGhostStep DEF NoGhost
<1>4. ASSUME FindGhostBySteamId(i) = {}, NewGhost(p, i, v) PROVE Goal
  BY <1>2, <1>3, <1>4 DEF NewGhost
<1>5. CASE ProcessRemotePlayerSync(p, i, v)
  BY <1>1, <1>4, <1>5 DEF ProcessRemotePlayerSync
<1>6. CASE ProcessRemoteGhostSpawn(p, i, v)
  BY <1>3, <1>4, <1>6 DEF ProcessRemoteGhostSpawn
<1> QED
  BY <1>5, <1>6

\* A frame: what times out is freed, the rest grows older.
LEMMA FrameStep ==
    ASSUME GhostInv, OnGameFrame
    PROVE  GhostInv' /\ (wronged \in BOOLEAN => wronged' \in BOOLEAN)
<1> USE GhostsAssumption
<1>1. TimedOut \in SUBSET Active /\ \A s \in TimedOut : s \in Slots
  BY DEF TimedOut, Active
<1>2. \A s \in Active : s \in Slots /\ ghosts[s] \in GhostType
  BY DEF GhostInv, TableInv, Active
<1>3. ASSUME NEW s \in Active \ TimedOut
      PROVE  LET older == [ghosts[s] EXCEPT !.age = @ + 1]
             IN  /\ older \in GhostType /\ older.active = ghosts[s].active
                 /\ older.steamId = ghosts[s].steamId /\ older.of = ghosts[s].of
                 /\ older.server = ghosts[s].server /\ older.client = ghosts[s].client
  <2>1. ghosts[s] \in GhostType /\ ~(ghosts[s].age >= Timeout)
    BY <1>2 DEF TimedOut
  <2>2. ghosts[s].age + 1 \in 0..Timeout
    BY <2>1 DEF GhostType
  <2> QED
    BY <2>1, <2>2 DEF GhostType
<1>4. ghosts' = [s \in Slots |->
                    IF s \in TimedOut THEN Empty
                    ELSE IF s \in Active THEN [ghosts[s] EXCEPT !.age = @ + 1]
                    ELSE ghosts[s]]
  BY DEF OnGameFrame
<1>5. /\ ghosts' \in [Slots -> GhostType]
      /\ \A s \in TimedOut : ~ghosts'[s].active
      /\ \A s \in Slots \ TimedOut :
            /\ ghosts'[s].active = ghosts[s].active
            /\ ghosts'[s].steamId = ghosts[s].steamId
            /\ ghosts'[s].of = ghosts[s].of
            /\ ghosts'[s].server = ghosts[s].server
            /\ ghosts'[s].client = ghosts[s].client
  <2>1. \A s \in TimedOut : ghosts'[s] = Empty
    BY <1>1, <1>4
  <2>2. \A s \in Slots \ Active : ghosts'[s] = ghosts[s] /\ ghosts[s] \in GhostType
    BY <1>1, <1>4 DEF GhostInv, TableInv
  <2>3. \A s \in Active \ TimedOut : ghosts'[s] = [ghosts[s] EXCEPT !.age = @ + 1]
    BY <1>2, <1>4
  <2>4. \A s \in Slots : ghosts'[s] \in GhostType
    <3> TAKE s \in Slots
    <3>1. CASE s \in TimedOut
      BY <2>1, <3>1, EmptyIsTyped
    <3>2. CASE s \in Active \ TimedOut
      BY <1>3, <2>3, <3>2
    <3>3. CASE s \notin Active
      BY <2>2, <3>3
    <3> QED
      BY <3>1, <3>2, <3>3
  <2>5. ghosts' \in [Slots -> GhostType]
    BY <1>4, <2>4
  <2> QED
    BY <1>3, <2>1, <2>2, <2>3, <2>5, EmptyIsTyped
<1>6. TableInv' /\ Unique' /\ Owned' /\ Bodies'
  <2>1. /\ clients' = [c \in Clients |-> IF c \in KickedBy(TimedOut) THEN "free" ELSE clients[c]]
        /\ count' = count - Cardinality(TimedOut) /\ UNCHANGED <<size, kicked, misread>>
    BY DEF OnGameFrame
  <2> QED
    BY <1>1, <1>5, <2>1, SlotsFreed
<1>7. HumansSpared'
  <2>1. ASSUME ~kicked, NEW s \in Active PROVE ~Wrongs(s)
    BY <2>1 DEF GhostInv, Bodies, BodiesAreBots, Wrongs
  <2>2. wronged' => wronged \/ \E s \in Active : Wrongs(s)
    BY Zenon DEF OnGameFrame
  <2>3. kicked' = kicked
    BY DEF OnGameFrame
  <2> QED
    BY <2>1, <2>2, <2>3 DEF GhostInv, HumansSpared
<1>8. wronged \in BOOLEAN => wronged' \in BOOLEAN
  BY Zenon DEF OnGameFrame
<1> QED
  BY <1>6, <1>7, <1>8 DEF GhostInv

\* Players of this server come and go, and the game may kick a bot.
LEMMA OccupyStep ==
    ASSUME GhostInv, NEW c \in Clients, LocalJoin(c) \/ LocalLeave(c) \/ BotKicked(c)
    PROVE  GhostInv' /\ (kicked \in BOOLEAN => kicked' \in BOOLEAN)
<1> USE GhostsAssumption DEF GhostInv
<1>1. /\ UNCHANGED <<size, ghosts, count, wronged, misread>>
      /\ clients' \in [Clients -> {"free", "bot", "human"}]
  BY DEF LocalJoin, LocalLeave, BotKicked, Occupy, TableInv
<1>2. TableInv' /\ Unique' /\ Owned' /\ Active' = Active
  BY <1>1 DEF TableInv, Unique, Owned, Active, Slots
<1>3. kicked => kicked'
  BY Zenon DEF LocalJoin, LocalLeave, BotKicked, Occupy
<1>4. ASSUME ~kicked' PROVE \A d \in Clients : clients'[d] = "bot" <=> clients[d] = "bot"
  <2>1. CASE BotKicked(c)
    BY <1>4, <2>1, Zenon DEF BotKicked, Occupy
  <2>2. CASE LocalJoin(c) \/ LocalLeave(c)
    BY <2>2 DEF LocalJoin, LocalLeave, Occupy, TableInv
  <2> QED
    BY <2>1, <2>2
<1>5. Bodies'
  <2> SUFFICES ASSUME ~kicked' PROVE BodiesAreBots' /\ BodiesDiffer' /\ BotsHaveSlots'
    BY DEF Bodies
  <2>1. BodiesAreBots /\ BodiesDiffer /\ BotsHaveSlots
    BY <1>3 DEF Bodies
  <2>2. \A s \in Active : ghosts[s].client \in Clients \cup {NoClient}
    BY DEF TableInv, Active, GhostType
  <2> QED
    BY <1>1, <1>2, <1>4, <2>1, <2>2 DEF BodiesAreBots, BodiesDiffer, BotsHaveSlots
<1>6. HumansSpared'
  BY <1>1, <1>3 DEF HumansSpared
<1>7. kicked \in BOOLEAN => kicked' \in BOOLEAN
  BY Zenon DEF LocalJoin, LocalLeave, BotKicked, Occupy
<1> QED
  BY <1>2, <1>5, <1>6, <1>7
-----------------------------------------------------------------------------
\* No ghosts, no packets, no clients.
LEMMA InvInit == Init => Inv
<1> SUFFICES ASSUME Init PROVE Inv
  OBVIOUS
<1> USE GhostsAssumption
<1>1. WireInv
  BY EmptySeq DEF Init, WireInv
<1>2. Flags
  <2>1. enabled \in BOOLEAN /\ kicked \in BOOLEAN /\ wronged \in BOOLEAN
    BY Zenon DEF Init
  <2>2. /\ cast \in Casts /\ misread \subseteq Players
        /\ where \in [Players -> Servers \cup {Away}]
    BY DEF Init
  <2> QED
    BY <2>1, <2>2 DEF Flags
<1>3. Active = {} /\ ghosts \in [Slots -> GhostType]
  BY EmptyIsTyped DEF Init, Active
<1>4. TableInv
  BY <1>3, FS_EmptySet DEF Init, TableInv
<1>5. Unique /\ Owned /\ Bodies
  BY <1>3 DEF Init, Unique, Owned, Bodies, BodiesAreBots, BodiesDiffer, BotsHaveSlots
<1>6. HumansSpared
  BY DEF Init, HumansSpared
<1> QED
  BY <1>1, <1>2, <1>4, <1>5, <1>6 DEF Inv, GhostInv

\* What is on the wire is typed.
LEMMA WireStep == WireInv /\ Flags /\ [Next]_vars => WireInv'
<1> SUFFICES ASSUME WireInv, Flags, [Next]_vars PROVE WireInv'
  OBVIOUS
<1> USE GhostsAssumption
<1>1. CASE UNCHANGED wire
  BY <1>1 DEF WireInv
<1>2. ASSUME NEW v \in Servers, NEW packet \in Packets, Send(v, packet) PROVE WireInv'
  <2>1. Append(wire[v], packet) \in Seq(Packets)
    BY AppendProperties DEF WireInv
  <2> QED
    BY <1>2, <2>1 DEF Send, WireInv
<1>3. ASSUME NEW v \in Servers, NEW i, ProcessIncomingData(v, i) PROVE WireInv'
  <2>1. PICK lost \in [Servers -> 0..MaxInFlight] : Arrive(v, lost)
    BY <1>3 DEF ProcessIncomingData
  <2> DEFINE from(u) == lost[u] + (IF u = v THEN 1 ELSE 0) + 1
  <2>2. wire' = [u \in Servers |-> SubSeq(wire[u], from(u), Len(wire[u]))]
    BY <2>1 DEF Arrive
  <2>3. ASSUME NEW u \in Servers PROVE SubSeq(wire[u], from(u), Len(wire[u])) \in Seq(Packets)
    <3>1. /\ wire[u] \in Seq(Packets) /\ Len(wire[u]) \in Nat
          /\ from(u) \in Int /\ from(u) >= 1
      BY LenProperties DEF WireInv
    <3>2. \A k \in from(u)..Len(wire[u]) : wire[u][k] \in Packets
      BY <3>1, ElementOfSeq
    <3> HIDE DEF from
    <3> QED
      BY <3>1, <3>2, SubSeqProperties
  <2> HIDE DEF from
  <2> QED
    BY <2>2, <2>3 DEF WireInv
<1>4. ASSUME NEW v \in Servers, LoseData(v) PROVE WireInv'
  <2>1. Tail(wire[v]) \in Seq(Packets)
    BY <1>4, HeadTailProperties DEF LoseData, WireInv
  <2> QED
    BY <1>4, <2>1 DEF LoseData, WireInv
<1>5. ASSUME NEW p \in Players, RemoteSync(p) \/ RemoteSpawn(p) \/ RemoteLeave(p) PROVE WireInv'
  <2>1. where[p] \in Servers
    BY <1>5 DEF RemoteSync, RemoteSpawn, RemoteLeave, Flags
  <2>2. \A kind \in {"sync", "spawn", "disconnect"} : [type |-> kind, player |-> p] \in Packets
    BY DEF Packets
  <2> QED
    BY <1>2, <1>5, <2>1, <2>2 DEF RemoteSync, RemoteSpawn, RemoteLeave
<1>6. ASSUME NEW v \in Servers, ServerLost(v) PROVE WireInv'
  <2>1. [type |-> "server_disconnect", player |-> NoPlayer] \in Packets
    BY DEF Packets
  <2> QED
    BY <1>2, <1>6, <2>1 DEF ServerLost
<1> QED
  BY <1>1, <1>3, <1>4, <1>5, <1>6
  DEF Next, RemoteJoin, OnGameFrame, RemoveAllGhosts, Switch,
      LocalJoin, LocalLeave, BotKicked, Occupy, vars

\* Every packet, frame, switch and client keeps the invariant.
LEMMA InvStep == Inv /\ [Next]_vars => Inv'
<1> SUFFICES ASSUME Inv, [Next]_vars PROVE Inv'
  OBVIOUS
<1> USE GhostsAssumption
<1>1. WireInv'
  BY WireStep DEF Inv
<1> DEFINE Goal == Flags' /\ GhostInv'
<1> SUFFICES Goal
  BY <1>1 DEF Inv
<1>2. CASE UNCHANGED <<cast, size, ghosts, count, clients, kicked, wronged, misread>>
           /\ where' \in [Players -> Servers \cup {Away}] /\ enabled' \in BOOLEAN
  BY <1>2
  DEF Inv, Flags, GhostInv, TableInv, Unique, Owned, Bodies, BodiesAreBots, BodiesDiffer,
      BotsHaveSlots, HumansSpared, Active, Slots
<1>3. ASSUME NEW v \in Servers, NEW i, ProcessIncomingData(v, i) PROVE Goal
  <2> DEFINE packet == Head(wire[v])
  <2>1. UNCHANGED <<cast, size, where, enabled, kicked>>
    BY <1>3 DEF ProcessIncomingData
  <2>2. packet \in Packets
    BY <1>3, HeadTailProperties DEF Inv, WireInv, ProcessIncomingData
  <2>3. /\ i \in ReadAs(packet)
        /\ misread' = IF i = packet.player THEN misread ELSE misread \cup {packet.player}
    BY <1>3 DEF ProcessIncomingData
  <2>4. i # packet.player => packet.player \in Players
    BY <2>2, <2>3 DEF ReadAs, Packets
  <2>5. misread \subseteq misread' /\ misread' \subseteq Players
    BY <2>3, <2>4 DEF Inv, Flags
  <2> HIDE DEF packet
  <2>6. ASSUME GhostInv' /\ (wronged \in BOOLEAN => wronged' \in BOOLEAN) PROVE Goal
    <3>1. wronged' \in BOOLEAN
      BY <2>6 DEF Inv, Flags
    <3> QED
      BY <2>1, <2>5, <2>6, <3>1 DEF Inv, Flags
  <2>7. CASE NoGhost
    BY <2>1, <2>5, <2>6, <2>7, NoGhostStep DEF Inv, NoGhost
  <2>8. ASSUME packet.type \in {"sync", "spawn"}, enabled,
               \/ ProcessRemotePlayerSync(packet.player, i, v)
               \/ ProcessRemoteGhostSpawn(packet.player, i, v)
        PROVE  Goal
    <3>1. packet.player \in Players /\ i \in SteamIds
      BY <2>2, <2>3, <2>8 DEF Packets, ReadAs
    <3>2. i = packet.player \/ packet.player \in misread'
      BY <2>3
    <3>3. GhostInv' /\ (wronged \in BOOLEAN => wronged' \in BOOLEAN)
      BY <2>1, <2>5, <2>8, <3>1, <3>2, SyncStep DEF Inv
    <3> QED
      BY <2>6, <3>3
  <2>9. ASSUME NEW slots \in SUBSET Active, Remove(slots) PROVE Goal
    BY <2>1, <2>5, <2>6, <2>9, RemoveStep DEF Inv
  <2>10. CASE ProcessRemotePlayerDisconnect
    BY <2>9, <2>10 DEF ProcessRemotePlayerDisconnect
  <2>11. CASE RemoveGhostsByServer(Relay)
    <3>1. {s \in Active : ghosts[s].server = Relay} \in SUBSET Active
      OBVIOUS
    <3> QED
      BY <2>9, <2>11, <3>1 DEF RemoveGhostsByServer
  <2> QED
    BY <1>3, <2>7, <2>8, <2>10, <2>11 DEF ProcessIncomingData, packet
<1>4. CASE OnGameFrame
  BY <1>4, FrameStep DEF OnGameFrame, Inv, Flags
<1>5. CASE RemoveAllGhosts
  BY <1>5, RemoveStep DEF RemoveAllGhosts, Inv, Flags
<1>6. ASSUME NEW c \in Clients, LocalJoin(c) \/ LocalLeave(c) \/ BotKicked(c) PROVE Goal
  <2>1. UNCHANGED <<cast, where, enabled, wronged, misread>>
    BY <1>6 DEF LocalJoin, LocalLeave, BotKicked, Occupy
  <2> QED
    BY <1>6, <2>1, OccupyStep DEF Inv, Flags
<1>7. ASSUME NEW p \in Players,
             \/ RemoteSync(p) \/ RemoteSpawn(p) \/ RemoteLeave(p)
             \/ \E v \in Servers : RemoteJoin(p, v)
      PROVE  Goal
  BY <1>2, <1>7
  DEF RemoteSync, RemoteSpawn, RemoteLeave, RemoteJoin, OutThere, Inv, Flags
<1>8. ASSUME NEW v \in Servers, ServerLost(v) \/ LoseData(v) PROVE Goal
  BY <1>2, <1>8 DEF ServerLost, LoseData, OutThere, Inv, Flags
<1>9. CASE Switch
  <2>1. enabled' \in BOOLEAN
    BY <1>9, Zenon DEF Switch
  <2> QED
    BY <1>2, <1>9, <2>1 DEF Switch, Inv, Flags
<1>10. CASE UNCHANGED vars
  BY <1>2, <1>10 DEF vars, Inv, Flags
<1> QED
  BY <1>3, <1>4, <1>5, <1>6, <1>7, <1>8, <1>9, <1>10 DEF Next

\* The invariant holds throughout.
LEMMA Invariant == Spec => []Inv
BY InvInit, InvStep, PTL DEF Spec
-----------------------------------------------------------------------------
(***************************************************************************)
(* The slots are typed, one in use has a Steam id that was read and a      *)
(* server, and the count shown is the number of slots in use, for any size *)
(* of the table and wherever packets are cut.                              *)
(***************************************************************************)
THEOREM TypeCorrect == Spec => []TypeOK
<1>1. Inv => TypeOK
  BY DEF Inv, Flags, GhostInv, TableInv, GhostType, TypeOK
<1> QED
  BY Invariant, <1>1, PTL

\* A set of slots of which no two differ.
LEMMA AtMostOne ==
    ASSUME NEW S, \A s, t \in S : s = t
    PROVE  Cardinality(S) <= 1
<1>1. CASE S = {}
  BY <1>1, FS_EmptySet
<1>2. CASE S # {}
  <2>1. PICK s \in S : TRUE
    BY <1>2
  <2>2. S = {s}
    BY <2>1
  <2>3. Cardinality({s}) = 1
    BY FS_Singleton
  <2> QED
    BY <2>2, <2>3
<1> QED
  BY <1>1, <1>2

(***************************************************************************)
(* No two ghosts have one Steam id, and no player has two ghosts, or one   *)
(* under another Steam id, until a packet about it was cut within its id:  *)
(* whatever packets of whichever servers are delayed, lost or interleaved, *)
(* and whatever the packets that are cut are read as.                      *)
(***************************************************************************)
THEOREM GhostIsOne == Spec => []OneGhostEach
<1>1. Inv => OneGhostEach
  <2> SUFFICES ASSUME Inv PROVE OneGhostEach
    OBVIOUS
  <2>1. ASSUME NEW i \in SteamIds PROVE Cardinality(FindGhostBySteamId(i)) <= 1
    <3>1. \A s, t \in FindGhostBySteamId(i) : s = t
      BY DEF Inv, GhostInv, Unique, FindGhostBySteamId
    <3> QED
      BY <3>1, AtMostOne
  <2>2. ASSUME NEW p \in Players \ misread
        PROVE  LET itsGhosts == {s \in Active : ghosts[s].of = p}
               IN  /\ Cardinality(itsGhosts) <= 1
                   /\ itsGhosts \subseteq FindGhostBySteamId(p)
    <3> DEFINE itsGhosts == {s \in Active : ghosts[s].of = p}
    <3>1. itsGhosts \subseteq FindGhostBySteamId(p)
      BY DEF Inv, GhostInv, Owned, FindGhostBySteamId
    <3>2. \A s, t \in itsGhosts : s = t
      BY <3>1 DEF Inv, GhostInv, Unique, FindGhostBySteamId
    <3>3. Cardinality(itsGhosts) <= 1
      BY <3>2, AtMostOne
    <3> QED
      BY <3>1, <3>3
  <2> QED
    BY <2>1, <2>2 DEF OneGhostEach
<1> QED
  BY Invariant, <1>1, PTL

(***************************************************************************)
(* Every fake client is the body of exactly one ghost, as long as nobody   *)
(* but the plugin kicks one.                                               *)
(***************************************************************************)
THEOREM BotIsGhost == Spec => []BotsAreGhosts
<1>1. Inv => BotsAreGhosts
  <2> SUFFICES ASSUME Inv, ~kicked, NEW c \in Clients, clients[c] = "bot"
               PROVE  Cardinality({s \in Active : ghosts[s].client = c}) = 1
    BY DEF BotsAreGhosts
  <2>1. PICK s \in Active : ghosts[s].client = c
    BY DEF Inv, GhostInv, Bodies, BotsHaveSlots
  <2>2. \A t \in Active : ghosts[t].client = c => t = s
    BY <2>1, GhostsAssumption DEF Inv, GhostInv, Bodies, BodiesDiffer
  <2>3. {t \in Active : ghosts[t].client = c} = {s}
    BY <2>1, <2>2
  <2> QED
    BY <2>3, FS_Singleton
<1> QED
  BY Invariant, <1>1, PTL

(***************************************************************************)
(* No player of this server is kicked, moved or respawned in a ghost's     *)
(* place, unless somebody else kicked a fake client before.                *)
(***************************************************************************)
THEOREM HumansAreSpared == Spec => []HumansSpared
<1>1. Inv => HumansSpared
  BY DEF Inv, GhostInv
<1> QED
  BY Invariant, <1>1, PTL
=============================================================================
