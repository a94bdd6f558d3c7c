------------------------- MODULE PluginClientProofs -------------------------
(***************************************************************************)
(* Proofs about PluginClient for any number of socket handles, heartbeat   *)
(* timers and any sets of disturbances.                                    *)
(*                                                                         *)
(* The argument: the relay is asked by no socket but the one g_hSocket     *)
(* holds, and that one is connected (OnlyOneAsks), because the handle is   *)
(* overwritten only while the plugin is not connected and a socket is      *)
(* silent until then.  So when the answer comes no handshake is complete   *)
(* and no sync timer is live (AnsweredOnce).  Without map changes and      *)
(* commands there is at most one socket, and none while a reconnect is due *)
(* (Undisturbed).                                                          *)
(***************************************************************************)
EXTENDS PluginClient, TLAPS

\* A socket that the relay was asked by is the one the plugin knows.
OnlyOneAsks ==
    \A s \in Sockets :
        /\ link[s] = "connecting" => relay[s] = "silent"
        /\ link[s] = "open" /\ relay[s] # "silent" => s = socket /\ connected

\* A complete handshake was answered on the socket the plugin knows, and only
\* under one does the sync timer run.
AnsweredOnce ==
    /\ handshake => /\ connected /\ socket \in Sockets
                    /\ link[socket] = "open" /\ relay[socket] = "done"
    /\ sync = "live" => handshake
    /\ syncs = (IF sync = "live" THEN 1 ELSE 0)

RejectionsMayBe ==
    \A s \in Sockets : relay[s] = "reject" => "rejection" \in may

NoLink == \A s \in Sockets : link[s] = "none"

\* With neither map changes nor commands the plugin starts one connection at a
\* time, after the one before and its heartbeat timer are gone.
Undisturbed ==
    may \cap {"map", "command"} = {} =>
        /\ \A s \in Sockets : link[s] # "none" => s = socket
        /\ reconnect => NoLink
        /\ configsDue => NoLink /\ ~reconnect /\ beats = 0 /\ ~handshake
        /\ beats <= 1
        /\ beats = 1 => handshake \/ NoLink

Beaten == handshake /\ "map" \notin may => beats >= 1

Inv ==
    /\ TypeOK /\ OnlyOneAsks /\ AnsweredOnce /\ RejectionsMayBe
    /\ Undisturbed /\ Beaten /\ LostIsRetried
-----------------------------------------------------------------------------
\* Before OnConfigsExecuted there is no socket and no timer.
LEMMA InvInit == Init => Inv
<1> SUFFICES ASSUME Init PROVE Inv
  OBVIOUS
<1>1. TypeOK
  <2>1. /\ connected \in BOOLEAN /\ handshake \in BOOLEAN
        /\ reconnect \in BOOLEAN /\ configsDue \in BOOLEAN
    BY DEF Init
  <2>2. /\ may \in Disturbances
        /\ link \in [Sockets -> {"none", "connecting", "open"}]
        /\ relay \in [Sockets -> {"silent", "asked", "ack", "reject", "done"}]
        /\ socket \in Sockets \cup {NoSocket} /\ socket = NoSocket
        /\ sync \in {"null", "live", "stale"}
    BY DEF Init
  <2>3. syncs \in 0..MaxBeats /\ beats \in 0..MaxBeats
    BY DisturbancesAssumption DEF Init
  <2> QED
    BY <2>1, <2>2, <2>3 DEF TypeOK
<1>2. OnlyOneAsks /\ AnsweredOnce /\ RejectionsMayBe
  BY DEF Init, OnlyOneAsks, AnsweredOnce, RejectionsMayBe
<1>3. Undisturbed /\ Beaten /\ LostIsRetried
  BY DEF Init, Undisturbed, NoLink, Beaten, LostIsRetried
<1> QED
  BY <1>1, <1>2, <1>3 DEF Inv

\* Every callback, timer and command keeps the invariant.
LEMMA InvStep == Inv /\ [Next]_vars => Inv'
<1> SUFFICES ASSUME Inv, [Next]_vars PROVE Inv'
  OBVIOUS
<1> USE DisturbancesAssumption
<1> USE DEF Inv, TypeOK, OnlyOneAsks, AnsweredOnce, RejectionsMayBe,
            Undisturbed, NoLink, Beaten, LostIsRetried
<1>1. CASE UNCHANGED vars
  BY <1>1 DEF vars
<1>2. CASE OnConfigsExecuted
  <2>1. TypeOK'
    BY <1>2 DEF OnConfigsExecuted, ConnectUnlessConnected, ConnectToRelay
  <2>2. OnlyOneAsks'
    BY <1>2 DEF OnConfigsExecuted, ConnectUnlessConnected, ConnectToRelay
  <2>3. AnsweredOnce'
    BY <1>2 DEF OnConfigsExecuted, ConnectUnlessConnected, ConnectToRelay
  <2>4. RejectionsMayBe'
    BY <1>2 DEF OnConfigsExecuted, ConnectUnlessConnected, ConnectToRelay
  <2>5. Undisturbed'
    BY <1>2 DEF OnConfigsExecuted, ConnectUnlessConnected, ConnectToRelay
  <2>6. Beaten'
    BY <1>2 DEF OnConfigsExecuted, ConnectUnlessConnected, ConnectToRelay
  <2>7. LostIsRetried'
    BY <1>2 DEF OnConfigsExecuted, ConnectUnlessConnected, ConnectToRelay
  <2> QED
    BY <2>1, <2>2, <2>3, <2>4, <2>5, <2>6, <2>7
<1>3. ASSUME NEW s \in Sockets, OnSocketConnect(s) PROVE Inv'
  <2>1. TypeOK'
    BY <1>3 DEF OnSocketConnect
  <2>2. OnlyOneAsks'
    BY <1>3 DEF OnSocketConnect
  <2>3. AnsweredOnce'
    BY <1>3 DEF OnSocketConnect
  <2>4. RejectionsMayBe'
    BY <1>3 DEF OnSocketConnect
  <2>5. Undisturbed'
    BY <1>3 DEF OnSocketConnect
  <2>6. Beaten'
    BY <1>3 DEF OnSocketConnect
  <2>7. LostIsRetried'
    BY <1>3 DEF OnSocketConnect
  <2> QED
    BY <2>1, <2>2, <2>3, <2>4, <2>5, <2>6, <2>7
<1>4. ASSUME NEW s \in Sockets, OnSocketError(s) PROVE Inv'
  <2>1. TypeOK'
    <3>1. reconnect' \in BOOLEAN
      BY <1>4, Zenon DEF OnSocketError, DisconnectRaises
    <3>2. /\ connected' \in BOOLEAN /\ handshake' \in BOOLEAN
          /\ configsDue' \in BOOLEAN /\ may' \in Disturbances
          /\ relay' \in [Sockets -> {"silent", "asked", "ack", "reject", "done"}]
          /\ socket' \in Sockets \cup {NoSocket} /\ socket' = NoSocket
          /\ beats' \in 0..MaxBeats
      BY <1>4 DEF OnSocketError, Disconnect, TornDown
    <3>3. link' \in [Sockets -> {"none", "connecting", "open"}]
      BY <1>4 DEF OnSocketError, Disconnect, Deleted
    <3>4. sync' \in {"null", "live", "stale"} /\ syncs' \in 0..MaxBeats
      BY <1>4 DEF OnSocketError, Disconnect, TornDown, DisconnectRaises
    <3> QED
      BY <3>1, <3>2, <3>3, <3>4
  <2>2. OnlyOneAsks'
    BY <1>4 DEF OnSocketError, Disconnect, TornDown, DisconnectRaises, Deleted
  <2>3. AnsweredOnce'
    BY <1>4 DEF OnSocketError, Disconnect, TornDown, DisconnectRaises, Deleted
  <2>4. RejectionsMayBe'
    BY <1>4 DEF OnSocketError, Disconnect, TornDown, DisconnectRaises, Deleted
  <2>5. Undisturbed'
    BY <1>4 DEF OnSocketError, Disconnect, TornDown, DisconnectRaises, Deleted
  <2>6. Beaten'
    BY <1>4 DEF OnSocketError, Disconnect, TornDown, DisconnectRaises, Deleted
  <2>7. LostIsRetried'
    BY <1>4 DEF OnSocketError, Disconnect, TornDown, DisconnectRaises, Deleted
  <2> QED
    BY <2>1, <2>2, <2>3, <2>4, <2>5, <2>6, <2>7
<1>5. ASSUME NEW s \in Sockets, RelayAnswers(s) PROVE Inv'
  BY <1>5 DEF RelayAnswers
<1>6. ASSUME NEW s \in Sockets, OnAck(s) PROVE Inv'
  BY <1>6 DEF OnAck
<1>7. ASSUME NEW s \in Sockets, OnReject(s) PROVE Inv'
  <2>1. TypeOK'
    BY <1>7 DEF OnReject, Disconnect, TornDown, DisconnectRaises, Deleted
  <2>2. OnlyOneAsks'
    BY <1>7 DEF OnReject, Disconnect, TornDown, DisconnectRaises, Deleted
  <2>3. AnsweredOnce'
    BY <1>7 DEF OnReject, Disconnect, TornDown, DisconnectRaises, Deleted
  <2>4. RejectionsMayBe'
    BY <1>7 DEF OnReject, Disconnect, TornDown, DisconnectRaises, Deleted
  <2>5. Undisturbed'
    BY <1>7 DEF OnReject, Disconnect, TornDown, DisconnectRaises, Deleted
  <2>6. Beaten'
    BY <1>7 DEF OnReject, Disconnect, TornDown, DisconnectRaises, Deleted
  <2>7. LostIsRetried'
    BY <1>7 DEF OnReject, Disconnect, TornDown, DisconnectRaises, Deleted
  <2> QED
    BY <2>1, <2>2, <2>3, <2>4, <2>5, <2>6, <2>7
<1>8. CASE Timer_Reconnect
  <2>1. TypeOK'
    BY <1>8 DEF Timer_Reconnect, ConnectUnlessConnected, ConnectToRelay
  <2>2. OnlyOneAsks'
    BY <1>8 DEF Timer_Reconnect, ConnectUnlessConnected, ConnectToRelay
  <2>3. AnsweredOnce'
    BY <1>8 DEF Timer_Reconnect, ConnectUnlessConnected, ConnectToRelay
  <2>4. RejectionsMayBe'
    BY <1>8 DEF Timer_Reconnect, ConnectUnlessConnected, ConnectToRelay
  <2>5. Undisturbed'
    BY <1>8 DEF Timer_Reconnect, ConnectUnlessConnected, ConnectToRelay
  <2>6. Beaten'
    BY <1>8 DEF Timer_Reconnect, ConnectUnlessConnected, ConnectToRelay
  <2>7. LostIsRetried'
    BY <1>8 DEF Timer_Reconnect, ConnectUnlessConnected, ConnectToRelay
  <2> QED
    BY <2>1, <2>2, <2>3, <2>4, <2>5, <2>6, <2>7
<1>9. CASE HeartbeatStops
  BY <1>9 DEF HeartbeatStops
<1>10. CASE CommandReconnect
  <2>1. CASE ~connected
    BY <1>10, <2>1 DEF CommandReconnect, ConnectToRelay
  <2>2. CASE connected /\ DisconnectRaises
    <3>0. /\ connected' = FALSE /\ handshake' = FALSE /\ reconnect' = FALSE
          /\ sync = "stale" /\ "command" \in may /\ socket' = NoSocket
          /\ link' = Deleted(link, socket)
          /\ UNCHANGED <<may, relay, sync, syncs, beats, configsDue>>
      BY <1>10, <2>2 DEF CommandReconnect, TornDown, DisconnectRaises
    <3>1. TypeOK'
      <4>1. link' \in [Sockets -> {"none", "connecting", "open"}]
        BY <3>0 DEF Deleted
      <4>2. /\ connected' \in BOOLEAN /\ handshake' \in BOOLEAN
            /\ reconnect' \in BOOLEAN /\ configsDue' \in BOOLEAN
        BY <3>0
      <4> QED
        BY <3>0, <4>1, <4>2
    <3>2. OnlyOneAsks' /\ AnsweredOnce' /\ RejectionsMayBe'
      BY <3>0 DEF Deleted
    <3>3. Undisturbed' /\ Beaten' /\ LostIsRetried'
      BY <3>0 DEF Deleted
    <3> QED
      BY <3>1, <3>2, <3>3
  <2>3. CASE connected /\ ~DisconnectRaises
    <3> PICK s \in Sockets :
          /\ Deleted(link, socket)[s] = "none"
          /\ link' = [Deleted(link, socket) EXCEPT ![s] = "connecting"]
          /\ relay' = [relay EXCEPT ![s] = "silent"]
          /\ socket' = s
      BY <1>10, <2>3 DEF CommandReconnect, ConnectToRelay
    <3>0. /\ connected' = FALSE /\ handshake' = FALSE /\ reconnect' = FALSE
          /\ sync' = "null" /\ syncs' = 0 /\ "command" \in may
          /\ UNCHANGED <<may, beats, configsDue>>
      BY <1>10, <2>3 DEF CommandReconnect, TornDown, DisconnectRaises
    <3>1. TypeOK'
      <4>1. link' \in [Sockets -> {"none", "connecting", "open"}]
        BY DEF Deleted
      <4>2. relay' \in [Sockets -> {"silent", "asked", "ack", "reject", "done"}]
        OBVIOUS
      <4>3. /\ connected' \in BOOLEAN /\ handshake' \in BOOLEAN
            /\ reconnect' \in BOOLEAN /\ configsDue' \in BOOLEAN
        BY <3>0
      <4>4. sync' \in {"null", "live", "stale"} /\ syncs' \in 0..MaxBeats
        BY <3>0
      <4> QED
        BY <3>0, <4>1, <4>2, <4>3, <4>4
    <3>2. OnlyOneAsks'
      BY <3>0 DEF Deleted
    <3>3. AnsweredOnce'
      BY <3>0 DEF Deleted
    <3>4. RejectionsMayBe'
      BY <3>0 DEF Deleted
    <3>5. Undisturbed'
      BY <3>0 DEF Deleted
    <3>6. Beaten'
      BY <3>0 DEF Deleted
    <3>7. LostIsRetried'
      BY <3>0 DEF Deleted
    <3> QED
      BY <3>1, <3>2, <3>3, <3>4, <3>5, <3>6, <3>7
  <2> QED
    BY <2>1, <2>2, <2>3
<1>11. CASE MapChange
  BY <1>11 DEF MapChange
<1> QED
  BY <1>1, <1>2, <1>3, <1>4, <1>5, <1>6, <1>7, <1>8, <1>9, <1>10, <1>11 DEF Next

\* The invariant holds throughout.
LEMMA Invariant == Spec => []Inv
BY InvInit, InvStep, PTL DEF Spec
-----------------------------------------------------------------------------
(***************************************************************************)
(* The handles, flags and timers keep their types, as many sync and        *)
(* heartbeat timers run as the bound admits, and the handle the plugin     *)
(* holds is that of a socket there is.                                     *)
(***************************************************************************)
THEOREM TypeCorrect == Spec => []TypeOK
<1>1. Inv => TypeOK
  BY DEF Inv
<1> QED
  BY Invariant, <1>1, PTL

(***************************************************************************)
(* A complete handshake has a connection, however many sockets a command   *)
(* or a map change left connecting side by side; under it one sync timer   *)
(* runs at most, and without it none.                                      *)
(***************************************************************************)
THEOREM SessionIsSound == Spec => []InSession
<1>1. Inv => InSession
  BY DisturbancesAssumption DEF Inv, AnsweredOnce, InSession
<1> QED
  BY Invariant, <1>1, PTL

(***************************************************************************)
(* A complete handshake has a heartbeat timer unless a map change closed   *)
(* it, and not two unless a map change or a command reconnected quickly.   *)
(***************************************************************************)
THEOREM HeartbeatIsRunning == Spec => []HeartbeatRuns
<1>1. Inv => HeartbeatRuns
  BY DEF Inv, TypeOK, Beaten, Undisturbed, HeartbeatRuns
<1> QED
  BY Invariant, <1>1, PTL

(***************************************************************************)
(* A lost connection is tried again, unless the relay rejected it or the   *)
(* stale handle of the sync timer cut Disconnect short.                    *)
(***************************************************************************)
THEOREM LossIsRetried == Spec => []LostIsRetried
<1>1. Inv => LostIsRetried
  BY DEF Inv
<1> QED
  BY Invariant, <1>1, PTL

(***************************************************************************)
(* Without map changes and commands the plugin has no socket but the one   *)
(* it knows.                                                               *)
(***************************************************************************)
THEOREM NoSocketIsOrphaned == Spec => []NoOrphan
<1>1. Inv => NoOrphan
  BY DEF Inv, Undisturbed, NoOrphan
<1> QED
  BY Invariant, <1>1, PTL
=============================================================================
