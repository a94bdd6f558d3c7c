------------------------------- MODULE Fanout -------------------------------
(***************************************************************************)
(* The path of an event through the relay: from the select loop of the     *)
(* connection it arrives on, through Relay::broadcast or send_to_server,   *)
(* into the bounded outbound queue of every other connection, or of one,   *)
(* and onto their sockets, and finally into the bounded channel of         *)
(* Relay::record_event, which the terminal interface empties.              *)
(*                                                                         *)
(* broadcast awaits room in each queue while it holds the read lock of     *)
(* servers; register_server and unregister_server do the same under the    *)
(* write lock.  A task drains its own queue only in its select loop, so a  *)
(* task that waits for a queue or for the lock drains nothing; and the     *)
(* terminal interface needs the lock on each of its turns.                 *)
(***************************************************************************)
EXTENDS Integers, Sequences, FiniteSets

CONSTANTS
    Conns,      \* the connections past their handshake, each sending under
                \* the one server id it is registered with
    Late,       \* those that register during the run; the others have
    MayLeave,   \* those whose plugin may close its socket
    MayFail,    \* those whose task may end by an error
    MayStall,   \* those whose plugin may stop reading its socket
    Sources,    \* those whose plugin sends events
    Askers,     \* the sources that also ask for a heal or damage elsewhere
    Muted,      \* the sources that also send packets that are not relayed
    Beating,    \* those whose plugin sends heartbeats
    Cap,        \* the capacity of an outbound queue (256)
    FeedCap,    \* the capacity of the event channel (1000)
    TuiMode,    \* whether the TUI runs, and so reads the event channel
    MaxEvents,  \* bound: the events relayed for one source
    Tui,        \* the loop of the terminal interface, among those that wait
    NoConn      \* no connection

ASSUME ConnsAssumption == IsFiniteSet(Conns)
ASSUME SizesAssumption ==
    Cap \in Nat \ {0} /\ FeedCap \in Nat \ {0} /\ MaxEvents \in Nat
ASSUME TuiAssumption == TuiMode \in BOOLEAN
ASSUME LateAssumption == Late \subseteq Conns
ASSUME SentinelAssumption == NoConn \notin Conns /\ Tui \notin Conns /\ Tui # NoConn

VARIABLES
    task,     \* task[c]: what the task of c is doing
    regs,     \* the connections in servers
    todo,     \* todo[c]: the peers c has yet to send to, in map order
    cur,      \* cur[c]: the number of the event c broadcasts; 0: not relayed
    plan,     \* plan[c]: the events of c taken in, as the set each is meant for
    outq,     \* outq[c]: the outbound queue of c
    got,      \* got[c]: history: what was written to the socket of c
    lockq,    \* the tasks waiting for the lock of servers, in order
    readers,  \* the tasks that hold it for reading
    writer,   \* the task that holds it for writing
    feed,     \* how many records are in the event channel
    stalled   \* stalled[c]: the plugin of c has stopped reading

vars == <<task, regs, todo, cur, plan, outq, got, lockq, readers, writer, feed, stalled>>

Tasks == {"out", "joining", "announcing", "select", "writing", "acking", "reading",
          "sending", "recording", "closing", "leaving", "gone", "failed"}

\* The tasks that hold an outbound receiver; a send to another one fails.
HasReceiver == Tasks \ {"out", "gone", "failed"}

Init ==
    /\ task = [c \in Conns |-> IF c \in Late THEN "out" ELSE "select"]
    /\ regs = Conns \ Late
    /\ todo = [c \in Conns |-> <<>>]
    /\ cur = [c \in Conns |-> 0]
    /\ plan = [c \in Conns |-> <<>>]
    /\ outq = [c \in Conns |-> <<>>]
    /\ got = [c \in Conns |-> <<>>]
    /\ lockq = <<>>
    /\ readers = {}
    /\ writer = NoConn
    /\ feed = 0
    /\ stalled = [c \in Conns |-> FALSE]

Goto(c, from, to) ==
    /\ task[c] = from
    /\ task' = [task EXCEPT ![c] = to]

\* A HashMap iterates in some order, the same for the whole loop.
Orders(S) ==
    {s \in [1..Cardinality(S) -> S] : \A i, j \in DOMAIN s : s[i] = s[j] => i = j}

Others(c) == Conns \ {c}

Event(c, n) == [from |-> c, n |-> n]

\* SERVER_CONNECT and SERVER_DISCONNECT come from the relay.
Notice == Event(NoConn, 0)

(***************************************************************************)
(* tokio's RwLock serves requests in order.                                *)
(***************************************************************************)
Queue(c) == lockq' = Append(lockq, c)

FirstInLine(c) == lockq # <<>> /\ Head(lockq) = c

(***************************************************************************)
(* The select loop takes in a packet that process_packet relays to the     *)
(* servers in dest: all others for a broadcast, one for a request whose    *)
(* target get_player_server found there.  The lookup is over before the    *)
(* lock of servers is asked for.  The loop over a batch of packets is this *)
(* action several times in a row.  A broadcast leaves out the server whose *)
(* id is in the packet's header.  That is taken to be the sender here:     *)
(* module Registry has the plugins that change their id.                   *)
(***************************************************************************)
Receive(c, dest) ==
    /\ c \in Sources
    /\ dest = Others(c) \/ c \in Askers
    /\ Len(plan[c]) < MaxEvents
    /\ Goto(c, "select", "reading")
    /\ plan' = [plan EXCEPT ![c] = Append(@, dest)]
    /\ cur' = [cur EXCEPT ![c] = Len(plan[c]) + 1]
    /\ Queue(c)
    /\ UNCHANGED <<regs, todo, outq, got, readers, writer, feed, stalled>>

\* A packet that the configuration mutes takes the lock all the same.
ReceiveMuted(c) ==
    /\ c \in Muted
    /\ Goto(c, "select", "reading")
    /\ cur' = [cur EXCEPT ![c] = 0]
    /\ Queue(c)
    /\ UNCHANGED <<regs, todo, plan, outq, got, readers, writer, feed, stalled>>

\* A request whose target is on the server it comes from, and one for an
\* ability that is switched off, are recorded and go nowhere.
ReceiveOwn(c) ==
    /\ c \in Askers
    /\ Goto(c, "select", "recording")
    /\ UNCHANGED <<regs, todo, cur, plan, outq, got, lockq, readers, writer, feed, stalled>>

\* The ACK of a heartbeat is written to the socket on the spot, not queued.
ReceiveHeartbeat(c) ==
    /\ c \in Beating
    /\ Goto(c, "select", "acking")
    /\ UNCHANGED <<regs, todo, cur, plan, outq, got, lockq, readers, writer, feed, stalled>>

AckDone(c) ==
    /\ ~stalled[c]
    /\ Goto(c, "acking", "recording")
    /\ UNCHANGED <<regs, todo, cur, plan, outq, got, lockq, readers, writer, feed, stalled>>

\* Whom the packet of c is for: nobody if it is muted.
Dest(c) == IF cur[c] = 0 THEN {} ELSE plan[c][cur[c]]

\* Mutant: a request is sent to everybody.
GrantReadToAll(c) ==
    /\ FirstInLine(c)
    /\ writer = NoConn
    /\ Goto(c, "reading", "sending")
    /\ lockq' = Tail(lockq)
    /\ readers' = readers \cup {c}
    /\ \E order \in Orders(regs \cap Others(c)) :
           todo' = [todo EXCEPT ![c] = IF cur[c] = 0 THEN <<>> ELSE order]
    /\ UNCHANGED <<regs, cur, plan, outq, got, writer, feed, stalled>>

\* A server of dest that has left since the lookup is skipped.
GrantRead(c) ==
    /\ FirstInLine(c)
    /\ writer = NoConn
    /\ Goto(c, "reading", "sending")
    /\ lockq' = Tail(lockq)
    /\ readers' = readers \cup {c}
    /\ \E order \in Orders(regs \cap Dest(c)) : todo' = [todo EXCEPT ![c] = order]
    /\ UNCHANGED <<regs, cur, plan, outq, got, writer, feed, stalled>>

\* Mutant: the outbound queues are unbounded.
SendUnbounded(c) ==
    /\ task[c] \in {"sending", "announcing", "leaving"}
    /\ todo[c] # <<>>
    /\ LET d == Head(todo[c])
           m == IF task[c] = "sending" THEN Event(c, cur[c]) ELSE Notice
       IN  outq' = IF task[d] \in HasReceiver
                   THEN [outq EXCEPT ![d] = Append(@, m)] ELSE outq
    /\ todo' = [todo EXCEPT ![c] = Tail(@)]
    /\ UNCHANGED <<task, regs, cur, plan, got, lockq, readers, writer, feed, stalled>>

\* sender.send(..).await to the next peer, by a broadcast or a notification
\* loop: it waits for room, and fails at once when the receiver is gone.
SendNext(c) ==
    /\ task[c] \in {"sending", "announcing", "leaving"}
    /\ todo[c] # <<>>
    /\ LET d == Head(todo[c])
           m == IF task[c] = "sending" THEN Event(c, cur[c]) ELSE Notice
       IN  IF task[d] \in HasReceiver
           THEN Len(outq[d]) < Cap /\ outq' = [outq EXCEPT ![d] = Append(@, m)]
           ELSE outq' = outq
    /\ todo' = [todo EXCEPT ![c] = Tail(@)]
    /\ UNCHANGED <<task, regs, cur, plan, got, lockq, readers, writer, feed, stalled>>

\* Mutant: the broadcast gives up before the last peer.
EndBroadcastEarly(c) ==
    /\ Len(todo[c]) <= 1
    /\ Goto(c, "sending", "recording")
    /\ todo' = [todo EXCEPT ![c] = <<>>]
    /\ readers' = readers \ {c}
    /\ UNCHANGED <<regs, cur, plan, outq, got, lockq, writer, feed, stalled>>

\* Mutant: the read guard outlives the broadcast.
EndBroadcastLocked(c) ==
    /\ todo[c] = <<>>
    /\ Goto(c, "sending", "recording")
    /\ UNCHANGED <<regs, todo, cur, plan, outq, got, lockq, readers, writer, feed, stalled>>

EndBroadcast(c) ==
    /\ todo[c] = <<>>
    /\ Goto(c, "sending", "recording")
    /\ readers' = readers \ {c}
    /\ UNCHANGED <<regs, todo, cur, plan, outq, got, lockq, writer, feed, stalled>>

\* record_event: event_tx.send(..).await.
Record(c) ==
    /\ feed < FeedCap
    /\ Goto(c, "recording", "select")
    /\ feed' = feed + 1
    /\ UNCHANGED <<regs, todo, cur, plan, outq, got, lockq, readers, writer, stalled>>

(***************************************************************************)
(* A turn of the terminal interface: get_servers awaits the read lock and  *)
(* copies what it needs at once, then the channel is emptied.  In CLI mode *)
(* the receiver stays inside the relay and nobody reads it.                *)
(***************************************************************************)
TuiWaits == \E i \in DOMAIN lockq : lockq[i] = Tui

TuiAsk ==
    /\ TuiMode
    /\ ~TuiWaits
    /\ Queue(Tui)
    /\ UNCHANGED <<task, regs, todo, cur, plan, outq, got, readers, writer, feed, stalled>>

\* Mutant: the last record stays in the channel.
TuiTurnAllButOne ==
    /\ FirstInLine(Tui)
    /\ writer = NoConn
    /\ lockq' = Tail(lockq)
    /\ feed' = IF feed = 0 THEN 0 ELSE 1
    /\ UNCHANGED <<task, regs, todo, cur, plan, outq, got, readers, writer, stalled>>

TuiTurn ==
    /\ FirstInLine(Tui)
    /\ writer = NoConn
    /\ lockq' = Tail(lockq)
    /\ feed' = 0
    /\ UNCHANGED <<task, regs, todo, cur, plan, outq, got, readers, writer, stalled>>

(***************************************************************************)
(* The select loop writes one outbound packet: write_all returns when the  *)
(* plugin has read enough.                                                 *)
(***************************************************************************)
WriteStart(c) ==
    /\ outq[c] # <<>>
    /\ Goto(c, "select", "writing")
    /\ outq' = [outq EXCEPT ![c] = Tail(@)]
    /\ got' = [got EXCEPT ![c] = Append(@, Head(outq[c]))]
    /\ UNCHANGED <<regs, todo, cur, plan, lockq, readers, writer, feed, stalled>>

WriteDone(c) ==
    /\ ~stalled[c]
    /\ Goto(c, "writing", "select")
    /\ UNCHANGED <<regs, todo, cur, plan, outq, got, lockq, readers, writer, feed, stalled>>

Stall(c) ==
    /\ c \in MayStall
    /\ ~stalled[c]
    /\ stalled' = [stalled EXCEPT ![c] = TRUE]
    /\ UNCHANGED <<task, regs, todo, cur, plan, outq, got, lockq, readers, writer, feed>>

(***************************************************************************)
(* Registration and unregistration, under the write lock.                  *)
(***************************************************************************)
Join(c) ==
    /\ Goto(c, "out", "joining")
    /\ Queue(c)
    /\ UNCHANGED <<regs, todo, cur, plan, outq, got, readers, writer, feed, stalled>>

Leave(c) ==
    /\ c \in MayLeave
    /\ Goto(c, "select", "closing")
    /\ Queue(c)
    /\ UNCHANGED <<regs, todo, cur, plan, outq, got, readers, writer, feed, stalled>>

\* The error exits of the loop: the receiver is dropped with the task, the
\* entry in servers stays.
Fail(c) ==
    /\ c \in MayFail
    /\ task[c] \in {"select", "writing", "acking"}
    /\ task' = [task EXCEPT ![c] = "failed"]
    /\ outq' = [outq EXCEPT ![c] = <<>>]
    /\ UNCHANGED <<regs, todo, cur, plan, got, lockq, readers, writer, feed, stalled>>

\* The heartbeat check is a branch of the select: a task whose plugin went
\* silent notices only there.
HeartbeatTimeout(c) ==
    /\ stalled[c]
    /\ Goto(c, "select", "failed")
    /\ outq' = [outq EXCEPT ![c] = <<>>]
    /\ UNCHANGED <<regs, todo, cur, plan, got, lockq, readers, writer, feed, stalled>>

GrantWrite(c) ==
    /\ FirstInLine(c)
    /\ writer = NoConn
    /\ readers = {}
    /\ \/ Goto(c, "joining", "announcing")
       \/ Goto(c, "closing", "leaving")
    /\ lockq' = Tail(lockq)
    /\ writer' = c
    /\ regs' = regs \ {c}
    /\ \E order \in Orders(regs \ {c}) : todo' = [todo EXCEPT ![c] = order]
    /\ UNCHANGED <<cur, plan, outq, got, readers, feed, stalled>>

Joined(c) ==
    /\ todo[c] = <<>>
    /\ Goto(c, "announcing", "select")
    /\ regs' = regs \cup {c}
    /\ writer' = NoConn
    /\ UNCHANGED <<todo, cur, plan, outq, got, lockq, readers, feed, stalled>>

Left(c) ==
    /\ todo[c] = <<>>
    /\ Goto(c, "leaving", "gone")
    /\ writer' = NoConn
    /\ outq' = [outq EXCEPT ![c] = <<>>]
    /\ UNCHANGED <<regs, todo, cur, plan, got, lockq, readers, feed, stalled>>

\* What the task of c does on its own, once it has something to do.
Step(c) ==
    \/ GrantRead(c) \/ SendNext(c) \/ EndBroadcast(c) \/ Record(c)
    \/ WriteDone(c) \/ AckDone(c)
    \/ GrantWrite(c) \/ Joined(c) \/ Left(c)

\* What it does in its select loop.
Select(c) == WriteStart(c) \/ HeartbeatTimeout(c)

Next ==
    \/ TuiAsk \/ TuiTurn
    \/ \E c \in Conns :
          \/ Step(c) \/ Select(c)
          \/ Receive(c, Others(c))
          \/ \E d \in Others(c) : Receive(c, {d})
          \/ ReceiveMuted(c) \/ ReceiveOwn(c) \/ ReceiveHeartbeat(c)
          \/ Join(c) \/ Leave(c) \/ Fail(c) \/ Stall(c)

Spec == Init /\ [][Next]_vars

(***************************************************************************)
(* Fairness: a task that can go on does.  It is strong fairness because    *)
(* tokio's locks and channels serve their waiters in order, so a permit    *)
(* that comes free again and again gets to each of them, and because select*)
(* picks among its ready branches at random.  The TUI loop turns.  Plugins *)
(* owe nothing.                                                            *)
(***************************************************************************)
Fairness ==
    /\ WF_vars(TuiAsk \/ TuiTurn)
    /\ \A c \in Conns : SF_vars(Step(c)) /\ SF_vars(Select(c))

FairSpec == Spec /\ Fairness
-----------------------------------------------------------------------------
(***************************************************************************)
(* The lock is held by the tasks in its critical sections, by one that     *)
(* writes or by some that read, and every queue is within its capacity.    *)
(***************************************************************************)
TypeOK ==
    /\ task \in [Conns -> Tasks]
    /\ regs \subseteq Conns
    /\ todo \in [Conns -> Seq(Conns)]
    /\ plan \in [Conns -> Seq(SUBSET Conns)]
    /\ \A c \in Conns : Len(plan[c]) <= MaxEvents
    /\ \A c \in Conns : cur[c] \in 0..Len(plan[c])
    /\ \A c \in Conns : Len(outq[c]) <= Cap
    /\ readers = {c \in Conns : task[c] = "sending"}
    /\ \A c \in Conns : task[c] \in {"announcing", "leaving"} <=> writer = c
    /\ writer = NoConn \/ readers = {}
    /\ feed \in 0..FeedCap
    /\ stalled \in [Conns -> BOOLEAN]

\* What was sent to connection d, as far as d has it or will write it.
Sent(d) == got[d] \o outq[d]

\* Event n of c has been sent to d.
Reached(c, n, d) == \E i \in DOMAIN Sent(d) : Sent(d)[i] = Event(c, n)

(***************************************************************************)
(* What one source sent arrives at another connection in order, each event *)
(* once and only if it is meant for that connection, and between two that  *)
(* arrive none is left out that is.                                        *)
(***************************************************************************)
InOrder ==
    \A c, d \in Conns : \A j \in DOMAIN Sent(d) : Sent(d)[j].from = c =>
        /\ Sent(d)[j].n \in DOMAIN plan[c] /\ d \in plan[c][Sent(d)[j].n]
        /\ \A i \in 1..(j - 1) : Sent(d)[i].from = c =>
              /\ Sent(d)[i].n < Sent(d)[j].n
              /\ \A n \in Sent(d)[i].n..Sent(d)[j].n :
                    d \in plan[c][n] => \E k \in i..j : Sent(d)[k] = Event(c, n)

(***************************************************************************)
(* When a source is between two packets, every connection that has been    *)
(* registered all along has been sent everything that was meant for it.    *)
(***************************************************************************)
CaughtUp ==
    \A c \in Conns, d \in regs \ Late :
        /\ task[c] \in {"select", "writing", "acking", "recording", "closing"}
        /\ task[d] # "failed"
        => \A n \in DOMAIN plan[c] : d \in plan[c][n] => Reached(c, n, d)

(***************************************************************************)
(* What a task waits for: the lock, room in a queue, a turn of its plugin, *)
(* or room in the event channel.                                           *)
(***************************************************************************)
InLine(c) == task[c] \in {"reading", "joining", "closing"}
Sends(c) == task[c] \in {"sending", "announcing", "leaving"}

\* The next peer to be sent to takes its packets, and its queue is full.
NoRoom(c) ==
    todo[c] # <<>> /\ task[Head(todo[c])] \in HasReceiver /\ Len(outq[Head(todo[c])]) = Cap

LockIsFree(c) == FirstInLine(c) /\ writer = NoConn

CanGo(c) ==
    \/ InLine(c) /\ LockIsFree(c) /\ (task[c] = "reading" \/ readers = {})
    \/ Sends(c) /\ ~NoRoom(c)
    \/ task[c] = "recording" /\ feed < FeedCap
    \/ task[c] \in {"writing", "acking"} /\ ~stalled[c]
    \/ task[c] = "select" /\ (outq[c] # <<>> \/ stalled[c])

TuiCanGo == TuiMode /\ (TuiWaits => LockIsFree(Tui))

(***************************************************************************)
(* The relay stands still only for want of room.  The locks are given back *)
(* and pass from one to the next, so when tasks wait and nobody can go on, *)
(* the TUI included, one sends to the full queue of a task that does not   *)
(* empty it: it waits in its turn for the lock, for room, or for a plugin  *)
(* that reads no more.  In CLI mode the event channel may also be full.    *)
(***************************************************************************)
Standstill ==
    \/ \A c \in Conns : ~(InLine(c) \/ Sends(c) \/ task[c] = "recording")
    \/ TuiCanGo \/ \E c \in Conns : CanGo(c)
    \/ ~TuiMode /\ feed = FeedCap
    \/ \E c \in Conns :
          /\ Sends(c) /\ NoRoom(c)
          /\ LET d == Head(todo[c])
             IN  \/ InLine(d) \/ (Sends(d) /\ NoRoom(d))
                 \/ task[d] = "recording" /\ feed = FeedCap
                 \/ task[d] \in {"writing", "acking"} /\ stalled[d]

(***************************************************************************)
(* Every event taken in reaches every connection it is meant for that      *)
(* stays: the broadcast of ARCHITECTURE.md, "Relay broadcasts to Servers   *)
(* 2, 3, 4".  Holds while no queue fills up; run fanout_mutual shows what  *)
(* happens when two do.                                                    *)
(***************************************************************************)
EventsDelivered ==
    \A c, d \in Conns : \A n \in 1..MaxEvents :
        d \notin Late /\ Len(plan[c]) >= n /\ d \in plan[c][n]
            ~> \/ \E i \in DOMAIN got[d] : got[d][i] = Event(c, n)
               \/ task[d] \in {"closing", "leaving", "gone", "failed"}

(***************************************************************************)
(* A connection that leaves is unregistered and its peers are told:        *)
(* ARCHITECTURE.md, "(timeout or disconnect)", "Notify other servers".     *)
(***************************************************************************)
LeavingEnds == \A c \in Conns : task[c] = "closing" ~> task[c] = "gone"

(***************************************************************************)
(* What is recorded gets through: the terminal interface gets its turn,    *)
(* although it waits for the lock behind registrations and departures, and *)
(* empties the channel; so a task that waits to record goes back to its    *)
(* loop.                                                                   *)
(***************************************************************************)
RecordsFlow ==
    /\ TuiWaits ~> feed = 0
    /\ \A c \in Conns : task[c] = "recording" ~> task[c] = "select"
=============================================================================
