---------------------------- MODULE FanoutProofs ----------------------------
(***************************************************************************)
(* Proofs about Fanout for any finite set of connections, in any of their  *)
(* roles, any capacities and any bound on the events.                      *)
(*                                                                         *)
(* The argument: a task is in one of its critical sections exactly while  *)
(* it holds the lock of servers, so while one reads nobody registers or    *)
(* leaves (Locks); then the peers its broadcast has yet to send to stay in *)
(* servers (Placed, TodoInv).  DeliveryProofs builds on this invariant.    *)
(* Who waits for the lock stands in its line, once (LockLine), and whoever *)
(* holds it sends: so when nobody can go on, want of room is why.          *)
(***************************************************************************)
EXTENDS Fanout, FiniteSetTheorems, SequenceTheorems, TLAPS

Messages == [from : Conns \cup {NoConn}, n : Nat]

\* TypeOK without the lock, and with the types of the messages.
Types ==
    /\ task \in [Conns -> Tasks]
    /\ regs \subseteq Conns
    /\ todo \in [Conns -> Seq(Conns)]
    /\ plan \in [Conns -> Seq(SUBSET Conns)]
    /\ \A c \in Conns : Len(plan[c]) <= MaxEvents
    /\ cur \in [Conns -> Nat]
    /\ \A c \in Conns : cur[c] \in 0..Len(plan[c])
    /\ \A c \in Conns : Len(outq[c]) <= Cap
    /\ feed \in 0..FeedCap
    /\ stalled \in [Conns -> BOOLEAN]
    /\ outq \in [Conns -> Seq(Messages)]
    /\ got \in [Conns -> Seq(Messages)]

\* Who holds the lock of servers.
Locks ==
    /\ readers = {c \in Conns : task[c] = "sending"}
    /\ \A c \in Conns : task[c] \in {"announcing", "leaving"} <=> writer = c
    /\ writer = NoConn \/ readers = {}

\* Where the tasks are that have no entry in servers, and those that have one.
Newcomer == {"out", "joining", "announcing"}
Serving == {"select", "writing", "acking", "reading", "sending", "recording", "closing"}

Placed ==
    \A c \in Conns :
        /\ task[c] \in Serving => c \in regs
        /\ task[c] \in Newcomer \cup {"leaving", "gone"} => c \notin regs
        /\ task[c] \in Newcomer => c \in Late

\* A source is at its latest event, or at one that is muted.
AtLatest ==
    \A c \in Conns : task[c] \in {"reading", "sending"} => cur[c] \in {0, Len(plan[c])}

\* The peers still to be sent to are registered, wanted, and listed once.
TodoOf(c) ==
    /\ task[c] = "sending" =>
          /\ cur[c] = 0 => todo[c] = <<>>
          /\ \A i \in 1..Len(todo[c]) : todo[c][i] \in regs /\ todo[c][i] \in Dest(c)
    /\ \A i, j \in 1..Len(todo[c]) : todo[c][i] = todo[c][j] => i = j

TodoInv == \A c \in Conns : TodoOf(c)

Inv == Types /\ Locks /\ Placed /\ AtLatest /\ TodoInv
-----------------------------------------------------------------------------
\* The orders in which a loop may go through a set: each member once.
LEMMA OrdersAreSequences ==
    ASSUME NEW S \in SUBSET Conns, NEW order \in Orders(S)
    PROVE  /\ order \in Seq(Conns)
           /\ \A i \in 1..Len(order) : order[i] \in S
           /\ \A i, j \in 1..Len(order) : order[i] = order[j] => i = j
           /\ \A d \in S : \E i \in 1..Len(order) : order[i] = d
<1>1. IsFiniteSet(S) /\ Cardinality(S) \in Nat
  BY ConnsAssumption, FS_Subset, FS_CardinalityType
<1> DEFINE N == Cardinality(S)
<1>2. /\ order \in [1..N -> S] /\ DOMAIN order = 1..N
      /\ \A i, j \in 1..N : order[i] = order[j] => i = j
  BY DEF Orders
<1>3. order \in Seq(Conns) /\ Len(order) = N
  <2>1. order \in Seq(S) /\ Len(order) = N
    BY <1>1, <1>2, SeqDef
  <2> QED
    BY <2>1, SeqMonotonic
<1>4. \A d \in S : \E i \in 1..N : order[i] = d
  <2>1. order \in Injection(1..N, S)
    BY <1>2 DEF Injection, IsInjective
  <2>2. IsFiniteSet(1..N) /\ Cardinality(1..N) = N
    BY <1>1, FS_Interval
  <2>3. order \in Surjection(1..N, S)
    BY <1>1, <2>1, <2>2, FS_Injection
  <2> QED
    BY <2>3 DEF Surjection
<1> QED
  BY <1>2, <1>3, <1>4

\* The rest of the list, after a send to its head.
LEMMA TailOfTodo ==
    ASSUME NEW s \in Seq(Conns), s # <<>>,
           \A i, j \in 1..Len(s) : s[i] = s[j] => i = j
    PROVE  /\ Tail(s) \in Seq(Conns) /\ Head(s) \in Conns /\ Head(s) = s[1] /\ 1 \in 1..Len(s)
           /\ \A i \in 1..Len(Tail(s)) : /\ i + 1 \in 1..Len(s) /\ Tail(s)[i] = s[i + 1]
                                         /\ Tail(s)[i] # Head(s)
           /\ \A i, j \in 1..Len(Tail(s)) : Tail(s)[i] = Tail(s)[j] => i = j
           /\ \A i \in 1..Len(s) : s[i] # Head(s) => \E j \in 1..Len(Tail(s)) : Tail(s)[j] = s[i]
<1>1. /\ Head(s) \in Conns /\ Tail(s) \in Seq(Conns) /\ Len(Tail(s)) = Len(s) - 1
      /\ \A i \in 1..Len(Tail(s)) : Tail(s)[i] = s[i + 1]
  BY HeadTailProperties
<1>2. Len(s) \in Nat \ {0} /\ Head(s) = s[1]
  BY EmptySeq, HeadTailOfSubSeq, LenProperties
<1>3. \A i \in 1..Len(Tail(s)) : i + 1 \in 1..Len(s) /\ i + 1 # 1
  BY <1>1, <1>2
<1>4. \A i, j \in 1..Len(Tail(s)) : Tail(s)[i] = Tail(s)[j] => i = j
  <2> TAKE i, j \in 1..Len(Tail(s))
  <2>1. Tail(s)[i] = Tail(s)[j] => i + 1 = j + 1
    BY <1>1, <1>3
  <2> QED
    BY <2>1, <1>1, <1>2
<1>5. ASSUME NEW i \in 1..Len(s), s[i] # Head(s)
      PROVE  \E j \in 1..Len(Tail(s)) : Tail(s)[j] = s[i]
  <2>1. i - 1 \in 1..Len(Tail(s)) /\ (i - 1) + 1 = i
    BY <1>1, <1>2, <1>5
  <2> QED
    BY <1>1, <2>1
<1> QED
  BY <1>1, <1>2, <1>3, <1>4, <1>5

-----------------------------------------------------------------------------
LEMMA InvInit == Init => Inv
<1> SUFFICES ASSUME Init PROVE Inv
  OBVIOUS
<1> USE DEF Init
<1>1. Types
  <2>1. task \in [Conns -> Tasks] /\ regs \subseteq Conns /\ stalled \in [Conns -> BOOLEAN]
    BY DEF Tasks
  <2>2. \A c \in Conns : todo[c] = <<>> /\ plan[c] = <<>> /\ outq[c] = <<>> /\ cur[c] = 0
    OBVIOUS
  <2>3. /\ todo \in [Conns -> Seq(Conns)] /\ plan \in [Conns -> Seq(SUBSET Conns)]
        /\ cur \in [Conns -> Nat]
        /\ outq \in [Conns -> Seq(Messages)] /\ got \in [Conns -> Seq(Messages)]
    BY EmptySeq
  <2>4. /\ \A c \in Conns : Len(plan[c]) <= MaxEvents
        /\ \A c \in Conns : cur[c] \in 0..Len(plan[c])
        /\ \A c \in Conns : Len(outq[c]) <= Cap
        /\ feed \in 0..FeedCap
    BY <2>2, SizesAssumption, EmptySeq
  <2> QED
    BY <2>1, <2>3, <2>4 DEF Types
<1>2. Locks
  BY SentinelAssumption DEF Locks
<1>3. Placed
  BY LateAssumption DEF Placed, Newcomer, Serving
<1>4. AtLatest
  BY DEF AtLatest
<1>5. TodoInv
  BY EmptySeq DEF TodoInv, TodoOf
<1> QED
  BY <1>1, <1>2, <1>3, <1>4, <1>5 DEF Inv

LEMMA InvIsTyped == Inv => TypeOK
BY DEF Inv, Types, Locks, TypeOK

LEMMA ReceiveKeepsInv ==
    ASSUME Inv, NEW c \in Conns, NEW dest \in SUBSET Conns, Receive(c, dest)
    PROVE  Inv'
<1> USE DEF Inv, Receive, Goto
<1>1. Types'
  <2>1. /\ task' \in [Conns -> Tasks] /\ regs' \subseteq Conns
        /\ todo' \in [Conns -> Seq(Conns)] /\ feed' \in 0..FeedCap
        /\ stalled' \in [Conns -> BOOLEAN]
        /\ outq' \in [Conns -> Seq(Messages)] /\ got' \in [Conns -> Seq(Messages)]
        /\ \A d \in Conns : Len(outq'[d]) <= Cap
    BY DEF Types, Tasks
  <2>2. /\ plan \in [Conns -> Seq(SUBSET Conns)] /\ plan[c] \in Seq(SUBSET Conns)
        /\ cur \in [Conns -> Nat] /\ \A d \in Conns : Len(plan[d]) <= MaxEvents
        /\ \A d \in Conns : cur[d] \in 0..Len(plan[d])
    BY DEF Types
  <2>3. Append(plan[c], dest) \in Seq(SUBSET Conns) /\ Len(Append(plan[c], dest)) = Len(plan[c]) + 1
    BY <2>2, AppendProperties
  <2>4. Len(plan[c]) \in Nat
    BY <2>2, LenProperties
  <2>5. plan' \in [Conns -> Seq(SUBSET Conns)] /\ cur' \in [Conns -> Nat]
    BY <2>2, <2>3, <2>4
  <2>6. \A d \in Conns : Len(plan'[d]) <= MaxEvents /\ cur'[d] \in 0..Len(plan'[d])
    <3> TAKE d \in Conns
    <3>1. CASE d = c
      BY <3>1, <2>2, <2>3, <2>4, SizesAssumption
    <3>2. CASE d # c
      BY <3>2, <2>2
    <3> QED
      BY <3>1, <3>2
  <2> QED
    BY <2>1, <2>5, <2>6 DEF Types
<1>2. Locks'
  BY DEF Types, Locks
<1>3. Placed'
  BY DEF Types, Locks, Placed, Newcomer, Serving
<1>4. AtLatest'
  BY DEF Types, AtLatest
<1>5. TodoInv'
  BY DEF Types, Locks, TodoInv, TodoOf, Dest, AtLatest
<1> QED
  BY <1>1, <1>2, <1>3, <1>4, <1>5

LEMMA ReceiveMutedKeepsInv ==
    ASSUME Inv, NEW c \in Conns, ReceiveMuted(c)
    PROVE  Inv'
<1> USE DEF Inv, ReceiveMuted, Goto
<1>1. Types'
  BY DEF Types, Tasks
<1>2. Locks'
  BY DEF Types, Locks
<1>3. Placed'
  BY DEF Types, Locks, Placed, Newcomer, Serving
<1>4. AtLatest'
  BY DEF Types, AtLatest
<1>5. TodoInv'
  BY DEF Types, Locks, TodoInv, TodoOf, Dest, AtLatest
<1> QED
  BY <1>1, <1>2, <1>3, <1>4, <1>5

LEMMA ReceiveOwnKeepsInv ==
    ASSUME Inv, NEW c \in Conns, ReceiveOwn(c)
    PROVE  Inv'
<1> USE DEF Inv, ReceiveOwn, Goto
<1>1. Types'
  BY DEF Types, Tasks
<1>2. Locks'
  BY DEF Types, Locks
<1>3. Placed'
  BY DEF Types, Locks, Placed, Newcomer, Serving
<1>4. AtLatest'
  BY DEF Types, AtLatest
<1>5. TodoInv'
  BY DEF Types, Locks, TodoInv, TodoOf, Dest, AtLatest
<1> QED
  BY <1>1, <1>2, <1>3, <1>4, <1>5

LEMMA ReceiveHeartbeatKeepsInv ==
    ASSUME Inv, NEW c \in Conns, ReceiveHeartbeat(c)
    PROVE  Inv'
<1> USE DEF Inv, ReceiveHeartbeat, Goto
<1>1. Types'
  BY DEF Types, Tasks
<1>2. Locks'
  BY DEF Types, Locks
<1>3. Placed'
  BY DEF Types, Locks, Placed, Newcomer, Serving
<1>4. AtLatest'
  BY DEF Types, AtLatest
<1>5. TodoInv'
  BY DEF Types, Locks, TodoInv, TodoOf, Dest, AtLatest
<1> QED
  BY <1>1, <1>2, <1>3, <1>4, <1>5

LEMMA AckDoneKeepsInv ==
    ASSUME Inv, NEW c \in Conns, AckDone(c)
    PROVE  Inv'
<1> USE DEF Inv, AckDone, Goto
<1>1. Types'
  BY DEF Types, Tasks
<1>2. Locks'
  BY DEF Types, Locks
<1>3. Placed'
  BY DEF Types, Locks, Placed, Newcomer, Serving
<1>4. AtLatest'
  BY DEF Types, AtLatest
<1>5. TodoInv'
  BY DEF Types, Locks, TodoInv, TodoOf, Dest, AtLatest
<1> QED
  BY <1>1, <1>2, <1>3, <1>4, <1>5

LEMMA GrantReadKeepsInv ==
    ASSUME Inv, NEW c \in Conns, GrantRead(c)
    PROVE  Inv'
<1> USE DEF Inv, GrantRead, Goto
<1>1. Types'
  <2>1. PICK order \in Orders(regs \cap Dest(c)) : todo' = [todo EXCEPT ![c] = order]
    OBVIOUS
  <2>2. order \in Seq(Conns)
    BY OrdersAreSequences DEF Types
  <2>3. todo' \in [Conns -> Seq(Conns)]
    BY <2>1, <2>2 DEF Types
  <2> QED
    BY <2>3 DEF Types, Tasks
<1>2. Locks'
  BY DEF Types, Locks
<1>3. Placed'
  BY DEF Types, Locks, Placed, Newcomer, Serving
<1>4. AtLatest'
  BY DEF Types, AtLatest
<1>5. TodoInv'
  <2>1. PICK order \in Orders(regs \cap Dest(c)) : todo' = [todo EXCEPT ![c] = order]
    OBVIOUS
  <2> HIDE DEF Inv, GrantRead, Goto
  <2>2. /\ \A i \in 1..Len(order) : order[i] \in regs /\ order[i] \in Dest(c)
        /\ \A i, j \in 1..Len(order) : order[i] = order[j] => i = j
    <3>1. regs \cap Dest(c) \in SUBSET Conns
      BY DEF Inv, Types
    <3> QED
      BY <3>1, OrdersAreSequences
  <2> USE DEF Inv, GrantRead, Goto
  <2>3. cur[c] = 0 => order = <<>>
    <3> HAVE cur[c] = 0
    <3>1. order \in Seq(Conns) /\ \A i \in 1..Len(order) : FALSE
      BY <2>2, OrdersAreSequences DEF Types, Dest
    <3> QED
      BY <3>1, LenProperties, EmptySeq
  <2>4. TodoOf(c)'
    BY <2>1, <2>2, <2>3 DEF TodoOf, Types, Dest
  <2>5. ASSUME NEW d \in Conns \ {c} PROVE TodoOf(d)'
    BY <2>1 DEF TodoOf, TodoInv, Types, Dest
  <2> QED
    BY <2>4, <2>5 DEF TodoInv
<1> QED
  BY <1>1, <1>2, <1>3, <1>4, <1>5

LEMMA SendNextKeepsInv ==
    ASSUME Inv, NEW c \in Conns, SendNext(c)
    PROVE  Inv'
<1> USE DEF Inv, SendNext, Goto
<1>1. Types'
  <2> DEFINE d == Head(todo[c])
             m == IF task[c] = "sending" THEN Event(c, cur[c]) ELSE Notice
  <2>1. d \in Conns /\ Tail(todo[c]) \in Seq(Conns)
    BY HeadTailProperties DEF Types
  <2>2. m \in Messages
    <3>1. Event(c, cur[c]) \in Messages /\ Notice \in Messages
      BY DEF Messages, Event, Notice, Types
    <3> QED
      BY <3>1
  <2>3. \/ outq' = outq
        \/ Len(outq[d]) < Cap /\ outq' = [outq EXCEPT ![d] = Append(@, m)]
    OBVIOUS
  <2>4. /\ outq \in [Conns -> Seq(Messages)] /\ \A e \in Conns : Len(outq[e]) <= Cap
        /\ outq[d] \in Seq(Messages)
    BY <2>1 DEF Types
  <2> HIDE DEF d, m, Inv, SendNext
  <2>5. /\ Append(outq[d], m) \in Seq(Messages)
        /\ Len(Append(outq[d], m)) = Len(outq[d]) + 1 /\ Len(outq[d]) \in Nat
    BY <2>2, <2>4, AppendProperties, LenProperties
  <2>6. outq' \in [Conns -> Seq(Messages)]
    BY <2>1, <2>3, <2>4, <2>5
  <2>7. ASSUME NEW e \in Conns PROVE Len(outq'[e]) <= Cap
    <3>1. CASE e = d
      BY <3>1, <2>1, <2>3, <2>4, <2>5, SizesAssumption
    <3>2. CASE e # d
      BY <3>2, <2>3, <2>4
    <3> QED
      BY <3>1, <3>2
  <2> QED
    BY <2>1, <2>6, <2>7 DEF Types, Inv, SendNext
<1>2. Locks'
  BY DEF Types, Locks
<1>3. Placed'
  BY DEF Types, Locks, Placed, Newcomer, Serving
<1>4. AtLatest'
  BY DEF Types, AtLatest
<1>5. TodoInv'
  <2>1. /\ \A i, j \in 1..Len(Tail(todo[c])) : Tail(todo[c])[i] = Tail(todo[c])[j] => i = j
        /\ \A i \in 1..Len(Tail(todo[c])) : /\ i + 1 \in 1..Len(todo[c])
                                            /\ Tail(todo[c])[i] = todo[c][i + 1]
    <3> DEFINE s == todo[c]
    <3>1. s \in Seq(Conns) /\ s # <<>> /\ \A i, j \in 1..Len(s) : s[i] = s[j] => i = j
      BY DEF TodoInv, TodoOf, Types
    <3> HIDE DEF s
    <3>2. /\ \A i, j \in 1..Len(Tail(s)) : Tail(s)[i] = Tail(s)[j] => i = j
          /\ \A i \in 1..Len(Tail(s)) : i + 1 \in 1..Len(s) /\ Tail(s)[i] = s[i + 1]
      BY <3>1, TailOfTodo
    <3> QED
      BY <3>2, Zenon DEF s
  <2>2. TodoOf(c)'
    <3>1. todo'[c] = Tail(todo[c]) /\ TodoOf(c)
      BY DEF Types, TodoInv
    <3>2. task[c] = "sending" => cur[c] # 0
      BY <3>1 DEF TodoOf
    <3>3. task'[c] = task[c] /\ cur'[c] = cur[c] /\ regs' = regs /\ Dest(c)' = Dest(c)
      BY DEF Dest
    <3> HIDE DEF Inv, SendNext, Goto
    <3>4. task'[c] = "sending" => cur'[c] # 0
      BY <3>2, <3>3
    <3>5. ASSUME task'[c] = "sending", NEW i \in 1..Len(todo'[c])
          PROVE  todo'[c][i] \in regs' /\ todo'[c][i] \in Dest(c)'
      <4>1. i + 1 \in 1..Len(todo[c]) /\ todo'[c][i] = todo[c][i + 1]
        BY <3>1, <3>5, <2>1
      <4> QED
        BY <4>1, <3>1, <3>3, <3>5 DEF TodoOf
    <3>6. \A i, j \in 1..Len(todo'[c]) : todo'[c][i] = todo'[c][j] => i = j
      BY <3>1, <2>1
    <3> QED
      BY <3>4, <3>5, <3>6 DEF TodoOf
  <2>3. ASSUME NEW e \in Conns \ {c} PROVE TodoOf(e)'
    <3>1. /\ task'[e] = task[e] /\ cur'[e] = cur[e] /\ plan'[e] = plan[e] /\ regs' = regs
          /\ todo'[e] = todo[e] /\ TodoOf(e)
      BY DEF TodoInv, Types
    <3> HIDE DEF Inv, SendNext, Goto
    <3> QED
      BY <3>1 DEF TodoOf, Dest
  <2> QED
    BY <2>2, <2>3 DEF TodoInv
<1> QED
  BY <1>1, <1>2, <1>3, <1>4, <1>5

LEMMA EndBroadcastKeepsInv ==
    ASSUME Inv, NEW c \in Conns, EndBroadcast(c)
    PROVE  Inv'
<1> USE DEF Inv, EndBroadcast, Goto
<1>1. Types'
  BY DEF Types, Tasks
<1>2. Locks'
  BY DEF Types, Locks
<1>3. Placed'
  BY DEF Types, Locks, Placed, Newcomer, Serving
<1>4. AtLatest'
  BY DEF Types, AtLatest
<1>5. TodoInv'
  BY DEF Types, Locks, TodoInv, TodoOf, Dest, AtLatest
<1> QED
  BY <1>1, <1>2, <1>3, <1>4, <1>5

LEMMA RecordKeepsInv ==
    ASSUME Inv, NEW c \in Conns, Record(c)
    PROVE  Inv'
<1> USE DEF Inv, Record, Goto
<1>1. Types'
  <2>1. feed' \in 0..FeedCap
    BY SizesAssumption DEF Types
  <2> QED
    BY <2>1 DEF Types, Tasks
<1>2. Locks'
  BY DEF Types, Locks
<1>3. Placed'
  BY DEF Types, Locks, Placed, Newcomer, Serving
<1>4. AtLatest'
  BY DEF Types, AtLatest
<1>5. TodoInv'
  BY DEF Types, Locks, TodoInv, TodoOf, Dest, AtLatest
<1> QED
  BY <1>1, <1>2, <1>3, <1>4, <1>5

LEMMA WriteStartKeepsInv ==
    ASSUME Inv, NEW c \in Conns, WriteStart(c)
    PROVE  Inv'
<1> USE DEF Inv, WriteStart, Goto
<1>1. Types'
  <2>1. outq[c] \in Seq(Messages) /\ got[c] \in Seq(Messages) /\ Len(outq[c]) <= Cap
    BY DEF Types
  <2>2. /\ Head(outq[c]) \in Messages /\ Tail(outq[c]) \in Seq(Messages)
        /\ Len(Tail(outq[c])) = Len(outq[c]) - 1 /\ Len(outq[c]) \in Nat
    BY <2>1, HeadTailProperties, LenProperties
  <2>3. Append(got[c], Head(outq[c])) \in Seq(Messages)
    BY <2>1, <2>2, AppendProperties
  <2>4. got' \in [Conns -> Seq(Messages)] /\ outq' \in [Conns -> Seq(Messages)]
    BY <2>2, <2>3 DEF Types
  <2>5. ASSUME NEW d \in Conns PROVE Len(outq'[d]) <= Cap
    <3>1. CASE d = c
      BY <3>1, <2>1, <2>2, SizesAssumption DEF Types
    <3>2. CASE d # c
      BY <3>2 DEF Types
    <3> QED
      BY <3>1, <3>2
  <2> QED
    BY <2>4, <2>5 DEF Types, Tasks
<1>2. Locks'
  BY DEF Types, Locks
<1>3. Placed'
  BY DEF Types, Locks, Placed, Newcomer, Serving
<1>4. AtLatest'
  BY DEF Types, AtLatest
<1>5. TodoInv'
  BY DEF Types, Locks, TodoInv, TodoOf, Dest, AtLatest
<1> QED
  BY <1>1, <1>2, <1>3, <1>4, <1>5

LEMMA WriteDoneKeepsInv ==
    ASSUME Inv, NEW c \in Conns, WriteDone(c)
    PROVE  Inv'
<1> USE DEF Inv, WriteDone, Goto
<1>1. Types'
  BY DEF Types, Tasks
<1>2. Locks'
  BY DEF Types, Locks
<1>3. Placed'
  BY DEF Types, Locks, Placed, Newcomer, Serving
<1>4. AtLatest'
  BY DEF Types, AtLatest
<1>5. TodoInv'
  BY DEF Types, Locks, TodoInv, TodoOf, Dest, AtLatest
<1> QED
  BY <1>1, <1>2, <1>3, <1>4, <1>5

LEMMA StallKeepsInv ==
    ASSUME Inv, NEW c \in Conns, Stall(c)
    PROVE  Inv'
<1> USE DEF Inv, Stall, Goto
<1>1. Types'
  BY DEF Types, Tasks
<1>2. Locks'
  BY DEF Types, Locks
<1>3. Placed'
  BY DEF Types, Locks, Placed, Newcomer, Serving
<1>4. AtLatest'
  BY DEF Types, AtLatest
<1>5. TodoInv'
  BY DEF Types, Locks, TodoInv, TodoOf, Dest, AtLatest
<1> QED
  BY <1>1, <1>2, <1>3, <1>4, <1>5

LEMMA JoinKeepsInv ==
    ASSUME Inv, NEW c \in Conns, Join(c)
    PROVE  Inv'
<1> USE DEF Inv, Join, Goto
<1>1. Types'
  BY DEF Types, Tasks
<1>2. Locks'
  BY DEF Types, Locks
<1>3. Placed'
  BY DEF Types, Locks, Placed, Newcomer, Serving
<1>4. AtLatest'
  BY DEF Types, AtLatest
<1>5. TodoInv'
  BY DEF Types, Locks, TodoInv, TodoOf, Dest, AtLatest
<1> QED
  BY <1>1, <1>2, <1>3, <1>4, <1>5

LEMMA LeaveKeepsInv ==
    ASSUME Inv, NEW c \in Conns, Leave(c)
    PROVE  Inv'
<1> USE DEF Inv, Leave, Goto
<1>1. Types'
  BY DEF Types, Tasks
<1>2. Locks'
  BY DEF Types, Locks
<1>3. Placed'
  BY DEF Types, Locks, Placed, Newcomer, Serving
<1>4. AtLatest'
  BY DEF Types, AtLatest
<1>5. TodoInv'
  BY DEF Types, Locks, TodoInv, TodoOf, Dest, AtLatest
<1> QED
  BY <1>1, <1>2, <1>3, <1>4, <1>5

LEMMA FailKeepsInv ==
    ASSUME Inv, NEW c \in Conns, Fail(c)
    PROVE  Inv'
<1> USE DEF Inv, Fail, Goto
<1>1. Types'
  <2>1. outq' \in [Conns -> Seq(Messages)] /\ \A d \in Conns : Len(outq'[d]) <= Cap
    BY EmptySeq, SizesAssumption DEF Types
  <2> QED
    BY <2>1 DEF Types, Tasks
<1>2. Locks'
  BY DEF Types, Locks
<1>3. Placed'
  BY DEF Types, Locks, Placed, Newcomer, Serving
<1>4. AtLatest'
  BY DEF Types, AtLatest
<1>5. TodoInv'
  BY DEF Types, Locks, TodoInv, TodoOf, Dest, AtLatest
<1> QED
  BY <1>1, <1>2, <1>3, <1>4, <1>5

LEMMA HeartbeatTimeoutKeepsInv ==
    ASSUME Inv, NEW c \in Conns, HeartbeatTimeout(c)
    PROVE  Inv'
<1> USE DEF Inv, HeartbeatTimeout, Goto
<1>1. Types'
  <2>1. outq' \in [Conns -> Seq(Messages)] /\ \A d \in Conns : Len(outq'[d]) <= Cap
    BY EmptySeq, SizesAssumption DEF Types
  <2> QED
    BY <2>1 DEF Types, Tasks
<1>2. Locks'
  BY DEF Types, Locks
<1>3. Placed'
  BY DEF Types, Locks, Placed, Newcomer, Serving
<1>4. AtLatest'
  BY DEF Types, AtLatest
<1>5. TodoInv'
  BY DEF Types, Locks, TodoInv, TodoOf, Dest, AtLatest
<1> QED
  BY <1>1, <1>2, <1>3, <1>4, <1>5

LEMMA GrantWriteKeepsInv ==
    ASSUME Inv, NEW c \in Conns, GrantWrite(c)
    PROVE  Inv'
<1> USE DEF Inv, GrantWrite, Goto
<1>1. Types'
  <2>1. PICK order \in Orders(regs \ {c}) : todo' = [todo EXCEPT ![c] = order]
    OBVIOUS
  <2>2. order \in Seq(Conns)
    BY OrdersAreSequences DEF Types
  <2>3. todo' \in [Conns -> Seq(Conns)]
    BY <2>1, <2>2 DEF Types
  <2>4. task' \in [Conns -> Tasks] /\ regs' \subseteq Conns
    BY DEF Types, Tasks
  <2> QED
    BY <2>3, <2>4 DEF Types
<1>2. Locks'
  <2>1. /\ writer' = c /\ readers' = {} /\ task \in [Conns -> Tasks]
        /\ \A d \in Conns : task[d] # "sending" /\ task[d] \notin {"announcing", "leaving"}
    BY SentinelAssumption DEF Types, Locks
  <2>2. task'[c] \in {"announcing", "leaving"} /\ \A d \in Conns \ {c} : task'[d] = task[d]
    BY <2>1
  <2> QED
    BY <2>1, <2>2 DEF Locks
<1>3. Placed'
  BY DEF Types, Locks, Placed, Newcomer, Serving
<1>4. AtLatest'
  BY DEF Types, AtLatest
<1>5. TodoInv'
  <2>1. PICK order \in Orders(regs \ {c}) : todo' = [todo EXCEPT ![c] = order]
    OBVIOUS
  <2>2. \A i, j \in 1..Len(order) : order[i] = order[j] => i = j
    BY OrdersAreSequences DEF Types
  <2>3. \A d \in Conns : task'[d] # "sending"
    BY DEF Types, Locks
  <2>4. todo'[c] = order /\ \A d \in Conns \ {c} : todo'[d] = todo[d]
    BY <2>1 DEF Types
  <2> QED
    BY <2>2, <2>3, <2>4 DEF TodoInv, TodoOf
<1> QED
  BY <1>1, <1>2, <1>3, <1>4, <1>5

LEMMA JoinedKeepsInv ==
    ASSUME Inv, NEW c \in Conns, Joined(c)
    PROVE  Inv'
<1> USE DEF Inv, Joined, Goto
<1>1. Types'
  BY DEF Types, Tasks
<1>2. Locks'
  <2>1. /\ writer = c /\ writer' = NoConn /\ readers = {} /\ readers' = {}
        /\ task'[c] = "select" /\ \A d \in Conns \ {c} : task'[d] = task[d]
    BY SentinelAssumption DEF Types, Locks
  <2>2. \A d \in Conns : task'[d] \notin {"announcing", "leaving", "sending"} /\ writer' # d
    BY <2>1, SentinelAssumption DEF Locks
  <2> QED
    BY <2>1, <2>2 DEF Locks
<1>3. Placed'
  BY DEF Types, Locks, Placed, Newcomer, Serving
<1>4. AtLatest'
  BY DEF Types, AtLatest
<1>5. TodoInv'
  BY DEF Types, Locks, TodoInv, TodoOf, Dest, AtLatest
<1> QED
  BY <1>1, <1>2, <1>3, <1>4, <1>5

LEMMA LeftKeepsInv ==
    ASSUME Inv, NEW c \in Conns, Left(c)
    PROVE  Inv'
<1> USE DEF Inv, Left, Goto
<1>1. Types'
  <2>1. outq' \in [Conns -> Seq(Messages)] /\ \A d \in Conns : Len(outq'[d]) <= Cap
    BY EmptySeq, SizesAssumption DEF Types
  <2> QED
    BY <2>1 DEF Types, Tasks
<1>2. Locks'
  <2>1. /\ writer = c /\ writer' = NoConn /\ readers = {} /\ readers' = {}
        /\ task'[c] = "gone" /\ \A d \in Conns \ {c} : task'[d] = task[d]
    BY SentinelAssumption DEF Types, Locks
  <2>2. \A d \in Conns : task'[d] \notin {"announcing", "leaving", "sending"} /\ writer' # d
    BY <2>1, SentinelAssumption DEF Locks
  <2> QED
    BY <2>1, <2>2 DEF Locks
<1>3. Placed'
  BY DEF Types, Locks, Placed, Newcomer, Serving
<1>4. AtLatest'
  BY DEF Types, AtLatest
<1>5. TodoInv'
  BY DEF Types, Locks, TodoInv, TodoOf, Dest, AtLatest
<1> QED
  BY <1>1, <1>2, <1>3, <1>4, <1>5

\* A step of the terminal interface, or none.
LEMMA OthersKeepInv ==
    ASSUME Inv, TuiAsk \/ TuiTurn \/ UNCHANGED vars
    PROVE  Inv'
<1>1. /\ UNCHANGED <<task, regs, todo, cur, plan, outq, got, readers, writer, stalled>>
      /\ feed' \in {feed, 0}
  BY DEF TuiAsk, TuiTurn, vars
<1>2. Types'
  BY <1>1, SizesAssumption DEF Inv, Types
<1>3. Locks' /\ Placed' /\ AtLatest'
  BY <1>1 DEF Inv, Locks, Placed, AtLatest
<1>4. TodoInv'
  BY <1>1 DEF Inv, TodoInv, TodoOf, Dest
<1> QED
  BY <1>2, <1>3, <1>4 DEF Inv

\* Every action of Next, one by one.
LEMMA NextCases ==
    ASSUME [Next]_vars, NEW P,
           TuiAsk \/ TuiTurn \/ UNCHANGED vars => P,
           \A c \in Conns :
              /\ \A dest \in SUBSET Conns : Receive(c, dest) => P
              /\ ReceiveMuted(c) \/ ReceiveOwn(c) \/ ReceiveHeartbeat(c) \/ AckDone(c) => P
              /\ GrantRead(c) => P
              /\ SendNext(c) => P
              /\ EndBroadcast(c) \/ Record(c) \/ WriteDone(c) \/ Stall(c) => P
              /\ WriteStart(c) => P
              /\ Join(c) \/ Leave(c) \/ Joined(c) => P
              /\ Fail(c) \/ HeartbeatTimeout(c) \/ Left(c) => P
              /\ GrantWrite(c) => P
    PROVE  P
<1>1. CASE TuiAsk \/ TuiTurn \/ UNCHANGED vars
  BY <1>1
<1>2. ASSUME NEW c \in Conns, Step(c) PROVE P
  BY <1>2 DEF Step
<1>3. ASSUME NEW c \in Conns, Select(c) PROVE P
  BY <1>3 DEF Select
<1>4. ASSUME NEW c \in Conns,
             Receive(c, Others(c)) \/ \E d \in Others(c) : Receive(c, {d})
      PROVE  P
  <2>1. Others(c) \in SUBSET Conns /\ \A d \in Others(c) : {d} \in SUBSET Conns
    BY DEF Others
  <2> QED
    BY <1>4, <2>1
<1>5. ASSUME NEW c \in Conns,
             \/ ReceiveMuted(c) \/ ReceiveOwn(c) \/ ReceiveHeartbeat(c)
             \/ Join(c) \/ Leave(c) \/ Fail(c) \/ Stall(c)
      PROVE  P
  BY <1>5
<1> QED
  BY <1>1, <1>2, <1>3, <1>4, <1>5 DEF Next

LEMMA InvStep == Inv /\ [Next]_vars => Inv'
<1> SUFFICES ASSUME Inv, [Next]_vars PROVE Inv'
  OBVIOUS
<1>1. TuiAsk \/ TuiTurn \/ UNCHANGED vars => Inv'
  BY OthersKeepInv
<1>2. ASSUME NEW c \in Conns
      PROVE  /\ \A dest \in SUBSET Conns : Receive(c, dest) => Inv'
             /\ ReceiveMuted(c) \/ ReceiveOwn(c) \/ ReceiveHeartbeat(c) \/ AckDone(c) => Inv'
             /\ GrantRead(c) => Inv'
             /\ SendNext(c) => Inv'
             /\ EndBroadcast(c) \/ Record(c) \/ WriteDone(c) \/ Stall(c) => Inv'
             /\ WriteStart(c) => Inv'
             /\ Join(c) \/ Leave(c) \/ Joined(c) => Inv'
             /\ Fail(c) \/ HeartbeatTimeout(c) \/ Left(c) => Inv'
             /\ GrantWrite(c) => Inv'
  BY ReceiveKeepsInv, ReceiveMutedKeepsInv, ReceiveOwnKeepsInv, ReceiveHeartbeatKeepsInv,
     AckDoneKeepsInv, GrantReadKeepsInv, SendNextKeepsInv, EndBroadcastKeepsInv, RecordKeepsInv,
     WriteStartKeepsInv, WriteDoneKeepsInv, StallKeepsInv, JoinKeepsInv, LeaveKeepsInv,
     FailKeepsInv, HeartbeatTimeoutKeepsInv, GrantWriteKeepsInv, JoinedKeepsInv, LeftKeepsInv
<1> QED
  BY <1>1, <1>2, NextCases

(***************************************************************************)
(* Tasks hold the lock of servers exactly in their critical sections, and  *)
(* no queue outgrows its capacity.                                         *)
(***************************************************************************)
THEOREM TypeCorrect == Spec => []TypeOK
BY InvInit, InvStep, InvIsTyped, PTL DEF Spec
-----------------------------------------------------------------------------
(***************************************************************************)
(* The line for the lock holds whoever waits for it, once each, and nobody *)
(* else: so its first can always be served when the lock is free.          *)
(***************************************************************************)
Waiting == {"reading", "joining", "closing"}

LockLine ==
    /\ lockq \in Seq(Conns \cup {Tui})
    /\ \A i \in 1..Len(lockq) :
          IF lockq[i] = Tui THEN TuiMode ELSE task[lockq[i]] \in Waiting
    /\ \A i, j \in 1..Len(lockq) : lockq[i] = lockq[j] => i = j
    /\ \A c \in Conns : InLine(c) => \E i \in 1..Len(lockq) : lockq[i] = c

\* Somebody new at the end of a line.
LEMMA LineGrows ==
    ASSUME NEW S, NEW s \in Seq(S), NEW x \in S, \A i \in 1..Len(s) : s[i] # x,
           \A i, j \in 1..Len(s) : s[i] = s[j] => i = j
    PROVE  LET t == Append(s, x)
           IN  /\ t \in Seq(S) /\ Len(t) = Len(s) + 1
               /\ \A i \in 1..Len(t) : t[i] = x \/ (i \in 1..Len(s) /\ t[i] = s[i])
               /\ \A i, j \in 1..Len(t) : t[i] = t[j] => i = j
               /\ \A i \in 1..Len(s) : i \in 1..Len(t) /\ t[i] = s[i]
               /\ \E i \in 1..Len(t) : t[i] = x
<1> DEFINE t == Append(s, x)
<1>1. /\ t \in Seq(S) /\ Len(t) = Len(s) + 1 /\ Len(s) \in Nat
      /\ \A i \in 1..Len(s) : t[i] = s[i]
      /\ t[Len(s) + 1] = x
  BY AppendProperties, LenProperties
<1> HIDE DEF t
<1>2. \A i \in 1..Len(t) : i \in 1..Len(s) \/ i = Len(s) + 1
  BY <1>1
<1>3. \A i \in 1..Len(t) : t[i] = x \/ (i \in 1..Len(s) /\ t[i] = s[i])
  BY <1>1, <1>2
<1>4. ASSUME NEW i \in 1..Len(t), NEW j \in 1..Len(t), t[i] = t[j] PROVE i = j
  BY <1>1, <1>2, <1>4
<1>5. Len(s) + 1 \in 1..Len(t) /\ \A i \in 1..Len(s) : i \in 1..Len(t)
  BY <1>1
<1> QED
  BY <1>1, <1>3, <1>4, <1>5 DEF t

\* The first of a line leaves it.
LEMMA LineMoves ==
    ASSUME NEW S, NEW s \in Seq(S), s # <<>>,
           \A i, j \in 1..Len(s) : s[i] = s[j] => i = j
    PROVE  LET t == Tail(s)
           IN  /\ t \in Seq(S)
               /\ \A i \in 1..Len(t) : i + 1 \in 1..Len(s) /\ t[i] = s[i + 1] /\ t[i] # Head(s)
               /\ \A i, j \in 1..Len(t) : t[i] = t[j] => i = j
               /\ \A i \in 1..Len(s) : s[i] # Head(s) => \E j \in 1..Len(t) : t[j] = s[i]
<1> DEFINE t == Tail(s)
<1>1. /\ Head(s) \in S /\ t \in Seq(S) /\ Len(t) = Len(s) - 1
      /\ \A i \in 1..Len(t) : t[i] = s[i + 1]
  BY HeadTailProperties
<1>2. Len(s) \in Nat \ {0} /\ Head(s) = s[1]
  BY EmptySeq, HeadTailOfSubSeq, LenProperties
<1> HIDE DEF t
<1>3. \A i \in 1..Len(t) : i + 1 \in 1..Len(s) /\ i + 1 # 1
  BY <1>1, <1>2
<1>4. ASSUME NEW i \in 1..Len(t), NEW j \in 1..Len(t), t[i] = t[j] PROVE i = j
  <2>1. i + 1 = j + 1
    BY <1>1, <1>3, <1>4
  <2> QED
    BY <2>1, <1>1, <1>2
<1>5. ASSUME NEW i \in 1..Len(s), s[i] # Head(s)
      PROVE  \E j \in 1..Len(t) : t[j] = s[i]
  <2>1. i - 1 \in 1..Len(t) /\ (i - 1) + 1 = i
    BY <1>1, <1>2, <1>5
  <2> QED
    BY <1>1, <2>1
<1>6. \A i \in 1..Len(t) : t[i] # Head(s)
  BY <1>1, <1>2, <1>3
<1> QED
  BY <1>1, <1>3, <1>4, <1>5, <1>6 DEF t

\* A task gets in line.
LEMMA EntersLine ==
    ASSUME Inv, LockLine, NEW c \in Conns, ~InLine(c), Queue(c),
           NEW to \in {"reading", "joining", "closing"}, task' = [task EXCEPT ![c] = to]
    PROVE  LockLine'
<1>1. /\ lockq' = Append(lockq, c) /\ c # Tui
      /\ \A i \in 1..Len(lockq) : lockq[i] # c
  BY SentinelAssumption DEF Queue, LockLine, InLine, Waiting
<1>2. /\ task'[c] = to /\ \A d \in Conns : d # c => task'[d] = task[d]
  BY DEF Inv, Types
<1>3. /\ lockq' \in Seq(Conns \cup {Tui})
      /\ \A i \in 1..Len(lockq') : lockq'[i] = c \/ (i \in 1..Len(lockq) /\ lockq'[i] = lockq[i])
      /\ \A i, j \in 1..Len(lockq') : lockq'[i] = lockq'[j] => i = j
      /\ \A i \in 1..Len(lockq) : i \in 1..Len(lockq') /\ lockq'[i] = lockq[i]
      /\ \E i \in 1..Len(lockq') : lockq'[i] = c
  BY <1>1, LineGrows DEF LockLine
<1>4. \A i \in 1..Len(lockq') :
          IF lockq'[i] = Tui THEN TuiMode ELSE task'[lockq'[i]] \in Waiting
  <2> TAKE i \in 1..Len(lockq')
  <2>1. lockq'[i] \in Conns \cup {Tui}
    BY <1>3, ElementOfSeq
  <2>2. CASE lockq'[i] = c
    BY <2>2, <1>1, <1>2 DEF Waiting
  <2>3. CASE lockq'[i] # c
    BY <2>1, <2>3, <1>2, <1>3 DEF LockLine
  <2> QED
    BY <2>2, <2>3
<1>5. \A d \in Conns : InLine(d)' => \E i \in 1..Len(lockq') : lockq'[i] = d
  <2> SUFFICES ASSUME NEW d \in Conns, InLine(d)'
               PROVE  \E i \in 1..Len(lockq') : lockq'[i] = d
    OBVIOUS
  <2>1. CASE d = c
    BY <2>1, <1>3
  <2>2. CASE d # c
    <3>1. InLine(d)
      BY <2>2, <1>2 DEF InLine
    <3>2. PICK i \in 1..Len(lockq) : lockq[i] = d
      BY <3>1 DEF LockLine
    <3> QED
      BY <3>2, <1>3
  <2> QED
    BY <2>1, <2>2
<1> QED
  BY <1>3, <1>4, <1>5 DEF LockLine

\* The first in line, a task, gets the lock.
LEMMA LeavesLine ==
    ASSUME Inv, LockLine, NEW c \in Conns, FirstInLine(c), lockq' = Tail(lockq),
           NEW to \in {"sending", "announcing", "leaving"}, task' = [task EXCEPT ![c] = to]
    PROVE  LockLine'
<1>1. lockq # <<>> /\ Head(lockq) = c /\ c # Tui
  BY SentinelAssumption DEF FirstInLine
<1>2. /\ task'[c] = to /\ \A d \in Conns : d # c => task'[d] = task[d]
  BY DEF Inv, Types
<1>3. /\ lockq' \in Seq(Conns \cup {Tui})
      /\ \A i \in 1..Len(lockq') :
            i + 1 \in 1..Len(lockq) /\ lockq'[i] = lockq[i + 1] /\ lockq'[i] # c
      /\ \A i, j \in 1..Len(lockq') : lockq'[i] = lockq'[j] => i = j
      /\ \A i \in 1..Len(lockq) : lockq[i] # c => \E j \in 1..Len(lockq') : lockq'[j] = lockq[i]
  BY <1>1, LineMoves DEF LockLine
<1>4. \A i \in 1..Len(lockq') :
          IF lockq'[i] = Tui THEN TuiMode ELSE task'[lockq'[i]] \in Waiting
  <2> TAKE i \in 1..Len(lockq')
  <2>1. lockq'[i] \in Conns \cup {Tui}
    BY <1>3, ElementOfSeq
  <2> QED
    BY <2>1, <1>2, <1>3 DEF LockLine
<1>5. \A d \in Conns : InLine(d)' => \E i \in 1..Len(lockq') : lockq'[i] = d
  <2> SUFFICES ASSUME NEW d \in Conns, InLine(d)'
               PROVE  \E i \in 1..Len(lockq') : lockq'[i] = d
    OBVIOUS
  <2>1. d # c
    BY <1>2 DEF InLine
  <2>2. PICK i \in 1..Len(lockq) : lockq[i] = d
    BY <2>1, <1>2 DEF InLine, LockLine
  <2> QED
    BY <2>1, <2>2, <1>3
<1> QED
  BY <1>3, <1>4, <1>5 DEF LockLine

\* The terminal interface gets in line, and has its turn.
LEMMA TuiInLine ==
    ASSUME LockLine, TuiAsk \/ TuiTurn
    PROVE  LockLine'
<1>1. task' = task /\ \A d \in Conns : InLine(d)' <=> InLine(d)
  BY DEF TuiAsk, TuiTurn, InLine
<1>2. CASE TuiAsk
  <2>1. lockq' = Append(lockq, Tui) /\ \A i \in 1..Len(lockq) : lockq[i] # Tui
    <3>1. DOMAIN lockq = 1..Len(lockq)
      BY LenProperties DEF LockLine
    <3> QED
      BY <1>2, <3>1 DEF TuiAsk, TuiWaits, Queue
  <2>2. /\ lockq' \in Seq(Conns \cup {Tui})
        /\ \A i \in 1..Len(lockq') :
              lockq'[i] = Tui \/ (i \in 1..Len(lockq) /\ lockq'[i] = lockq[i])
        /\ \A i, j \in 1..Len(lockq') : lockq'[i] = lockq'[j] => i = j
        /\ \A i \in 1..Len(lockq) : i \in 1..Len(lockq') /\ lockq'[i] = lockq[i]
    BY <2>1, LineGrows DEF LockLine
  <2>3. TuiMode
    BY <1>2 DEF TuiAsk
  <2>4. \A i \in 1..Len(lockq') :
            IF lockq'[i] = Tui THEN TuiMode ELSE task'[lockq'[i]] \in Waiting
    BY <1>1, <2>2, <2>3 DEF LockLine
  <2>5. \A d \in Conns : InLine(d)' => \E i \in 1..Len(lockq') : lockq'[i] = d
    BY <1>1, <2>2 DEF LockLine
  <2> QED
    BY <2>2, <2>4, <2>5 DEF LockLine
<1>3. CASE TuiTurn
  <2>1. lockq' = Tail(lockq) /\ lockq # <<>> /\ Head(lockq) = Tui
    BY <1>3 DEF TuiTurn, FirstInLine
  <2>2. /\ lockq' \in Seq(Conns \cup {Tui})
        /\ \A i \in 1..Len(lockq') :
              i + 1 \in 1..Len(lockq) /\ lockq'[i] = lockq[i + 1] /\ lockq'[i] # Tui
        /\ \A i, j \in 1..Len(lockq') : lockq'[i] = lockq'[j] => i = j
        /\ \A i \in 1..Len(lockq) : lockq[i] # Tui => \E j \in 1..Len(lockq') : lockq'[j] = lockq[i]
    BY <2>1, LineMoves DEF LockLine
  <2>3. \A i \in 1..Len(lockq') :
            IF lockq'[i] = Tui THEN TuiMode ELSE task'[lockq'[i]] \in Waiting
    BY <1>1, <2>2 DEF LockLine
  <2>4. \A d \in Conns : InLine(d)' => \E i \in 1..Len(lockq') : lockq'[i] = d
    <3> TAKE d \in Conns
    <3>1. SUFFICES ASSUME InLine(d) PROVE \E i \in 1..Len(lockq') : lockq'[i] = d
      BY <1>1
    <3>2. PICK i \in 1..Len(lockq) : lockq[i] = d
      BY <3>1 DEF LockLine
    <3> QED
      BY <2>2, <3>2, SentinelAssumption
  <2> QED
    BY <2>2, <2>3, <2>4 DEF LockLine
<1> QED
  BY <1>2, <1>3

\* Nobody gets in line or out of it.
LEMMA LineStays ==
    ASSUME LockLine, lockq' = lockq, \A d \in Conns : InLine(d)' <=> InLine(d)
    PROVE  LockLine'
<1>1. \A i \in 1..Len(lockq) :
          IF lockq[i] = Tui THEN TuiMode ELSE task'[lockq[i]] \in Waiting
  <2> TAKE i \in 1..Len(lockq)
  <2>1. lockq[i] \in Conns \cup {Tui}
    BY ElementOfSeq DEF LockLine
  <2>2. CASE lockq[i] = Tui
    BY <2>2 DEF LockLine
  <2>3. CASE lockq[i] # Tui
    BY <2>1, <2>3 DEF LockLine, InLine, Waiting
  <2> QED
    BY <2>2, <2>3
<1>2. \A d \in Conns : InLine(d)' => \E i \in 1..Len(lockq) : lockq[i] = d
  BY DEF LockLine
<1> QED
  BY <1>1, <1>2 DEF LockLine

LEMMA LineInit == Init => LockLine
BY EmptySeq DEF Init, LockLine, InLine

LEMMA LineStep == Inv /\ LockLine /\ [Next]_vars => LockLine'
<1> SUFFICES ASSUME Inv, LockLine, [Next]_vars PROVE LockLine'
  OBVIOUS
<1>t. task \in [Conns -> Tasks]
  BY DEF Inv, Types
<1>1. TuiAsk \/ TuiTurn => LockLine'
  BY TuiInLine
<1>2. UNCHANGED vars => LockLine'
  BY LineStays DEF vars, InLine
<1>3. ASSUME NEW c \in Conns
      PROVE  /\ \A dest \in SUBSET Conns : Receive(c, dest) => LockLine'
             /\ ReceiveMuted(c) \/ ReceiveOwn(c) \/ ReceiveHeartbeat(c) \/ AckDone(c) => LockLine'
             /\ GrantRead(c) => LockLine'
             /\ SendNext(c) => LockLine'
             /\ EndBroadcast(c) \/ Record(c) \/ WriteDone(c) \/ Stall(c) => LockLine'
             /\ WriteStart(c) => LockLine'
             /\ Join(c) \/ Leave(c) \/ Joined(c) => LockLine'
             /\ Fail(c) \/ HeartbeatTimeout(c) \/ Left(c) => LockLine'
             /\ GrantWrite(c) => LockLine'
  <2>1. ASSUME NEW dest \in SUBSET Conns, Receive(c, dest) PROVE LockLine'
    <3>1. ~InLine(c) /\ Queue(c) /\ task' = [task EXCEPT ![c] = "reading"]
      BY <2>1 DEF Receive, Goto, InLine
    <3> QED
      BY <3>1, EntersLine
  <2>2. ASSUME ReceiveMuted(c) \/ Join(c) \/ Leave(c) PROVE LockLine'
    <3>1. /\ ~InLine(c) /\ Queue(c)
          /\ \E to \in {"reading", "joining", "closing"} : task' = [task EXCEPT ![c] = to]
      BY <2>2 DEF ReceiveMuted, Join, Leave, Goto, InLine
    <3> QED
      BY <3>1, EntersLine
  <2>3. ASSUME GrantRead(c) \/ GrantWrite(c) PROVE LockLine'
    <3>1. /\ FirstInLine(c) /\ lockq' = Tail(lockq)
          /\ \E to \in {"sending", "announcing", "leaving"} : task' = [task EXCEPT ![c] = to]
      BY <2>3 DEF GrantRead, GrantWrite, Goto
    <3> QED
      BY <3>1, LeavesLine
  <2>4. ASSUME \/ ReceiveOwn(c) \/ ReceiveHeartbeat(c) \/ AckDone(c) \/ EndBroadcast(c)
               \/ Record(c) \/ WriteDone(c) \/ WriteStart(c) \/ Joined(c)
               \/ HeartbeatTimeout(c) \/ Left(c)
        PROVE  LockLine'
    <3>1. /\ lockq' = lockq /\ ~InLine(c)
          /\ \E to \in Tasks \ {"reading", "joining", "closing"} : task' = [task EXCEPT ![c] = to]
      BY <2>4 DEF ReceiveOwn, ReceiveHeartbeat, AckDone, EndBroadcast, Record, WriteDone,
         WriteStart, Joined, HeartbeatTimeout, Left, Goto, InLine, Tasks
    <3>2. \A d \in Conns : InLine(d)' <=> InLine(d)
      BY <1>t, <3>1 DEF InLine
    <3> QED
      BY <3>1, <3>2, LineStays
  <2>5. ASSUME Fail(c) PROVE LockLine'
    <3>1. lockq' = lockq /\ ~InLine(c) /\ task' = [task EXCEPT ![c] = "failed"]
      BY <2>5 DEF Fail, InLine
    <3>2. \A d \in Conns : InLine(d)' <=> InLine(d)
      BY <1>t, <3>1 DEF InLine
    <3> QED
      BY <3>1, <3>2, LineStays
  <2>6. ASSUME SendNext(c) \/ Stall(c) PROVE LockLine'
    <3>1. lockq' = lockq /\ task' = task
      BY <2>6 DEF SendNext, Stall
    <3> QED
      BY <3>1, LineStays DEF InLine
  <2> QED
    BY <2>1, <2>2, <2>3, <2>4, <2>5, <2>6
<1> QED
  BY <1>1, <1>2, <1>3, NextCases

\* The lock is held for writing by a task, or by nobody.
Holder == writer \in Conns \cup {NoConn}

LEMMA HolderStep == Holder /\ [Next]_vars => Holder'
<1> SUFFICES ASSUME Holder, [Next]_vars PROVE Holder'
  OBVIOUS
<1>1. TuiAsk \/ TuiTurn \/ UNCHANGED vars => Holder'
  BY DEF TuiAsk, TuiTurn, vars, Holder
<1>2. ASSUME NEW c \in Conns
      PROVE  /\ \A dest \in SUBSET Conns : Receive(c, dest) => Holder'
             /\ ReceiveMuted(c) \/ ReceiveOwn(c) \/ ReceiveHeartbeat(c) \/ AckDone(c) => Holder'
             /\ GrantRead(c) => Holder'
             /\ SendNext(c) => Holder'
             /\ EndBroadcast(c) \/ Record(c) \/ WriteDone(c) \/ Stall(c) => Holder'
             /\ WriteStart(c) => Holder'
             /\ Join(c) \/ Leave(c) \/ Joined(c) => Holder'
             /\ Fail(c) \/ HeartbeatTimeout(c) \/ Left(c) => Holder'
             /\ GrantWrite(c) => Holder'
  BY DEF Receive, ReceiveMuted, ReceiveOwn, ReceiveHeartbeat, AckDone, GrantRead, SendNext,
     EndBroadcast, Record, WriteDone, Stall, WriteStart, Join, Leave, Joined, Fail,
     HeartbeatTimeout, Left, GrantWrite, Holder
<1> QED
  BY <1>1, <1>2, NextCases

(***************************************************************************)
(* The argument for Standstill: if nobody can go, whoever holds the lock   *)
(* has no room (a holder without a list to send to, or with room, could go *)
(* on); if nobody holds it, nobody waits for it, since the first in line   *)
(* could go; then what waits is a task that records, the event channel is  *)
(* full, and in TUI mode the TUI could go.                                 *)
(***************************************************************************)
LEMMA StandsForRoom == Inv /\ LockLine /\ Holder => Standstill
<1> SUFFICES ASSUME Inv, LockLine, Holder,
                    \A c \in Conns : ~CanGo(c), ~TuiCanGo,
                    ~(~TuiMode /\ feed = FeedCap),
                    NEW w \in Conns, InLine(w) \/ Sends(w) \/ task[w] = "recording"
             PROVE  \E c \in Conns :
                       /\ Sends(c) /\ NoRoom(c)
                       /\ LET d == Head(todo[c])
                          IN  \/ InLine(d) \/ (Sends(d) /\ NoRoom(d))
                              \/ task[d] = "recording" /\ feed = FeedCap
                              \/ task[d] \in {"writing", "acking"} /\ stalled[d]
  BY DEF Standstill
<1>1. /\ task \in [Conns -> Tasks] /\ todo \in [Conns -> Seq(Conns)] /\ feed \in 0..FeedCap
      /\ FeedCap \in Nat \ {0} /\ Cap \in Nat \ {0}
  BY SizesAssumption DEF Inv, Types
<1>2. \E c \in Conns : Sends(c)
  <2> SUFFICES ASSUME \A c \in Conns : ~Sends(c) PROVE FALSE
    OBVIOUS
  <2>1. writer = NoConn /\ readers = {}
    BY DEF Inv, Locks, Sends, Holder
  <2>2. lockq = <<>>
    <3> SUFFICES ASSUME lockq # <<>> PROVE FALSE
      OBVIOUS
    <3>1. /\ 1 \in 1..Len(lockq) /\ Head(lockq) = lockq[1]
          /\ Head(lockq) \in Conns \cup {Tui}
      BY EmptySeq, HeadTailProperties, HeadTailOfSubSeq, LenProperties DEF LockLine
    <3>2. LockIsFree(Head(lockq))
      BY <2>1 DEF LockIsFree, FirstInLine
    <3>3. CASE Head(lockq) = Tui
      <4>1. TuiMode
        BY <3>1, <3>3 DEF LockLine
      <4> QED
        BY <3>2, <3>3, <4>1 DEF TuiCanGo
    <3>4. CASE Head(lockq) # Tui
      <4>1. Head(lockq) \in Conns /\ InLine(Head(lockq))
        BY <3>1, <3>4 DEF LockLine, InLine, Waiting
      <4> QED
        BY <2>1, <3>2, <4>1 DEF CanGo
    <3> QED
      BY <3>3, <3>4
  <2>3. \A c \in Conns : ~InLine(c)
    BY <2>2, EmptySeq DEF LockLine
  <2>4. task[w] = "recording"
    BY <2>3
  <2>5. feed = FeedCap
    BY <1>1, <2>4 DEF CanGo
  <2>6. TuiMode /\ TuiWaits
    BY <2>5 DEF TuiCanGo
  <2> QED
    BY <2>2, <2>6, EmptySeq DEF TuiWaits
<1>3. PICK c \in Conns : Sends(c)
  BY <1>2
<1>4. NoRoom(c)
  BY <1>3 DEF CanGo
<1> DEFINE d == Head(todo[c])
<1>5. /\ d \in Conns /\ task[d] \in HasReceiver /\ Len(outq[d]) = Cap
  <2>1. todo[c] # <<>> /\ todo[c] \in Seq(Conns)
    BY <1>1, <1>4 DEF NoRoom
  <2> QED
    BY <1>4, <2>1, HeadTailProperties DEF NoRoom
<1>6. outq[d] # <<>>
  BY <1>1, <1>5, EmptySeq
<1>7. /\ task[d] # "select"
      /\ Sends(d) => NoRoom(d)
      /\ task[d] = "recording" => feed = FeedCap
      /\ task[d] \in {"writing", "acking"} => stalled[d]
  BY <1>1, <1>5, <1>6 DEF CanGo
<1>8. \/ InLine(d) \/ (Sends(d) /\ NoRoom(d))
      \/ task[d] = "recording" /\ feed = FeedCap
      \/ task[d] \in {"writing", "acking"} /\ stalled[d]
  BY <1>5, <1>7 DEF HasReceiver, Tasks, InLine, Sends
<1> QED
  BY <1>3, <1>4, <1>8

\* Whoever holds the lock of servers gives it back, and whoever waits for it
\* is served in turn: tasks stop only for want of room.
THEOREM StandsStillForRoom == Spec => []Standstill
<1>1. Init => Inv /\ LockLine /\ Holder
  BY InvInit, LineInit DEF Init, Holder
<1>2. Inv /\ LockLine /\ Holder /\ [Next]_vars => Inv' /\ LockLine' /\ Holder'
  BY InvStep, LineStep, HolderStep
<1>3. Inv /\ LockLine /\ Holder => Standstill
  BY StandsForRoom
<1> QED
  BY <1>1, <1>2, <1>3, PTL DEF Spec
=============================================================================
