--------------------------- MODULE DeliveryProofs ---------------------------
(***************************************************************************)
(* Proof that what a source sends arrives in order and without gaps, and   *)
(* completely at whoever was registered all along, for any connections and *)
(* capacities.                                                             *)
(*                                                                         *)
(* Done(c, d) is the number of events of c whose sending to d is over, with*)
(* or without d among those it was meant for.  Of c's events nothing later *)
(* was sent to d (Bounded); those that were are in order and without gaps  *)
(* (Fit); as long as d can receive, none is missing that was meant for it  *)
(* (Full), unless d registered later; and a connection that has yet to     *)
(* register was sent nothing (Silent).                                     *)
(***************************************************************************)
EXTENDS FanoutProofs

Holds(s, c, n) == \E k \in 1..Len(s) : s[k] = Event(c, n)

Bounded(s, c, done) == \A i \in 1..Len(s) : s[i].from = c => s[i].n \in 1..done

Fit(s, c, d, p) ==
    \A j \in 1..Len(s) : s[j].from = c =>
        /\ s[j].n \in 1..Len(p) /\ d \in p[s[j].n]
        /\ \A i \in 1..(j - 1) : s[i].from = c =>
              /\ s[i].n < s[j].n
              /\ \A n \in s[i].n..s[j].n :
                    d \in p[n] => \E k \in i..j : s[k] = Event(c, n)

Full(s, c, d, p, done) ==
    \A n \in 1..done :
        /\ d \in p[n]
        /\ d \in Late => \E i \in 1..Len(s) : s[i].from = c /\ s[i].n <= n
        => Holds(s, c, n)

Silent(s, c) == \A i \in 1..Len(s) : s[i].from # c

Pending(c, d) ==
    /\ cur[c] # 0
    /\ \/ task[c] = "reading"
       \/ task[c] = "sending" /\ \E i \in 1..Len(todo[c]) : todo[c][i] = d

Done(c, d) == IF Pending(c, d) THEN Len(plan[c]) - 1 ELSE Len(plan[c])

Delivered(c, d) ==
    /\ Bounded(Sent(d), c, Done(c, d))
    /\ Fit(Sent(d), c, d, plan[c])
    /\ task[d] \in HasReceiver => Full(Sent(d), c, d, plan[c], Done(c, d))
    /\ task[d] \in Newcomer => Silent(Sent(d), c)

AllDelivered == \A c, d \in Conns : Delivered(c, d)
-----------------------------------------------------------------------------
\* A message of somebody else changes nothing for c.
LEMMA AppendOther ==
    ASSUME NEW s \in Seq(Messages), NEW m \in Messages, NEW c, NEW d, NEW p, NEW done,
           m.from # c
    PROVE  LET t == Append(s, m)
           IN  /\ Bounded(s, c, done) => Bounded(t, c, done)
               /\ Fit(s, c, d, p) => Fit(t, c, d, p)
               /\ Full(s, c, d, p, done) => Full(t, c, d, p, done)
               /\ Silent(s, c) => Silent(t, c)
<1> DEFINE t == Append(s, m)
<1>1. /\ Len(s) \in Nat /\ Len(t) = Len(s) + 1
      /\ \A i \in 1..Len(s) : i \in 1..Len(t) /\ t[i] = s[i]
      /\ t[Len(s) + 1] = m
  BY AppendProperties, LenProperties
<1> HIDE DEF t
<1>2. \A i \in 1..Len(t) : t[i].from = c => i \in 1..Len(s) /\ t[i] = s[i]
  BY <1>1
<1>3. Bounded(s, c, done) => Bounded(t, c, done)
  BY <1>2 DEF Bounded
<1>4. ASSUME Fit(s, c, d, p) PROVE Fit(t, c, d, p)
  <2> SUFFICES ASSUME NEW j \in 1..Len(t), t[j].from = c
               PROVE  /\ t[j].n \in 1..Len(p) /\ d \in p[t[j].n]
                      /\ \A i \in 1..(j - 1) : t[i].from = c =>
                            /\ t[i].n < t[j].n
                            /\ \A n \in t[i].n..t[j].n :
                                  d \in p[n] => \E k \in i..j : t[k] = Event(c, n)
    BY DEF Fit
  <2>1. j \in 1..Len(s) /\ \A k \in 1..j : k \in 1..Len(s) /\ t[k] = s[k]
    BY <1>1, <1>2
  <2>2. /\ s[j].n \in 1..Len(p) /\ d \in p[s[j].n]
        /\ \A i \in 1..(j - 1) : s[i].from = c =>
              /\ s[i].n < s[j].n
              /\ \A n \in s[i].n..s[j].n :
                    d \in p[n] => \E k \in i..j : s[k] = Event(c, n)
    BY <1>4, <2>1 DEF Fit
  <2>3. ASSUME NEW i \in 1..(j - 1), t[i].from = c
        PROVE  /\ t[i].n < t[j].n
               /\ \A n \in t[i].n..t[j].n :
                     d \in p[n] => \E k \in i..j : t[k] = Event(c, n)
    <3>1. i \in 1..j /\ j \in 1..j /\ i..j \subseteq 1..j
      BY <2>1
    <3>2. t[i] = s[i] /\ t[j] = s[j] /\ \A k \in i..j : t[k] = s[k]
      BY <2>1, <3>1
    <3> QED
      BY <2>2, <2>3, <3>2
  <2>4. t[j] = s[j]
    BY <1>2
  <2> QED
    BY <2>2, <2>3, <2>4
<1>5. ASSUME Full(s, c, d, p, done) PROVE Full(t, c, d, p, done)
  <2> SUFFICES ASSUME NEW n \in 1..done, d \in p[n],
                      d \in Late => \E i \in 1..Len(t) : t[i].from = c /\ t[i].n <= n
               PROVE  Holds(t, c, n)
    BY DEF Full
  <2>1. d \in Late => \E i \in 1..Len(s) : s[i].from = c /\ s[i].n <= n
    BY <1>2
  <2>2. Holds(s, c, n)
    BY <1>5, <2>1 DEF Full
  <2> QED
    BY <2>2, <1>1 DEF Holds
<1>6. Silent(s, c) => Silent(t, c)
  BY <1>2 DEF Silent
<1> QED
  BY <1>3, <1>4, <1>5, <1>6 DEF t

\* The next event of c, with nothing missing before it.
LEMMA AppendOwn ==
    ASSUME NEW s \in Seq(Messages), NEW c \in Conns, NEW d, NEW p, NEW n \in Nat \ {0},
           n = Len(p), d \in p[n],
           Bounded(s, c, n - 1), Fit(s, c, d, p), Full(s, c, d, p, n - 1)
    PROVE  LET t == Append(s, Event(c, n))
           IN  Bounded(t, c, n) /\ Fit(t, c, d, p) /\ Full(t, c, d, p, n)
<1> DEFINE t == Append(s, Event(c, n))
<1>0. Event(c, n) \in Messages /\ Event(c, n).from = c /\ Event(c, n).n = n
  BY DEF Messages, Event
<1>1. /\ Len(s) \in Nat /\ Len(t) = Len(s) + 1
      /\ \A i \in 1..Len(s) : i \in 1..Len(t) /\ t[i] = s[i]
      /\ t[Len(s) + 1] = Event(c, n)
  BY <1>0, AppendProperties, LenProperties
<1> HIDE DEF t
<1>2. \A i \in 1..Len(s) : s[i] \in Messages /\ s[i].n \in Nat
  <2>1. \A i \in 1..Len(s) : s[i] \in Messages
    BY ElementOfSeq
  <2> QED
    BY <2>1 DEF Messages
<1>3. Bounded(t, c, n)
  <2> SUFFICES ASSUME NEW i \in 1..Len(t), t[i].from = c PROVE t[i].n \in 1..n
    BY DEF Bounded
  <2>1. CASE i \in 1..Len(s)
    BY <2>1, <1>1 DEF Bounded
  <2>2. CASE i = Len(s) + 1
    BY <2>2, <1>0, <1>1
  <2> QED
    BY <2>1, <2>2, <1>1
<1>4. Fit(t, c, d, p)
  <2> SUFFICES ASSUME NEW j \in 1..Len(t), t[j].from = c
               PROVE  /\ t[j].n \in 1..Len(p) /\ d \in p[t[j].n]
                      /\ \A i \in 1..(j - 1) : t[i].from = c =>
                            /\ t[i].n < t[j].n
                            /\ \A m \in t[i].n..t[j].n :
                                  d \in p[m] => \E k \in i..j : t[k] = Event(c, m)
    BY DEF Fit
  <2>1. CASE j \in 1..Len(s)
    <3>1. \A k \in 1..j : t[k] = s[k]
      BY <2>1, <1>1
    <3>2. /\ s[j].n \in 1..Len(p) /\ d \in p[s[j].n]
          /\ \A i \in 1..(j - 1) : s[i].from = c =>
                /\ s[i].n < s[j].n
                /\ \A m \in s[i].n..s[j].n :
                      d \in p[m] => \E k \in i..j : s[k] = Event(c, m)
      BY <2>1, <3>1 DEF Fit
    <3>3. ASSUME NEW i \in 1..(j - 1), t[i].from = c
          PROVE  /\ t[i].n < t[j].n
                 /\ \A m \in t[i].n..t[j].n :
                       d \in p[m] => \E k \in i..j : t[k] = Event(c, m)
      <4>1. i \in 1..j /\ j \in 1..j /\ i..j \subseteq 1..j
        BY <2>1
      <4>2. t[i] = s[i] /\ t[j] = s[j] /\ \A k \in i..j : t[k] = s[k]
        BY <3>1, <4>1
      <4> QED
        BY <3>2, <3>3, <4>2
    <3>4. t[j] = s[j]
      BY <2>1, <1>1
    <3> QED
      BY <3>2, <3>3, <3>4
  <2>2. CASE j = Len(s) + 1
    <3>1. t[j] = Event(c, n) /\ t[j].n = n
      BY <2>2, <1>0, <1>1
    <3>2. ASSUME NEW i \in 1..(j - 1), t[i].from = c
          PROVE  /\ t[i].n < t[j].n
                 /\ \A m \in t[i].n..t[j].n :
                       d \in p[m] => \E k \in i..j : t[k] = Event(c, m)
      <4>1. i \in 1..Len(s) /\ t[i] = s[i] /\ s[i].n \in 1..(n - 1)
        BY <2>2, <3>2, <1>1 DEF Bounded
      <4>2. ASSUME NEW m \in t[i].n..n, d \in p[m]
            PROVE  \E k \in i..j : t[k] = Event(c, m)
        <5>1. CASE m = n
          BY <5>1, <3>1, <4>1, <2>2, <1>1
        <5>2. CASE m # n
          <6>1. m \in 1..(n - 1) /\ s[i].n <= m
            BY <4>1, <4>2, <5>2
          <6>2. PICK k \in 1..Len(s) : s[k] = Event(c, m)
            BY <6>1, <4>1, <4>2, <3>2 DEF Full, Holds
          <6>3. s[k].from = c /\ s[k].n = m
            BY <6>2 DEF Event
          <6>4. k >= i
            <7> SUFFICES ASSUME k < i PROVE FALSE
              BY <4>1
            <7>1. k \in 1..(i - 1)
              BY <4>1
            <7>2. s[k].n < s[i].n
              BY <7>1, <6>3, <4>1, <3>2 DEF Fit
            <7> QED
              BY <7>2, <6>1, <6>3, <4>1, <1>2
          <6>5. k \in i..j /\ t[k] = s[k]
            BY <6>4, <4>1, <2>2, <1>1
          <6> QED
            BY <6>2, <6>5
        <5> QED
          BY <5>1, <5>2
      <4> QED
        BY <4>1, <4>2, <3>1
    <3> QED
      BY <3>1, <3>2
  <2> QED
    BY <2>1, <2>2, <1>1
<1>5. Full(t, c, d, p, n)
  <2> SUFFICES ASSUME NEW m \in 1..n, d \in p[m],
                      d \in Late => \E i \in 1..Len(t) : t[i].from = c /\ t[i].n <= m
               PROVE  Holds(t, c, m)
    BY DEF Full
  <2>1. CASE m = n
    BY <2>1, <1>1 DEF Holds
  <2>2. CASE m # n
    <3>1. m \in 1..(n - 1)
      BY <2>2
    <3>2. d \in Late => \E i \in 1..Len(s) : s[i].from = c /\ s[i].n <= m
      <4> SUFFICES ASSUME d \in Late
                   PROVE  \E i \in 1..Len(s) : s[i].from = c /\ s[i].n <= m
        OBVIOUS
      <4>1. PICK i \in 1..Len(t) : t[i].from = c /\ t[i].n <= m
        OBVIOUS
      <4>2. i # Len(s) + 1
        BY <4>1, <3>1, <1>0, <1>1
      <4> QED
        BY <4>1, <4>2, <1>1
    <3>3. Holds(s, c, m)
      BY <3>1, <3>2 DEF Full
    <3> QED
      BY <3>3, <1>1 DEF Holds
  <2> QED
    BY <2>1, <2>2
<1> QED
  BY <1>3, <1>4, <1>5 DEF t

\* A queue that is dropped takes away the end of what was sent.
LEMMA PrefixStays ==
    ASSUME NEW s \in Seq(Messages), NEW q \in Seq(Messages), NEW c, NEW d, NEW p, NEW done
    PROVE  /\ Bounded(s \o q, c, done) => Bounded(s, c, done)
           /\ Fit(s \o q, c, d, p) => Fit(s, c, d, p)
<1> DEFINE t == s \o q
<1>1. /\ Len(s) \in Nat
      /\ \A i \in 1..Len(s) : i \in 1..Len(t) /\ t[i] = s[i]
  BY ConcatProperties, LenProperties
<1> HIDE DEF t
<1>2. Bounded(t, c, done) => Bounded(s, c, done)
  BY <1>1 DEF Bounded
<1>3. ASSUME Fit(t, c, d, p) PROVE Fit(s, c, d, p)
  <2> SUFFICES ASSUME NEW j \in 1..Len(s), s[j].from = c
               PROVE  /\ s[j].n \in 1..Len(p) /\ d \in p[s[j].n]
                      /\ \A i \in 1..(j - 1) : s[i].from = c =>
                            /\ s[i].n < s[j].n
                            /\ \A n \in s[i].n..s[j].n :
                                  d \in p[n] => \E k \in i..j : s[k] = Event(c, n)
    BY DEF Fit
  <2>1. j \in 1..Len(t) /\ \A k \in 1..j : t[k] = s[k]
    BY <1>1
  <2>2. /\ t[j].n \in 1..Len(p) /\ d \in p[t[j].n]
        /\ \A i \in 1..(j - 1) : t[i].from = c =>
              /\ t[i].n < t[j].n
              /\ \A n \in t[i].n..t[j].n :
                    d \in p[n] => \E k \in i..j : t[k] = Event(c, n)
    BY <1>1, <1>3, <2>1 DEF Fit
  <2>3. ASSUME NEW i \in 1..(j - 1), s[i].from = c
        PROVE  /\ s[i].n < s[j].n
               /\ \A n \in s[i].n..s[j].n :
                     d \in p[n] => \E k \in i..j : s[k] = Event(c, n)
    <3>1. i \in 1..j /\ j \in 1..j /\ i..j \subseteq 1..j
      BY <1>1
    <3>2. t[i] = s[i] /\ t[j] = s[j] /\ \A k \in i..j : t[k] = s[k]
      BY <2>1, <3>1
    <3> QED
      BY <2>2, <2>3, <3>2
  <2>4. t[j] = s[j]
    BY <1>1
  <2> QED
    BY <2>2, <2>3, <2>4
<1> QED
  BY <1>2, <1>3 DEF t

\* A packet taken in adds to the plan what nobody was sent yet.
LEMMA PlanGrows ==
    ASSUME NEW s, NEW c, NEW d, NEW p \in Seq(SUBSET Conns), NEW dest \in SUBSET Conns
    PROVE  LET q == Append(p, dest)
           IN  /\ Fit(s, c, d, p) /\ Bounded(s, c, Len(p)) => Fit(s, c, d, q)
               /\ Full(s, c, d, p, Len(p)) => Full(s, c, d, q, Len(p))
<1> DEFINE q == Append(p, dest)
<1>1. /\ Len(p) \in Nat /\ Len(q) = Len(p) + 1
      /\ \A n \in 1..Len(p) : n \in 1..Len(q) /\ q[n] = p[n]
  BY AppendProperties, LenProperties
<1> HIDE DEF q
<1>2. ASSUME Fit(s, c, d, p), Bounded(s, c, Len(p)) PROVE Fit(s, c, d, q)
  <2> SUFFICES ASSUME NEW j \in 1..Len(s), s[j].from = c
               PROVE  /\ s[j].n \in 1..Len(q) /\ d \in q[s[j].n]
                      /\ \A i \in 1..(j - 1) : s[i].from = c =>
                            /\ s[i].n < s[j].n
                            /\ \A n \in s[i].n..s[j].n :
                                  d \in q[n] => \E k \in i..j : s[k] = Event(c, n)
    BY DEF Fit
  <2>1. s[j].n \in 1..Len(p)
    BY <1>2 DEF Bounded
  <2>2. /\ d \in p[s[j].n]
        /\ \A i \in 1..(j - 1) : s[i].from = c =>
              /\ s[i].n < s[j].n
              /\ \A n \in s[i].n..s[j].n :
                    d \in p[n] => \E k \in i..j : s[k] = Event(c, n)
    BY <1>2 DEF Fit
  <2>3. ASSUME NEW i \in 1..(j - 1), s[i].from = c, NEW n \in s[i].n..s[j].n, d \in q[n]
        PROVE  \E k \in i..j : s[k] = Event(c, n)
    <3>1. s[i].n \in 1..Len(p)
      <4>1. i \in 1..Len(s)
        BY <2>3
      <4> QED
        BY <1>2, <2>3, <4>1 DEF Bounded
    <3>2. n \in 1..Len(p)
      BY <2>1, <3>1, <1>1
    <3> QED
      BY <2>2, <2>3, <3>2, <1>1
  <2> QED
    BY <2>1, <2>2, <2>3, <1>1
<1>3. Full(s, c, d, p, Len(p)) => Full(s, c, d, q, Len(p))
  BY <1>1 DEF Full
<1> QED
  BY <1>2, <1>3 DEF q

-----------------------------------------------------------------------------
LEMMA SentTyped ==
    ASSUME Inv, NEW c \in Conns
    PROVE  Sent(c) \in Seq(Messages) /\ Len(plan[c]) \in Nat
<1>1. got[c] \in Seq(Messages) /\ outq[c] \in Seq(Messages) /\ plan[c] \in Seq(SUBSET Conns)
  BY DEF Inv, Types
<1> QED
  BY <1>1, ConcatProperties, LenProperties DEF Sent

\* Steps that send nothing from c to d, nor make it due or done.
LEMMA QuietStep ==
    ASSUME Inv, NEW c \in Conns, NEW d \in Conns, Delivered(c, d),
           Sent(d)' = Sent(d), plan'[c] = plan[c], Pending(c, d)' <=> Pending(c, d),
           \/ task'[d] = task[d]
           \/ task[d] \in Newcomer
           \/ task[d] \in HasReceiver /\ task'[d] \notin Newcomer
    PROVE  Delivered(c, d)'
<1>1. Done(c, d)' = Done(c, d)
  BY DEF Done
<1>2. /\ Bounded(Sent(d), c, Done(c, d))'
      /\ Fit(Sent(d), c, d, plan[c])'
  BY <1>1 DEF Delivered
<1>3. task'[d] \in Newcomer => Silent(Sent(d), c)'
  BY DEF Delivered
<1>4. Full(Sent(d), c, d, plan[c], Done(c, d)) => Full(Sent(d), c, d, plan[c], Done(c, d))'
  BY <1>1
<1>5. task[d] \in Newcomer => Full(Sent(d), c, d, plan[c], Done(c, d))
  <2> HAVE task[d] \in Newcomer
  <2>1. d \in Late /\ Silent(Sent(d), c)
    BY DEF Inv, Placed, Delivered
  <2> QED
    BY <2>1 DEF Full, Silent
<1>6. task'[d] \in HasReceiver => Full(Sent(d), c, d, plan[c], Done(c, d))'
  BY <1>4, <1>5 DEF Delivered
<1> QED
  BY <1>2, <1>3, <1>6 DEF Delivered

\* The same for all pairs at once.
LEMMA QuietForAll ==
    ASSUME Inv, AllDelivered,
           \A d \in Conns : Sent(d)' = Sent(d),
           \A c \in Conns : plan'[c] = plan[c],
           \A c, d \in Conns : Pending(c, d)' <=> Pending(c, d),
           \A d \in Conns :
              \/ task'[d] = task[d]
              \/ task[d] \in Newcomer
              \/ task[d] \in HasReceiver /\ task'[d] \notin Newcomer
    PROVE  AllDelivered'
<1> SUFFICES ASSUME NEW c \in Conns, NEW d \in Conns PROVE Delivered(c, d)'
  BY DEF AllDelivered
<1>1. Delivered(c, d)
  BY DEF AllDelivered
<1> QED
  BY <1>1, QuietStep

\* Where the task of e is at work has no bearing on the sending.
LEMMA QuietMoves ==
    ASSUME Inv, AllDelivered, NEW e \in Conns, UNCHANGED <<outq, got, plan>>,
           \/ UNCHANGED <<task, todo, cur>>
           \/ /\ \/ task[e] \notin {"reading", "sending"}
                 \/ cur[e] = 0
                 \/ task[e] = "sending" /\ todo[e] = <<>>
              /\ task'[e] \notin {"reading", "sending"} \/ cur'[e] = 0
              /\ \A c \in Conns \ {e} : /\ task'[c] = task[c] /\ todo'[c] = todo[c]
                                        /\ cur'[c] = cur[c]
              /\ \/ task[e] \in Newcomer
                 \/ task[e] \in HasReceiver /\ task'[e] \notin Newcomer
    PROVE  AllDelivered'
<1>1. \A d \in Conns : Sent(d)' = Sent(d)
  BY DEF Sent
<1>2. ASSUME NEW c \in Conns, NEW d \in Conns PROVE Pending(c, d)' <=> Pending(c, d)
  <2>1. CASE UNCHANGED <<task, todo, cur>>
    BY <2>1 DEF Pending
  <2>2. CASE c # e /\ task'[c] = task[c] /\ todo'[c] = todo[c] /\ cur'[c] = cur[c]
    BY <2>2 DEF Pending
  <2>3. CASE /\ c = e
             /\ \/ task[e] \notin {"reading", "sending"}
                \/ cur[e] = 0
                \/ task[e] = "sending" /\ todo[e] = <<>>
             /\ task'[e] \notin {"reading", "sending"} \/ cur'[e] = 0
    <3>1. ~Pending(c, d)'
      BY <2>3 DEF Pending
    <3>2. ~Pending(c, d)
      BY <2>3, EmptySeq DEF Pending
    <3> QED
      BY <3>1, <3>2
  <2> QED
    BY <2>1, <2>2, <2>3
<1>3. \A d \in Conns :
         \/ task'[d] = task[d]
         \/ task[d] \in Newcomer
         \/ task[d] \in HasReceiver /\ task'[d] \notin Newcomer
  OBVIOUS
<1>4. \A c \in Conns : plan'[c] = plan[c]
  OBVIOUS
<1> QED
  BY <1>1, <1>2, <1>3, <1>4, QuietForAll

LEMMA QuietActions ==
    ASSUME Inv, AllDelivered, NEW e \in Conns,
           \/ TuiAsk \/ TuiTurn \/ UNCHANGED vars
           \/ ReceiveMuted(e) \/ ReceiveOwn(e) \/ ReceiveHeartbeat(e) \/ AckDone(e)
           \/ EndBroadcast(e) \/ Record(e) \/ WriteDone(e) \/ Stall(e)
           \/ Join(e) \/ Leave(e) \/ Joined(e) \/ GrantWrite(e)
    PROVE  AllDelivered'
<1>0. /\ task \in [Conns -> Tasks] /\ todo \in [Conns -> Seq(Conns)] /\ cur \in [Conns -> Nat]
  BY DEF Inv, Types
<1> USE <1>0 DEF Goto
<1> HIDE DEF Inv, AllDelivered
<1>1. CASE TuiAsk \/ TuiTurn \/ UNCHANGED vars \/ Stall(e)
  <2>1. UNCHANGED <<outq, got, plan, task, todo, cur>>
    BY <1>1 DEF TuiAsk, TuiTurn, vars, Stall
  <2> QED
    BY <2>1, QuietMoves
<1>2. CASE ReceiveMuted(e)
  <2>1. /\ UNCHANGED <<outq, got, plan, todo>>
        /\ task[e] = "select" /\ task'[e] = "reading" /\ cur'[e] = 0
        /\ \A c \in Conns \ {e} : task'[c] = task[c] /\ cur'[c] = cur[c]
    BY <1>2 DEF ReceiveMuted
  <2>2. \/ task[e] \in Newcomer
        \/ task[e] \in HasReceiver /\ task'[e] \notin Newcomer
    BY <2>1 DEF Newcomer, HasReceiver, Tasks
  <2> QED
    BY <2>1, <2>2, QuietMoves
<1>3. CASE \/ ReceiveOwn(e) \/ ReceiveHeartbeat(e) \/ AckDone(e)
           \/ Record(e) \/ WriteDone(e) \/ Leave(e)
  <2>1. /\ UNCHANGED <<outq, got, plan, todo, cur>>
        /\ task[e] \in {"select", "acking", "recording", "writing"}
        /\ task'[e] \in {"select", "acking", "recording", "closing"}
        /\ \A c \in Conns \ {e} : task'[c] = task[c]
    BY <1>3 DEF ReceiveOwn, ReceiveHeartbeat, AckDone, Record, WriteDone, Leave
  <2>2. \/ task[e] \in Newcomer
        \/ task[e] \in HasReceiver /\ task'[e] \notin Newcomer
    BY <2>1 DEF Newcomer, HasReceiver, Tasks
  <2> QED
    BY <2>1, <2>2, QuietMoves
<1>4. CASE EndBroadcast(e)
  <2>1. /\ UNCHANGED <<outq, got, plan, todo, cur>>
        /\ task[e] = "sending" /\ todo[e] = <<>> /\ task'[e] = "recording"
        /\ \A c \in Conns \ {e} : task'[c] = task[c]
    BY <1>4 DEF EndBroadcast
  <2>2. \/ task[e] \in Newcomer
        \/ task[e] \in HasReceiver /\ task'[e] \notin Newcomer
    BY <2>1 DEF Newcomer, HasReceiver, Tasks
  <2> QED
    BY <2>1, <2>2, QuietMoves
<1>5. CASE Join(e) \/ Joined(e)
  <2>1. /\ UNCHANGED <<outq, got, plan, todo, cur>>
        /\ task[e] \in {"out", "announcing"} /\ task'[e] \in {"joining", "select"}
        /\ \A c \in Conns \ {e} : task'[c] = task[c]
    BY <1>5 DEF Join, Joined
  <2>2. \/ task[e] \in Newcomer
        \/ task[e] \in HasReceiver /\ task'[e] \notin Newcomer
    BY <2>1 DEF Newcomer, HasReceiver, Tasks
  <2> QED
    BY <2>1, <2>2, QuietMoves
<1>6. CASE GrantWrite(e)
  <2>1. \A c \in Conns \ {e} : todo'[c] = todo[c]
    BY <1>6 DEF GrantWrite
  <2>2. /\ task[e] \in {"joining", "closing"}
        /\ task[e] = "joining" => task'[e] = "announcing"
        /\ task[e] = "closing" => task'[e] = "leaving"
        /\ \A c \in Conns \ {e} : task'[c] = task[c] /\ cur'[c] = cur[c]
        /\ UNCHANGED <<outq, got, plan>>
    BY <1>6 DEF GrantWrite
  <2>3. \/ task[e] \in Newcomer
        \/ task[e] \in HasReceiver /\ task'[e] \notin Newcomer
    BY <2>2 DEF Newcomer, HasReceiver, Tasks
  <2> QED
    BY <2>1, <2>2, <2>3, QuietMoves
<1> QED
  BY <1>1, <1>2, <1>3, <1>4, <1>5, <1>6

\* The head of a queue moves to the end of what was written.
LEMMA MoveHead ==
    ASSUME NEW s \in Seq(Messages), NEW q \in Seq(Messages), q # <<>>
    PROVE  Append(s, Head(q)) \o Tail(q) = s \o q
<1>1. /\ Head(q) \in Messages /\ Tail(q) \in Seq(Messages) /\ Len(Tail(q)) = Len(q) - 1
      /\ \A i \in 1..Len(Tail(q)) : Tail(q)[i] = q[i + 1]
  BY HeadTailProperties
<1>2. Len(q) \in Nat \ {0} /\ Head(q) = q[1]
  BY EmptySeq, HeadTailOfSubSeq, LenProperties
<1>3. <<Head(q)>> \in Seq(Messages) /\ Len(<<Head(q)>>) = 1 /\ <<Head(q)>>[1] = Head(q)
  BY <1>1
<1> DEFINE r == <<Head(q)>> \o Tail(q)
<1>4. r = q
  <2>1. /\ r \in Seq(Messages) /\ Len(r) = 1 + (Len(q) - 1)
        /\ \A i \in 1..Len(r) : r[i] = IF i <= 1 THEN <<Head(q)>>[i] ELSE Tail(q)[i - 1]
    BY <1>1, <1>3, ConcatProperties
  <2> HIDE DEF r
  <2>2. Len(r) = Len(q)
    BY <2>1, <1>2
  <2>3. ASSUME NEW i \in 1..Len(q) PROVE r[i] = q[i]
    <3>1. CASE i = 1
      BY <3>1, <2>1, <2>2, <1>2, <1>3
    <3>2. CASE i # 1
      <4>1. i - 1 \in 1..Len(Tail(q)) /\ (i - 1) + 1 = i /\ ~(i <= 1)
        BY <3>2, <1>1, <1>2
      <4> QED
        BY <4>1, <2>1, <2>2, <1>1
    <3> QED
      BY <3>1, <3>2
  <2> QED
    BY <2>1, <2>2, <2>3, SeqEqual
<1>5. Append(s, Head(q)) = s \o <<Head(q)>>
  BY <1>1, AppendIsConcat
<1>6. (s \o <<Head(q)>>) \o Tail(q) = s \o r
  BY <1>1, <1>3, ConcatAssociative
<1> QED
  BY <1>4, <1>5, <1>6

\* From the queue to the socket: what was sent stays as it is.
LEMMA WriteStartDelivers ==
    ASSUME Inv, AllDelivered, NEW e \in Conns, WriteStart(e)
    PROVE  AllDelivered'
<1>0. /\ task \in [Conns -> Tasks] /\ todo \in [Conns -> Seq(Conns)]
      /\ outq \in [Conns -> Seq(Messages)] /\ got \in [Conns -> Seq(Messages)]
  BY DEF Inv, Types
<1>1. ASSUME NEW d \in Conns PROVE Sent(d)' = Sent(d)
  <2>1. CASE d # e
    BY <2>1, <1>0 DEF Sent, WriteStart
  <2>2. CASE d = e
    <3>1. outq[e] \in Seq(Messages) /\ outq[e] # <<>> /\ got[e] \in Seq(Messages)
      BY <1>0 DEF WriteStart
    <3>2. Append(got[e], Head(outq[e])) \o Tail(outq[e]) = got[e] \o outq[e]
      BY <3>1, MoveHead
    <3>3. outq'[e] = Tail(outq[e]) /\ got'[e] = Append(got[e], Head(outq[e]))
      BY <1>0 DEF WriteStart
    <3> QED
      BY <2>2, <3>2, <3>3 DEF Sent
  <2> QED
    BY <2>1, <2>2
<1>2. /\ UNCHANGED <<todo, cur, plan>>
      /\ task[e] = "select" /\ task'[e] = "writing"
      /\ \A c \in Conns \ {e} : task'[c] = task[c]
  BY <1>0 DEF WriteStart, Goto
<1>3. \A c, d \in Conns : Pending(c, d)' <=> Pending(c, d)
  BY <1>2 DEF Pending
<1>4. \A d \in Conns :
         \/ task'[d] = task[d]
         \/ task[d] \in Newcomer
         \/ task[d] \in HasReceiver /\ task'[d] \notin Newcomer
  BY <1>2 DEF HasReceiver, Tasks, Newcomer
<1> QED
  BY <1>1, <1>2, <1>3, <1>4, QuietForAll

\* A task that ends drops its queue, and receives nothing any more.
LEMMA EndDelivers ==
    ASSUME Inv, AllDelivered, NEW e \in Conns, Fail(e) \/ HeartbeatTimeout(e) \/ Left(e)
    PROVE  AllDelivered'
<1>0. /\ task \in [Conns -> Tasks] /\ todo \in [Conns -> Seq(Conns)]
      /\ outq \in [Conns -> Seq(Messages)] /\ got \in [Conns -> Seq(Messages)]
  BY DEF Inv, Types
<1>1. /\ UNCHANGED <<todo, cur, plan, got>>
      /\ outq'[e] = <<>> /\ \A c \in Conns \ {e} : outq'[c] = outq[c] /\ task'[c] = task[c]
      /\ task'[e] \in {"failed", "gone"}
      /\ task[e] \notin {"reading", "sending"}
  BY <1>0 DEF Fail, HeartbeatTimeout, Left, Goto
<1>2. \A c, d \in Conns : Pending(c, d)' <=> Pending(c, d)
  BY <1>1 DEF Pending
<1> SUFFICES ASSUME NEW c \in Conns, NEW d \in Conns PROVE Delivered(c, d)'
  BY DEF AllDelivered
<1>3. Delivered(c, d)
  BY DEF AllDelivered
<1>4. CASE d # e
  <2>1. Sent(d)' = Sent(d) /\ task'[d] = task[d] /\ plan'[c] = plan[c]
    BY <1>1, <1>4 DEF Sent
  <2> QED
    BY <2>1, <1>2, <1>3, QuietStep
<1>5. CASE d = e
  <2>1. got[e] \in Seq(Messages) /\ outq[e] \in Seq(Messages)
    BY <1>0
  <2>2. Sent(d)' = got[e]
    <3>1. got[e] \o <<>> = got[e]
      BY <2>1, ConcatEmptySeq
    <3> QED
      BY <1>1, <1>5, <3>1 DEF Sent
  <2>3. Done(c, d)' = Done(c, d) /\ plan'[c] = plan[c]
    BY <1>1, <1>2 DEF Done
  <2>4. Bounded(got[e], c, Done(c, d)) /\ Fit(got[e], c, d, plan[c])
    BY <1>3, <1>5, <2>1, PrefixStays DEF Delivered, Sent
  <2>5. task'[d] \notin HasReceiver /\ task'[d] \notin Newcomer
    BY <1>1, <1>5 DEF HasReceiver, Newcomer
  <2> QED
    BY <2>2, <2>3, <2>4, <2>5 DEF Delivered
<1> QED
  BY <1>4, <1>5

\* A packet taken in is due for nobody who was sent it already.
LEMMA ReceiveDelivers ==
    ASSUME Inv, AllDelivered, NEW e \in Conns, NEW dest \in SUBSET Conns, Receive(e, dest)
    PROVE  AllDelivered'
<1>0. /\ task \in [Conns -> Tasks] /\ cur \in [Conns -> Nat]
      /\ plan \in [Conns -> Seq(SUBSET Conns)]
  BY DEF Inv, Types
<1>1. /\ UNCHANGED <<todo, outq, got>>
      /\ task[e] = "select" /\ task'[e] = "reading"
      /\ \A c \in Conns \ {e} : task'[c] = task[c] /\ cur'[c] = cur[c] /\ plan'[c] = plan[c]
      /\ plan'[e] = Append(plan[e], dest) /\ cur'[e] = Len(plan[e]) + 1
  BY <1>0 DEF Receive, Goto
<1>2. \A d \in Conns : /\ Sent(d)' = Sent(d)
                       /\ task'[d] \in HasReceiver => task[d] \in HasReceiver
                       /\ task'[d] \in Newcomer => task[d] \in Newcomer
  BY <1>1 DEF Sent, HasReceiver, Newcomer, Tasks
<1> SUFFICES ASSUME NEW c \in Conns, NEW d \in Conns PROVE Delivered(c, d)'
  BY DEF AllDelivered
<1>3. Delivered(c, d)
  BY DEF AllDelivered
<1>4. CASE c # e
  <2>1. plan'[c] = plan[c] /\ (Pending(c, d)' <=> Pending(c, d))
    BY <1>1, <1>4 DEF Pending
  <2>2. \/ task'[d] = task[d]
        \/ task[d] \in HasReceiver /\ task'[d] \notin Newcomer
    BY <1>1 DEF HasReceiver, Newcomer, Tasks
  <2> QED
    BY <2>1, <2>2, <1>2, <1>3, QuietStep
<1>5. CASE c = e
  <2>1. plan[c] \in Seq(SUBSET Conns) /\ Len(plan[c]) \in Nat
    BY <1>0, LenProperties
  <2>2. Len(plan'[c]) = Len(plan[c]) + 1
    BY <1>1, <1>5, <2>1, AppendProperties
  <2>3. ~Pending(c, d) /\ Pending(c, d)'
    BY <1>1, <1>5, <2>1 DEF Pending
  <2>4. Done(c, d) = Len(plan[c]) /\ Done(c, d)' = Len(plan[c])
    BY <2>1, <2>2, <2>3 DEF Done
  <2>5. Bounded(Sent(d), c, Len(plan[c])) /\ Fit(Sent(d), c, d, plan[c])
    BY <1>3, <2>4 DEF Delivered
  <2>6. /\ Fit(Sent(d), c, d, plan'[c])
        /\ Full(Sent(d), c, d, plan[c], Len(plan[c]))
           => Full(Sent(d), c, d, plan'[c], Len(plan[c]))
    BY <2>1, <2>5, <1>1, <1>5, PlanGrows
  <2>7. task'[d] \in HasReceiver => Full(Sent(d), c, d, plan'[c], Len(plan[c]))
    BY <2>6, <2>4, <1>2, <1>3 DEF Delivered
  <2>8. task'[d] \in Newcomer => Silent(Sent(d), c)
    BY <1>2, <1>3 DEF Delivered
  <2> QED
    BY <2>4, <2>5, <2>6, <2>7, <2>8, <1>2 DEF Delivered
<1> QED
  BY <1>4, <1>5

\* The latest event is over for those who are not in servers: either they
\* receive nothing any more, or they were not there when it was taken in.
LEMMA GrantReadDelivers ==
    ASSUME Inv, AllDelivered, NEW e \in Conns, GrantRead(e)
    PROVE  AllDelivered'
<1>0. /\ task \in [Conns -> Tasks] /\ todo \in [Conns -> Seq(Conns)] /\ cur \in [Conns -> Nat]
      /\ plan \in [Conns -> Seq(SUBSET Conns)] /\ regs \cap Dest(e) \in SUBSET Conns
  BY DEF Inv, Types
<1>1. PICK order \in Orders(regs \cap Dest(e)) : todo' = [todo EXCEPT ![e] = order]
  BY DEF GrantRead
<1>2. \A d \in regs \cap Dest(e) : \E i \in 1..Len(order) : order[i] = d
  <2>1. regs \cap Dest(e) \in SUBSET Conns
    BY <1>0
  <2>2. ASSUME NEW S \in SUBSET Conns, order \in Orders(S)
        PROVE  \A d \in S : \E i \in 1..Len(order) : order[i] = d
    BY <2>2, OrdersAreSequences
  <2> QED
    BY <2>1, <2>2, <1>1, Zenon
<1>3. /\ UNCHANGED <<cur, plan, outq, got>> /\ writer = NoConn
      /\ task[e] = "reading" /\ task'[e] = "sending" /\ todo'[e] = order
      /\ \A c \in Conns \ {e} : task'[c] = task[c] /\ todo'[c] = todo[c]
  BY <1>0, <1>1 DEF GrantRead, Goto
<1>4. \A d \in Conns : /\ Sent(d)' = Sent(d)
                       /\ task'[d] \in HasReceiver => task[d] \in HasReceiver
                       /\ task'[d] \in Newcomer => task[d] \in Newcomer
  BY <1>3 DEF Sent, HasReceiver, Newcomer, Tasks
<1> SUFFICES ASSUME NEW c \in Conns, NEW d \in Conns PROVE Delivered(c, d)'
  BY DEF AllDelivered
<1>5. Delivered(c, d)
  BY DEF AllDelivered
<1>6. CASE Pending(c, d)' <=> Pending(c, d)
  <2>1. \/ task'[d] = task[d]
        \/ task[d] \in HasReceiver /\ task'[d] \notin Newcomer
    BY <1>3 DEF HasReceiver, Newcomer, Tasks
  <2>2. plan'[c] = plan[c]
    BY <1>3
  <2> QED
    BY <2>1, <2>2, <1>4, <1>5, <1>6, QuietStep
<1>7. CASE ~(Pending(c, d)' <=> Pending(c, d))
  <2>1. c = e
    BY <1>3, <1>7 DEF Pending
  <2>2. cur[c] # 0 /\ Pending(c, d) /\ ~Pending(c, d)'
    BY <1>3, <1>7, <2>1 DEF Pending
  <2>3. d \notin regs \cap Dest(e)
    BY <1>2, <1>3, <2>1, <2>2 DEF Pending
  <2>4. cur[c] = Len(plan[c])
    BY <1>3, <2>1, <2>2 DEF Inv, AtLatest
  <2> DEFINE N == Len(plan[c])
  <2>5. N \in Nat \ {0}
    BY <1>0, <2>2, <2>4
  <2>6. Done(c, d) = N - 1 /\ Done(c, d)' = N /\ plan'[c] = plan[c]
    BY <1>3, <2>2 DEF Done
  <2>7. Dest(e) = plan[c][N]
    BY <2>1, <2>2, <2>4 DEF Dest
  <2> HIDE DEF N
  <2>8. Bounded(Sent(d), c, N - 1) /\ Fit(Sent(d), c, d, plan[c])
    BY <1>5, <2>6 DEF Delivered
  <2>9. Bounded(Sent(d), c, N)
    BY <2>5, <2>8 DEF Bounded
  <2>10. ASSUME task[d] \in HasReceiver PROVE Full(Sent(d), c, d, plan[c], N)
    <3>1. Full(Sent(d), c, d, plan[c], N - 1)
      BY <1>5, <2>6, <2>10 DEF Delivered
    <3>2. d \in plan[c][N] => d \in Late /\ Silent(Sent(d), c)
      <4>1. HAVE d \in plan[c][N]
      <4>2. d \notin regs
        BY <4>1, <2>3, <2>7
      <4>3. task[d] \notin Serving
        BY <4>2 DEF Inv, Placed
      <4>4. task[d] \notin {"announcing", "leaving"}
        BY <1>3, SentinelAssumption DEF Inv, Locks
      <4>5. task[d] \in Newcomer
        BY <4>3, <4>4, <2>10 DEF HasReceiver, Tasks, Serving, Newcomer
      <4> QED
        BY <4>5, <1>5 DEF Inv, Placed, Delivered
    <3> QED
      BY <3>1, <3>2, <2>5 DEF Full, Silent
  <2>11. task'[d] \in Newcomer => Silent(Sent(d), c)
    BY <1>4, <1>5 DEF Delivered
  <2> QED
    BY <2>6, <2>8, <2>9, <2>10, <2>11, <1>4 DEF Delivered
<1> QED
  BY <1>6, <1>7

LEMMA AppendLast ==
    ASSUME NEW s \in Seq(Messages), NEW q \in Seq(Messages), NEW m \in Messages
    PROVE  s \o Append(q, m) = Append(s \o q, m)
<1>1. s \o q \in Seq(Messages) /\ <<m>> \in Seq(Messages)
  BY ConcatProperties
<1>2. Append(q, m) = q \o <<m>> /\ Append(s \o q, m) = (s \o q) \o <<m>>
  BY <1>1, AppendIsConcat
<1>3. (s \o q) \o <<m>> = s \o (q \o <<m>>)
  BY <1>1, ConcatAssociative
<1> QED
  BY <1>2, <1>3

\* What SendNext does, as far as the messages are concerned.
LEMMA SendNextSends ==
    ASSUME Inv, NEW e \in Conns, SendNext(e)
    PROVE  /\ UNCHANGED <<task, cur, plan, got>>
           /\ task[e] \in {"sending", "announcing", "leaving"}
           /\ todo[e] # <<>> /\ todo'[e] = Tail(todo[e])
           /\ \A c \in Conns \ {e} : todo'[c] = todo[c]
           /\ \E h \in Conns, m \in Messages :
                 /\ h = Head(todo[e])
                 /\ m = IF task[e] = "sending" THEN Event(e, cur[e]) ELSE Notice
                 /\ \A d \in Conns \ {h} : Sent(d)' = Sent(d)
                 /\ Sent(h)' = IF task[h] \in HasReceiver THEN Append(Sent(h), m) ELSE Sent(h)
<1>2. /\ todo \in [Conns -> Seq(Conns)] /\ todo[e] \in Seq(Conns)
      /\ outq \in [Conns -> Seq(Messages)] /\ got \in [Conns -> Seq(Messages)]
      /\ cur[e] \in Nat
  BY DEF Inv, Types
<1>3. PICK h \in Conns : h = Head(todo[e])
  BY <1>2, HeadTailProperties DEF SendNext
<1>4. PICK m \in Messages : m = IF task[e] = "sending" THEN Event(e, cur[e]) ELSE Notice
  <2>1. Event(e, cur[e]) \in Messages /\ Notice \in Messages
    BY <1>2 DEF Messages, Event, Notice
  <2> QED
    BY <2>1
<1>1. /\ UNCHANGED <<task, cur, plan, got>>
      /\ task[e] \in {"sending", "announcing", "leaving"}
      /\ todo[e] # <<>> /\ todo' = [todo EXCEPT ![e] = Tail(todo[e])]
      /\ outq' = IF task[h] \in HasReceiver THEN [outq EXCEPT ![h] = Append(outq[h], m)] ELSE outq
  BY <1>3, <1>4 DEF SendNext
<1>5. \A d \in Conns \ {h} : Sent(d)' = Sent(d)
  BY <1>1, <1>2 DEF Sent
<1>6. Sent(h)' = IF task[h] \in HasReceiver THEN Append(Sent(h), m) ELSE Sent(h)
  <2>1. got[h] \in Seq(Messages) /\ outq[h] \in Seq(Messages)
    BY <1>2, <1>3
  <2>2. got[h] \o Append(outq[h], m) = Append(got[h] \o outq[h], m)
    BY <2>1, <1>4, AppendLast
  <2>3. CASE task[h] \in HasReceiver
    <3>1. outq'[h] = Append(outq[h], m) /\ got'[h] = got[h]
      BY <1>1, <1>2, <1>3, <2>3
    <3> QED
      BY <3>1, <2>2, <2>3 DEF Sent
  <2>4. CASE task[h] \notin HasReceiver
    BY <1>1, <2>4 DEF Sent
  <2> QED
    BY <2>3, <2>4
<1>7. todo'[e] = Tail(todo[e]) /\ \A c \in Conns \ {e} : todo'[c] = todo[c]
  BY <1>1, <1>2
<1> QED
  BY <1>1, <1>3, <1>4, <1>5, <1>6, <1>7

\* A send makes the event over for one peer, which then was sent it, unless
\* it receives nothing any more.
LEMMA SendNextDelivers ==
    ASSUME Inv, AllDelivered, NEW e \in Conns, SendNext(e)
    PROVE  AllDelivered'
<1>0. PICK h \in Conns, m \in Messages :
            /\ h = Head(todo[e])
            /\ m = IF task[e] = "sending" THEN Event(e, cur[e]) ELSE Notice
            /\ \A d \in Conns \ {h} : Sent(d)' = Sent(d)
            /\ Sent(h)' = IF task[h] \in HasReceiver THEN Append(Sent(h), m) ELSE Sent(h)
  BY SendNextSends
<1>1. /\ UNCHANGED <<task, cur, plan, got>>
      /\ task[e] \in {"sending", "announcing", "leaving"}
      /\ todo[e] # <<>> /\ todo'[e] = Tail(todo[e])
      /\ \A c \in Conns \ {e} : todo'[c] = todo[c]
      /\ \A d \in Conns \ {h} : Sent(d)' = Sent(d)
      /\ Sent(h)' = IF task[h] \in HasReceiver THEN Append(Sent(h), m) ELSE Sent(h)
  BY <1>0, SendNextSends
<1>2. todo[e] \in Seq(Conns) /\ TodoOf(e)
  BY DEF Inv, Types, TodoInv
<1>3. /\ h = todo[e][1] /\ 1 \in 1..Len(todo[e])
      /\ \A i \in 1..Len(todo'[e]) : /\ i + 1 \in 1..Len(todo[e]) /\ todo'[e][i] = todo[e][i + 1]
                                     /\ todo'[e][i] # h
      /\ \A i \in 1..Len(todo[e]) : todo[e][i] # h =>
            \E j \in 1..Len(todo'[e]) : todo'[e][j] = todo[e][i]
  <2> DEFINE s == todo[e]
  <2>1. s \in Seq(Conns) /\ s # <<>> /\ \A i, j \in 1..Len(s) : s[i] = s[j] => i = j
    BY <1>1, <1>2 DEF TodoOf
  <2>2. todo'[e] = Tail(s) /\ h = Head(s)
    BY <1>0, <1>1
  <2> HIDE DEF s
  <2>3. /\ Head(s) = s[1] /\ 1 \in 1..Len(s)
        /\ \A i \in 1..Len(Tail(s)) : /\ i + 1 \in 1..Len(s) /\ Tail(s)[i] = s[i + 1]
                                      /\ Tail(s)[i] # Head(s)
        /\ \A i \in 1..Len(s) : s[i] # Head(s) => \E j \in 1..Len(Tail(s)) : Tail(s)[j] = s[i]
    BY <2>1, TailOfTodo
  <2> QED
    BY <2>2, <2>3, Zenon DEF s
<1>4. m = IF task[e] = "sending" THEN Event(e, cur[e]) ELSE Notice
  BY <1>0
<1> SUFFICES ASSUME NEW c \in Conns, NEW d \in Conns PROVE Delivered(c, d)'
  BY DEF AllDelivered
<1>5. Delivered(c, d) /\ Sent(d) \in Seq(Messages) /\ plan'[c] = plan[c] /\ task'[d] = task[d]
  BY <1>1, SentTyped DEF AllDelivered
<1>6. \/ Pending(c, d)' <=> Pending(c, d)
      \/ c = e /\ d = h
  <2>1. CASE c # e
    BY <2>1, <1>1 DEF Pending
  <2>2. CASE d # h
    <3>1. (\E i \in 1..Len(todo'[e]) : todo'[e][i] = d)
          <=> \E i \in 1..Len(todo[e]) : todo[e][i] = d
      <4>1. ASSUME NEW i \in 1..Len(todo'[e]), todo'[e][i] = d
            PROVE  \E j \in 1..Len(todo[e]) : todo[e][j] = d
        <5>1. i + 1 \in 1..Len(todo[e]) /\ todo[e][i + 1] = d
          BY <4>1, <1>3
        <5> QED
          BY <5>1
      <4>2. ASSUME NEW i \in 1..Len(todo[e]), todo[e][i] = d
            PROVE  \E j \in 1..Len(todo'[e]) : todo'[e][j] = d
        BY <4>2, <2>2, <1>3
      <4> QED
        BY <4>1, <4>2
    <3>2. CASE c = e
      BY <3>1, <3>2, <1>1 DEF Pending
    <3> QED
      BY <2>1, <3>2
  <2> QED
    BY <2>1, <2>2
<1>7. CASE Sent(d)' = Sent(d) /\ (Pending(c, d)' <=> Pending(c, d))
  BY <1>5, <1>7, QuietStep
<1>8. CASE /\ d = h /\ Sent(d)' = Append(Sent(d), m) /\ m.from # c
           /\ Pending(c, d)' <=> Pending(c, d)
  <2>1. Done(c, d)' = Done(c, d)
    BY <1>5, <1>8 DEF Done
  <2>2. /\ Bounded(Sent(d), c, Done(c, d)) => Bounded(Sent(d)', c, Done(c, d))
        /\ Fit(Sent(d), c, d, plan[c]) => Fit(Sent(d)', c, d, plan[c])
        /\ Full(Sent(d), c, d, plan[c], Done(c, d)) => Full(Sent(d)', c, d, plan[c], Done(c, d))
        /\ Silent(Sent(d), c) => Silent(Sent(d)', c)
    BY <1>1, <1>5, <1>8, AppendOther
  <2> QED
    BY <2>1, <2>2, <1>5 DEF Delivered
<1>9. CASE c = e /\ d = h /\ task[e] = "sending"
  <2> DEFINE N == Len(plan[c])
  <2>1. cur[c] = N /\ cur[c] # 0 /\ N \in Nat \ {0} /\ m = Event(c, N)
    <3>1. cur[e] # 0
      BY <1>1, <1>2, <1>9 DEF TodoOf
    <3>2. cur[c] = N
      BY <3>1, <1>9 DEF Inv, AtLatest
    <3> QED
      BY <3>1, <3>2, <1>4, <1>9, SentTyped
  <2>2. Pending(c, d) /\ ~Pending(c, d)'
    BY <1>1, <1>3, <1>9, <2>1 DEF Pending
  <2>3. Done(c, d) = N - 1 /\ Done(c, d)' = N
    BY <2>2, <1>5 DEF Done
  <2>4. d \in regs /\ d \in plan[c][N]
    <3>1. d \in regs /\ d \in Dest(e)
      BY <1>2, <1>3, <1>9 DEF TodoOf
    <3> QED
      BY <3>1, <2>1, <1>9 DEF Dest
  <2>5. task[d] \notin Newcomer
    BY <2>4 DEF Inv, Placed
  <2> HIDE DEF N
  <2>6. Bounded(Sent(d), c, N - 1) /\ Fit(Sent(d), c, d, plan[c])
    BY <1>5, <2>3 DEF Delivered
  <2>7. CASE task[d] \in HasReceiver
    <3>1. Sent(d)' = Append(Sent(d), Event(c, N))
      BY <2>7, <2>1, <1>1, <1>9
    <3>2. Full(Sent(d), c, d, plan[c], N - 1)
      BY <2>7, <2>3, <1>5 DEF Delivered
    <3>3. /\ Bounded(Sent(d)', c, N) /\ Fit(Sent(d)', c, d, plan[c])
          /\ Full(Sent(d)', c, d, plan[c], N)
      BY <3>1, <3>2, <2>1, <2>4, <2>6, <1>5, AppendOwn DEF N
    <3> QED
      BY <3>3, <2>3, <2>5, <1>5 DEF Delivered
  <2>8. CASE task[d] \notin HasReceiver
    <3>1. Sent(d)' = Sent(d)
      BY <2>8, <1>1, <1>9
    <3>2. Bounded(Sent(d), c, N)
      BY <2>6, <2>1 DEF Bounded
    <3> QED
      BY <3>1, <3>2, <2>3, <2>5, <2>6, <2>8, <1>5 DEF Delivered
  <2> QED
    BY <2>7, <2>8
<1>10. CASE c = e /\ d = h /\ task[e] # "sending"
  <2>1. ~Pending(c, d) /\ ~Pending(c, d)'
    BY <1>1, <1>10 DEF Pending
  <2>2. m = Notice
    BY <1>4, <1>10
  <2>3. m.from # c
    BY <2>2, SentinelAssumption DEF Notice, Event
  <2> QED
    BY <2>1, <2>3, <1>1, <1>7, <1>8, <1>10
<1>11. CASE c # e /\ d = h
  <2>1. m.from # c
    BY <1>4, <1>11, SentinelAssumption DEF Notice, Event
  <2> QED
    BY <2>1, <1>1, <1>6, <1>7, <1>8, <1>11
<1>12. CASE d # h
  BY <1>1, <1>6, <1>7, <1>12
<1> QED
  BY <1>9, <1>10, <1>11, <1>12
-----------------------------------------------------------------------------
LEMMA DeliveredInit == Init => AllDelivered
<1> SUFFICES ASSUME Init, NEW c \in Conns, NEW d \in Conns PROVE Delivered(c, d)
  BY DEF AllDelivered
<1>1. got[d] = <<>> /\ outq[d] = <<>> /\ plan[c] = <<>> /\ cur[c] = 0
  BY DEF Init
<1>2. Sent(d) = <<>>
  BY <1>1, EmptySeq, ConcatEmptySeq DEF Sent
<1>3. Done(c, d) = 0
  BY <1>1, EmptySeq DEF Done, Pending
<1> QED
  BY <1>1, <1>2, <1>3, EmptySeq DEF Delivered, Bounded, Fit, Full, Silent

LEMMA DeliveredStep == Inv /\ AllDelivered /\ [Next]_vars => AllDelivered'
<1> SUFFICES ASSUME Inv, AllDelivered, [Next]_vars PROVE AllDelivered'
  OBVIOUS
<1>1. TuiAsk \/ TuiTurn \/ UNCHANGED vars => AllDelivered'
  <2>1. UNCHANGED <<task, todo, cur, plan, outq, got>> => AllDelivered'
    <3> HAVE UNCHANGED <<task, todo, cur, plan, outq, got>>
    <3>1. /\ \A d \in Conns : Sent(d)' = Sent(d) /\ task'[d] = task[d]
          /\ \A c \in Conns : plan'[c] = plan[c]
          /\ \A c, d \in Conns : Pending(c, d)' <=> Pending(c, d)
      BY DEF Sent, Pending
    <3> QED
      BY <3>1, QuietForAll
  <2> QED
    BY <2>1 DEF TuiAsk, TuiTurn, vars
<1>2. ASSUME NEW c \in Conns
      PROVE  /\ \A dest \in SUBSET Conns : Receive(c, dest) => AllDelivered'
             /\ ReceiveMuted(c) \/ ReceiveOwn(c) \/ ReceiveHeartbeat(c) \/ AckDone(c)
                => AllDelivered'
             /\ GrantRead(c) => AllDelivered'
             /\ SendNext(c) => AllDelivered'
             /\ EndBroadcast(c) \/ Record(c) \/ WriteDone(c) \/ Stall(c) => AllDelivered'
             /\ WriteStart(c) => AllDelivered'
             /\ Join(c) \/ Leave(c) \/ Joined(c) => AllDelivered'
             /\ Fail(c) \/ HeartbeatTimeout(c) \/ Left(c) => AllDelivered'
             /\ GrantWrite(c) => AllDelivered'
  BY ReceiveDelivers, GrantReadDelivers, SendNextDelivers, WriteStartDelivers, EndDelivers,
     QuietActions
<1> QED
  BY <1>1, <1>2, NextCases

LEMMA DeliveredIsInOrder == Inv /\ AllDelivered => InOrder
<1> SUFFICES ASSUME Inv, AllDelivered, NEW c \in Conns, NEW d \in Conns,
                    NEW j \in DOMAIN Sent(d), Sent(d)[j].from = c
             PROVE  /\ Sent(d)[j].n \in DOMAIN plan[c] /\ d \in plan[c][Sent(d)[j].n]
                    /\ \A i \in 1..(j - 1) : Sent(d)[i].from = c =>
                          /\ Sent(d)[i].n < Sent(d)[j].n
                          /\ \A n \in Sent(d)[i].n..Sent(d)[j].n :
                                d \in plan[c][n] => \E k \in i..j : Sent(d)[k] = Event(c, n)
  BY DEF InOrder
<1>1. Sent(d) \in Seq(Messages) /\ plan[c] \in Seq(SUBSET Conns)
  BY SentTyped DEF Inv, Types
<1>2. DOMAIN Sent(d) = 1..Len(Sent(d)) /\ DOMAIN plan[c] = 1..Len(plan[c])
  BY <1>1, LenProperties
<1>3. Fit(Sent(d), c, d, plan[c])
  BY DEF AllDelivered, Delivered
<1> QED
  BY <1>2, <1>3 DEF Fit

LEMMA DeliveredIsCaughtUp == Inv /\ AllDelivered => CaughtUp
<1> SUFFICES ASSUME Inv, AllDelivered, NEW c \in Conns, NEW d \in regs \ Late,
                    task[c] \in {"select", "writing", "acking", "recording", "closing"},
                    task[d] # "failed",
                    NEW n \in DOMAIN plan[c], d \in plan[c][n]
             PROVE  Reached(c, n, d)
  BY DEF CaughtUp
<1>1. d \in Conns /\ plan[c] \in Seq(SUBSET Conns) /\ Sent(d) \in Seq(Messages)
      /\ task[d] \in Tasks
  BY SentTyped DEF Inv, Types
<1>2. n \in 1..Len(plan[c]) /\ DOMAIN Sent(d) = 1..Len(Sent(d))
  BY <1>1, LenProperties
<1>3. task[d] \in HasReceiver
  <2>1. task[d] \notin {"out", "gone"}
    BY <1>1 DEF Inv, Placed, Newcomer
  <2> QED
    BY <1>1, <2>1 DEF HasReceiver
<1>4. Done(c, d) = Len(plan[c])
  BY DEF Done, Pending
<1>5. Full(Sent(d), c, d, plan[c], Len(plan[c]))
  BY <1>1, <1>3, <1>4 DEF AllDelivered, Delivered
<1>6. Holds(Sent(d), c, n)
  BY <1>2, <1>5 DEF Full
<1> QED
  BY <1>2, <1>6 DEF Holds, Reached

(***************************************************************************)
(* What one source sent arrives elsewhere in order, once, and with none    *)
(* missing in between: broadcast and send_to_server, one queue for each.   *)
(***************************************************************************)
THEOREM EventsInOrder == Spec => []InOrder
BY InvInit, InvStep, DeliveredInit, DeliveredStep, DeliveredIsInOrder, PTL DEF Spec

(***************************************************************************)
(* Between two packets of a source, whoever was registered all along was   *)
(* sent all that was meant for it.                                         *)
(***************************************************************************)
THEOREM NobodyLeftBehind == Spec => []CaughtUp
BY InvInit, InvStep, DeliveredInit, DeliveredStep, DeliveredIsCaughtUp, PTL DEF Spec
=============================================================================
