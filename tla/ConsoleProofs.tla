--------------------------- MODULE ConsoleProofs ----------------------------
(***************************************************************************)
(* Proofs about Console for every configuration file, capacity, height of  *)
(* the panel and number of events.                                         *)
(*                                                                         *)
(* The argument: the channel holds the consecutive numbers after those     *)
(* taken in (ChannelInv), so appending it to the list keeps the list in    *)
(* order, and trimming an ordered list from the front drops only what is   *)
(* older than all that stays (KeepLastNewest).  The window is arithmetic on*)
(* the number of filtered events, which is at most the length of the list. *)
(***************************************************************************)
EXTENDS Console, FiniteSetTheorems, SequenceTheorems, TLAPS

EventType == [n : Nat, server : 0..4]

SeqInv ==
    /\ channel \in Seq(EventType)
    /\ history \in Seq(EventType)
    /\ events \in Seq(EventType)
    /\ storing \in [Servers -> EventType]

\* The channel holds the newest of what was recorded, one after another.
ChannelInv ==
    /\ Len(channel) <= recorded
    /\ \A i \in 1..Len(channel) : channel[i].n = Taken + i

\* Nothing is recorded before the configuration is loaded.
FreshInv == phase = "starting" => recorded = 0 /\ events = <<>> /\ history = <<>>

TypeInv == TypeOK /\ SeqInv /\ ChannelInv /\ FreshInv
-----------------------------------------------------------------------------
(***************************************************************************)
(* What drain leaves of a list: its last n elements.                       *)
(***************************************************************************)
LEMMA KeepLastProperties ==
    ASSUME NEW s \in Seq(EventType), NEW n \in Nat
    PROVE  /\ KeepLast(s, n) \in Seq(EventType)
           /\ Len(KeepLast(s, n)) = Least(Len(s), n)
           /\ \A i \in 1..Len(KeepLast(s, n)) :
                 KeepLast(s, n)[i] = s[i + Minus(Len(s), n)]
<1> USE DEF KeepLast, Least, Minus
<1>1. Len(s) \in Nat /\ \A i \in 1..Len(s) : s[i] \in EventType
  BY LenProperties, ElementOfSeq
<1>2. CASE Len(s) > n
  <2> DEFINE m == Len(s) - n + 1
  <2>1. m \in Int /\ Len(s) \in Int /\ \A i \in m..Len(s) : s[i] \in EventType
    BY <1>1, <1>2
  <2>2. /\ SubSeq(s, m, Len(s)) \in Seq(EventType)
        /\ Len(SubSeq(s, m, Len(s))) = IF m <= Len(s) THEN Len(s) - m + 1 ELSE 0
        /\ \A i \in 1..Len(s) - m + 1 : SubSeq(s, m, Len(s))[i] = s[m + i - 1]
    BY <2>1, SubSeqProperties
  <2>3. Len(SubSeq(s, m, Len(s))) = n
    BY <2>2, <1>1, <1>2
  <2> QED
    BY <2>2, <2>3, <1>1, <1>2
<1>3. CASE ~(Len(s) > n)
  BY <1>1, <1>3
<1> QED
  BY <1>2, <1>3

\* The defaults lie within the ranges of validate.
LEMMA DefaultIsValid ==
    /\ Default.max_servers \in ServerCounts
    /\ Default.connection_timeout_ms \in Timeouts
    /\ Default.heartbeat_interval_ms \in Heartbeats
    /\ Default.max_event_history \in Nat
<1>1. Default.max_servers = 4 /\ 4 \in ServerCounts
  BY DEF Default, ServerCounts
<1>2. Default.connection_timeout_ms = 5000 /\ 5000 \in Timeouts
  BY DEF Default, Timeouts
<1>3. Default.heartbeat_interval_ms = 1000 /\ 1000 \in Heartbeats
  BY DEF Default, Heartbeats
<1>4. Default.max_event_history \in Nat
  BY DEF Default
<1> QED
  BY <1>1, <1>2, <1>3, <1>4

\* A configuration that load returns, whatever level the command line gives it.
LEMMA LoadedIsValid ==
    ASSUME NEW file \in Files, NEW loaded \in Load(file), NEW level
    PROVE  LET c == Override(loaded, level)
           IN  /\ c.max_servers \in ServerCounts
               /\ c.connection_timeout_ms \in Timeouts
               /\ c.heartbeat_interval_ms \in Heartbeats
               /\ c.max_event_history \in Nat
<1>1. CASE file = NoFile
  <2>1. loaded = Default
    BY <1>1 DEF Load
  <2> QED
    BY <2>1, DefaultIsValid DEF Override, Default
<1>2. CASE file # NoFile
  <2>1. loaded = file /\ Valid(file)
    BY <1>2 DEF Load
  <2>2. file.max_event_history \in Nat /\ DOMAIN file = DOMAIN Default
    BY <1>2, FilesAssumption
  <2>3. {"max_servers", "connection_timeout_ms", "heartbeat_interval_ms",
         "max_event_history"} \subseteq DOMAIN file
    BY <2>2 DEF Default
  <2> QED
    BY <2>1, <2>2, <2>3 DEF Override, Valid
<1> QED
  BY <1>1, <1>2
-----------------------------------------------------------------------------
\* Nothing is recorded and the defaults are in force when main starts.
LEMMA TypeInit == Init => TypeInv
<1> SUFFICES ASSUME Init PROVE TypeInv
  OBVIOUS
<1>1. SeqInv
  BY ServersAssumption, EmptySeq DEF Init, SeqInv, EventType, NoEvent
<1>2. Len(<<>>) = 0
  BY EmptySeq
<1>3. /\ Len(channel) = 0 /\ Len(history) = 0 /\ Len(events) = 0
      /\ recorded = 0 /\ Taken = 0
  <2>1. channel = <<>> /\ history = <<>> /\ events = <<>> /\ recorded = 0
    BY DEF Init
  <2>2. Len(channel) = 0 /\ Len(history) = 0 /\ Len(events) = 0
    BY <1>2, <2>1, Zenon
  <2>3. Taken = 0 - 0
    BY <2>1, <2>2, Zenon DEF Taken
  <2> QED
    BY <2>1, <2>2, <2>3
<1>4. ChannelInv
  BY <1>3 DEF ChannelInv
<1>5. TypeOK
  <2>1. /\ phase = "starting" /\ mode \in {"cli", "tui"} /\ config = Default
        /\ missed = {} /\ scroll = 0 /\ selected = 0 /\ overlay = "none"
    BY DEF Init
  <2>2. paused \in BOOLEAN /\ drawn \in BOOLEAN
    BY DEF Init
  <2> QED
    BY <1>3, <2>1, <2>2, ConsoleAssumption, DefaultIsValid DEF TypeOK
<1> QED
  BY <1>1, <1>4, <1>5 DEF TypeInv, FreshInv, Init

\* Every step of main, the recording tasks and the loop keeps the types.
LEMMA TypeStep == TypeInv /\ [Next]_vars => TypeInv'
<1> SUFFICES ASSUME TypeInv, [Next]_vars PROVE TypeInv'
  OBVIOUS
<1> USE ConsoleAssumption, ServersAssumption
<1>0. /\ Len(channel) \in Nat /\ Len(events) \in Nat /\ Len(history) \in Nat
      /\ config.max_event_history \in Nat /\ recorded \in Nat
  BY LenProperties DEF TypeInv, SeqInv, TypeOK
<1> DEFINE Keys == NoKey \/ CloseOverlay \/ OpenOverlay \/ Quit \/ Pause \/ Scroll
<1>1. CASE UNCHANGED vars
  BY <1>1 DEF vars, tuiVars, TypeInv, TypeOK, SeqInv, ChannelInv, FreshInv, Taken
<1>2. ASSUME NEW file \in Files, NEW level \in CliLevels, Start(file, level) PROVE TypeInv'
  <2>1. /\ config'.max_servers \in ServerCounts
        /\ config'.connection_timeout_ms \in Timeouts
        /\ config'.heartbeat_interval_ms \in Heartbeats
        /\ config'.max_event_history \in Nat
    BY <1>2, LoadedIsValid DEF Start, TypeInv, TypeOK
  <2>2. Len(<<>>) = 0
    BY EmptySeq
  <2> QED
    BY <1>2, <2>1, <2>2, <1>0
    DEF Start, tuiVars, TypeInv, TypeOK, SeqInv, ChannelInv, FreshInv, Taken
<1>3. CASE BindFails \/ CtrlC
  BY <1>3
  DEF BindFails, CtrlC, tuiVars, TypeInv, TypeOK, SeqInv, ChannelInv, FreshInv, Taken
<1>4. ASSUME NEW s \in Servers, SendRecord(s) PROVE TypeInv'
  <2> DEFINE e == [n |-> recorded + 1, server |-> s]
  <2>1. e \in EventType
    BY <1>0 DEF EventType
  <2>2. /\ channel' \in Seq(EventType) /\ Len(channel') = Len(channel) + 1
        /\ \A i \in 1..Len(channel) : channel'[i] = channel[i]
        /\ channel'[Len(channel) + 1] = e
    BY <2>1, <1>4, AppendProperties DEF SendRecord, TypeInv, SeqInv
  <2>3. SeqInv'
    BY <1>4, <2>1, <2>2 DEF SendRecord, tuiVars, TypeInv, SeqInv
  <2>4. recorded' = recorded + 1 /\ Taken' = Taken
    BY <1>4, <2>2, <1>0 DEF SendRecord, Taken
  <2>5. ChannelInv'
    <3>1. ASSUME NEW i \in 1..Len(channel') PROVE channel'[i].n = Taken + i
      <4>1. CASE i = Len(channel) + 1
        <5>1. channel'[i].n = recorded + 1
          BY <4>1, <2>2
        <5>2. recorded + 1 = Taken + (Len(channel) + 1)
          BY <1>0 DEF Taken
        <5> QED
          BY <5>1, <5>2, <4>1
      <4>2. CASE i # Len(channel) + 1
        <5>1. i \in 1..Len(channel)
          BY <4>2, <3>1, <2>2, <1>0
        <5> QED
          BY <5>1, <2>2 DEF TypeInv, ChannelInv
      <4> QED
        BY <4>1, <4>2
    <3> QED
      BY <3>1, <2>2, <2>4, <1>0 DEF TypeInv, ChannelInv
  <2>6. TypeOK'
    BY <1>4, <2>2, <2>4, <1>0 DEF SendRecord, tuiVars, TypeInv, TypeOK
  <2> QED
    BY <1>4, <2>3, <2>5, <2>6 DEF SendRecord, TypeInv, FreshInv
<1>5. ASSUME NEW s \in Servers, StoreRecord(s) PROVE TypeInv'
  <2>1. Append(history, storing[s]) \in Seq(EventType)
    BY <1>5, AppendProperties DEF StoreRecord, TypeInv, SeqInv
  <2>2. history' \in Seq(EventType) /\ Len(history') <= config.max_event_history
    <3>1. history' = KeepLast(Append(history, storing[s]), config.max_event_history)
      BY <1>5 DEF StoreRecord
    <3>2. Len(Append(history, storing[s])) \in Nat
      BY <2>1, LenProperties
    <3>3. /\ history' \in Seq(EventType)
          /\ Len(history') = Least(Len(Append(history, storing[s])), config.max_event_history)
      BY <3>1, <2>1, <1>0, KeepLastProperties
    <3> QED
      BY <3>2, <3>3, <1>0 DEF Least
  <2>3. NoEvent \in EventType
    BY DEF NoEvent, EventType
  <2> QED
    BY <1>5, <2>2, <2>3
    DEF StoreRecord, tuiVars, TypeInv, TypeOK, SeqInv, ChannelInv, FreshInv, Taken
<1>6. CASE Drain
  <2> DEFINE all == IF paused THEN events ELSE events \o channel
  <2>1. all \in Seq(EventType)
    BY ConcatProperties DEF TypeInv, SeqInv
  <2>2. events' = KeepLast(all, config.max_event_history)
    BY <1>6 DEF Drain
  <2>3. events' \in Seq(EventType) /\ Len(events') <= config.max_event_history
    <3>1. Len(all) \in Nat
      BY <2>1, LenProperties
    <3>2. /\ events' \in Seq(EventType)
          /\ Len(events') = Least(Len(all), config.max_event_history)
      BY <2>1, <2>2, <1>0, KeepLastProperties
    <3> QED
      BY <3>1, <3>2, <1>0 DEF Least
  <2>4. channel' = <<>> /\ Len(channel') = 0 /\ channel' \in Seq(EventType)
    BY <1>6, EmptySeq DEF Drain
  <2>5. Taken' = recorded /\ recorded' = recorded /\ Taken \in 0..recorded
    BY <1>6, <2>4, <1>0 DEF Drain, Taken, TypeInv, ChannelInv
  <2>6. missed' \subseteq 1..recorded
    BY <1>6, <2>5, <1>0 DEF Drain, TypeInv, TypeOK
  <2>7. TypeOK'
    BY <1>6, <2>3, <2>4, <2>5, <2>6 DEF Drain, TypeInv, TypeOK
  <2>8. SeqInv' /\ ChannelInv'
    BY <1>6, <2>3, <2>4, <2>5, <1>0 DEF Drain, TypeInv, SeqInv, ChannelInv
  <2> QED
    BY <1>6, <2>7, <2>8 DEF Drain, TypeInv, FreshInv
<1>7. CASE Clear
  <2>1. events' = <<>> /\ Len(events') = 0 /\ events' \in Seq(EventType)
    BY <1>7, EmptySeq DEF Clear
  <2>2. missed' = 1..Taken /\ Taken' = Taken /\ scroll' = 0
    BY <1>7 DEF Clear, Polled, Taken
  <2>3. TypeOK'
    <3>1. missed' \subseteq 1..Taken' /\ scroll' \in Nat /\ Len(events') <= config.max_event_history
      BY <2>1, <2>2, <1>0
    <3>2. drawn' \in BOOLEAN
      BY <1>7 DEF Clear, Polled
    <3>3. UNCHANGED <<mode, config, recorded, channel, history, phase, paused, selected, overlay>>
      BY <1>7 DEF Clear, Polled
    <3> QED
      BY <3>1, <3>2, <3>3 DEF TypeInv, TypeOK
  <2> QED
    BY <1>7, <2>1, <2>2, <2>3 DEF Clear, Polled, TypeInv, SeqInv, ChannelInv, FreshInv
<1>8. CASE Keys
  <2>1. UNCHANGED <<events, missed, mode, config, recorded, channel, storing, history>>
        /\ phase = "running" /\ phase' \in {"running", "ended"}
    BY <1>8 DEF NoKey, CloseOverlay, OpenOverlay, Quit, Pause, Scroll, Polled
  <2>2. scroll' \in Nat
    BY <1>8, <1>0
    DEF NoKey, CloseOverlay, OpenOverlay, Quit, Pause, Scroll, TypeInv, TypeOK, Minus, Least
  <2>3. selected' \in 0..4 /\ overlay' \in {"none", "help", "settings"}
        /\ paused' \in BOOLEAN /\ drawn' \in BOOLEAN
    BY <1>8
    DEF NoKey, CloseOverlay, OpenOverlay, Quit, Pause, Scroll, Polled, TypeInv, TypeOK
  <2> QED
    BY <2>1, <2>2, <2>3 DEF TypeInv, TypeOK, SeqInv, ChannelInv, FreshInv, Taken
<1>9. ASSUME NEW s \in 0..4, Select(s) PROVE TypeInv'
  BY <1>9 DEF Select, Polled, TypeInv, TypeOK, SeqInv, ChannelInv, FreshInv, Taken
<1> QED
  BY <1>1, <1>2, <1>3, <1>4, <1>5, <1>6, <1>7, <1>8, <1>9 DEF Next

(***************************************************************************)
(* The relay runs on a configuration within its ranges, and neither the    *)
(* history nor the list outgrows max_event_history, for any capacity of the*)
(* channel and any number of events.                                       *)
(***************************************************************************)
THEOREM TypeCorrect == Spec => []TypeOK
<1>1. TypeInv => TypeOK
  BY DEF TypeInv
<1> QED
  BY TypeInit, TypeStep, <1>1, PTL DEF Spec
-----------------------------------------------------------------------------
(***************************************************************************)
(* Whatever the filter, the trimming and the height, the window lies in the*)
(* events, is full if they suffice, ends with the newest unless scrolled,  *)
(* and reaches the oldest.                                                 *)
(***************************************************************************)
THEOREM WindowInRange == Spec => []ViewInRange
<1>1. TypeInv => ViewInRange
  <2> SUFFICES ASSUME TypeInv PROVE ViewInRange
    OBVIOUS
  <2>1. Len(events) \in Nat /\ DOMAIN events = 1..Len(events)
    <3>1. events \in Seq(EventType)
      BY DEF TypeInv, SeqInv
    <3> QED
      BY <3>1, LenProperties
  <2>2. IsFiniteSet(1..Len(events)) /\ Cardinality(1..Len(events)) = Len(events)
    <3> DEFINE n == Len(events)
    <3> HIDE DEF n
    <3>1. n \in Int /\ n >= 0
      BY <2>1 DEF n
    <3>2. IsFiniteSet(1..n) /\ Cardinality(1..n) = IF 1 > n THEN 0 ELSE n - 1 + 1
      BY <3>1, FS_Interval
    <3>3. Cardinality(1..n) = n
      BY <3>1, <3>2
    <3> QED
      BY <3>2, <3>3 DEF n
  <2>3. Total \in Nat /\ Total <= Len(events)
    <3> DEFINE T == {i \in DOMAIN events : Filtered(events[i])}
    <3>1. T \in SUBSET (1..Len(events))
      <4>1. T \subseteq DOMAIN events
        OBVIOUS
      <4> QED
        BY <4>1, <2>1
    <3> HIDE DEF T
    <3>2. IsFiniteSet(T) /\ Cardinality(T) <= Len(events)
      BY <3>1, <2>2, FS_Subset
    <3>3. Cardinality(T) \in Nat
      BY <3>2, FS_CardinalityType
    <3>4. Total = Cardinality(T)
      BY DEF Total, T
    <3> QED
      BY <3>2, <3>3, <3>4
  <2>4. scroll \in Nat /\ \A rows \in Rows : rows \in Nat
    BY ConsoleAssumption DEF TypeInv, TypeOK
  <2> QED
    BY <2>1, <2>3, <2>4 DEF ViewInRange, StartIdx, EndIdx, Least, Minus
<1> QED
  BY TypeInit, TypeStep, <1>1, PTL DEF Spec
-----------------------------------------------------------------------------
(***************************************************************************)
(* A list in order, of what was taken in and neither missed nor cleared,   *)
(* that leaves out only what is older than all of a full list: trimmed, it *)
(* still is one.                                                           *)
(***************************************************************************)
Newest(s, taken, n) ==
    /\ \A i, j \in 1..Len(s) : i < j => s[i].n < s[j].n
    /\ \A i \in 1..Len(s) : s[i].n \in taken
    /\ \A k \in taken :
          \/ \E i \in 1..Len(s) : s[i].n = k
          \/ /\ Len(s) >= n
             /\ \A i \in 1..Len(s) : k < s[i].n

LEMMA KeepLastNewest ==
    ASSUME NEW s \in Seq(EventType), NEW n \in Nat, NEW taken \in SUBSET Nat,
           Newest(s, taken, n)
    PROVE  Newest(KeepLast(s, n), taken, n)
<1> DEFINE t == KeepLast(s, n)
           d == Minus(Len(s), n)
<1>1. Len(s) \in Nat /\ \A i \in 1..Len(s) : s[i].n \in Nat
  <2>1. \A i \in 1..Len(s) : s[i] \in EventType
    BY ElementOfSeq
  <2> QED
    BY <2>1, LenProperties DEF EventType
<1>2. /\ d \in 0..Len(s) /\ Len(t) = Len(s) - d
      /\ \A i \in 1..Len(t) : t[i] = s[i + d]
  <2>1. Len(t) = Least(Len(s), n) /\ \A i \in 1..Len(t) : t[i] = s[i + d]
    BY KeepLastProperties
  <2>2. d \in 0..Len(s) /\ Least(Len(s), n) = Len(s) - d
    BY <1>1 DEF Minus, Least
  <2> QED
    BY <2>1, <2>2
<1>3. d > 0 => Len(t) = n
  BY <1>1, <1>2 DEF Minus
<1> HIDE DEF t, d
<1>4. \A i, j \in 1..Len(t) : i < j => t[i].n < t[j].n
  <2> TAKE i, j \in 1..Len(t)
  <2>1. i + d \in 1..Len(s) /\ j + d \in 1..Len(s) /\ (i < j => i + d < j + d)
    BY <1>1, <1>2
  <2> QED
    BY <1>2, <2>1 DEF Newest
<1>5. \A i \in 1..Len(t) : t[i].n \in taken
  BY <1>1, <1>2 DEF Newest
<1>6. ASSUME NEW k \in taken
      PROVE  \/ \E i \in 1..Len(t) : t[i].n = k
             \/ Len(t) >= n /\ \A i \in 1..Len(t) : k < t[i].n
  <2>1. CASE \E i \in 1..Len(s) : s[i].n = k
    <3>1. PICK i \in 1..Len(s) : s[i].n = k
      BY <2>1
    <3>2. CASE i > d
      <4>1. i - d \in 1..Len(t) /\ t[i - d] = s[i]
        BY <1>1, <1>2, <3>2
      <4> QED
        BY <3>1, <4>1
    <3>3. CASE i <= d
      <4>1. \A j \in 1..Len(t) : k < t[j].n
        <5> TAKE j \in 1..Len(t)
        <5>1. j + d \in 1..Len(s) /\ i < j + d /\ t[j] = s[j + d]
          BY <1>1, <1>2, <3>3
        <5> QED
          BY <3>1, <5>1 DEF Newest
      <4>2. Len(t) = n
        BY <1>2, <1>3, <3>3
      <4> QED
        BY <4>1, <4>2
    <3> QED
      BY <3>2, <3>3, <1>1, <1>2
  <2>2. CASE Len(s) >= n /\ \A i \in 1..Len(s) : k < s[i].n
    <3>1. Len(t) >= n
      BY <1>1, <1>2, <1>3, <2>2
    <3>2. \A i \in 1..Len(t) : i + d \in 1..Len(s)
      BY <1>1, <1>2
    <3> QED
      BY <3>1, <3>2, <1>2, <2>2
  <2> QED
    BY <2>1, <2>2 DEF Newest
<1> QED
  BY <1>4, <1>5, <1>6 DEF Newest, t

\* What was taken in and neither missed by pausing nor cleared.
Kept == (1..Taken) \ missed

FeedInv == TypeInv /\ Newest(events, Kept, config.max_event_history)

\* Nothing is missing from an empty list of nothing.
LEMMA FeedInit == Init => FeedInv
<1> SUFFICES ASSUME Init PROVE FeedInv
  OBVIOUS
<1>1. Len(<<>>) = 0
  BY EmptySeq
<1> QED
  BY <1>1, TypeInit DEF Init, FeedInv, Newest, Kept, Taken

\* Only Drain and Clear touch the list or what has been taken in.
LEMMA FeedStep == FeedInv /\ [Next]_vars => FeedInv'
<1> SUFFICES ASSUME FeedInv, [Next]_vars PROVE FeedInv'
  OBVIOUS
<1>0. TypeInv /\ TypeInv'
  BY TypeStep DEF FeedInv
<1>1. /\ Len(channel) \in Nat /\ Len(events) \in Nat /\ recorded \in Nat
      /\ config.max_event_history \in Nat /\ Taken \in Nat
  BY <1>0, LenProperties DEF TypeInv, SeqInv, ChannelInv, TypeOK, Taken
<1>2. CASE UNCHANGED <<events, missed, Taken, config>>
  BY <1>0, <1>2 DEF FeedInv, Newest, Kept
<1>3. CASE phase = "starting" /\ UNCHANGED <<events, missed, Taken>>
  <2>1. events = <<>> /\ Len(events) = 0
    BY <1>0, <1>3, EmptySeq DEF TypeInv, FreshInv
  <2>2. Kept = {}
    BY <1>0, <1>1, <1>3 DEF TypeInv, FreshInv, Kept, Taken
  <2> QED
    BY <1>0, <1>3, <2>1, <2>2 DEF FeedInv, Newest, Kept
<1>4. CASE Drain
  <2> DEFINE all == IF paused THEN events ELSE events \o channel
             max == config.max_event_history
  <2>1. all \in Seq(EventType) /\ events' = KeepLast(all, max) /\ config' = config
    BY <1>4, <1>0, ConcatProperties DEF Drain, TypeInv, SeqInv
  <2>2. Taken' = recorded /\ Kept' \in SUBSET Nat
    BY <1>4, <1>1, EmptySeq DEF Drain, Taken, Kept
  <2>3. Newest(all, Kept', max)
    <3>1. CASE paused
      <4>1. Kept' = Kept
        BY <1>4, <1>0, <1>1, <2>2, <3>1
        DEF Drain, Kept, TypeInv, TypeOK, ChannelInv, Taken
      <4> QED
        BY <3>1, <4>1 DEF FeedInv
    <3>2. CASE ~paused
      <4>1. Kept' = Kept \cup (Taken + 1)..recorded
        BY <1>4, <1>0, <1>1, <2>2, <3>2
        DEF Drain, Kept, TypeInv, TypeOK, ChannelInv, Taken
      <4>2. /\ Len(all) = Len(events) + Len(channel)
            /\ \A i \in 1..Len(all) :
                  all[i] = IF i <= Len(events) THEN events[i] ELSE channel[i - Len(events)]
        BY <1>0, <3>2, ConcatProperties DEF TypeInv, SeqInv
      <4>3. \A i \in 1..Len(channel) : channel[i].n = Taken + i
        BY <1>0 DEF TypeInv, ChannelInv
      <4>4. \A i \in 1..Len(events) : events[i].n \in Kept /\ events[i].n <= Taken
        BY <1>1 DEF FeedInv, Newest, Kept
      <4> HIDE DEF all
      <4>5. \A i \in 1..Len(all) :
               \/ i \in 1..Len(events) /\ all[i] = events[i]
               \/ /\ i > Len(events) /\ i - Len(events) \in 1..Len(channel)
                  /\ all[i].n = Taken + (i - Len(events))
        <5> TAKE i \in 1..Len(all)
        <5>1. CASE i <= Len(events)
          BY <1>1, <4>2, <5>1
        <5>2. CASE ~(i <= Len(events))
          <6>1. i - Len(events) \in 1..Len(channel)
            BY <1>1, <4>2, <5>2
          <6>2. all[i] = channel[i - Len(events)]
            BY <4>2, <5>2
          <6>3. channel[i - Len(events)].n = Taken + (i - Len(events))
            BY <6>1, <4>3
          <6> QED
            BY <1>1, <5>2, <6>1, <6>2, <6>3
        <5> QED
          BY <5>1, <5>2
      <4>6. \A i, j \in 1..Len(all) : i < j => all[i].n < all[j].n
        <5> TAKE i, j \in 1..Len(all)
        <5>1. CASE j <= Len(events)
          BY <1>1, <4>2, <5>1 DEF FeedInv, Newest
        <5>2. CASE i <= Len(events) /\ j > Len(events)
          <6>1. all[i].n <= Taken /\ all[i].n \in Nat
            BY <1>1, <4>2, <4>4, <5>2 DEF Kept
          <6>2. all[j].n = Taken + (j - Len(events))
            <7>1. j \notin 1..Len(events)
              BY <1>1, <5>2
            <7> QED
              BY <7>1, <4>5
          <6> QED
            BY <1>1, <6>1, <6>2, <5>2
        <5>3. CASE i > Len(events)
          <6>1. i < j => all[i].n = Taken + (i - Len(events)) /\ all[j].n = Taken + (j - Len(events))
            BY <1>1, <4>5, <5>3
          <6> QED
            BY <1>1, <6>1
        <5> QED
          BY <1>1, <5>1, <5>2, <5>3
      <4>7. \A i \in 1..Len(all) : all[i].n \in Kept'
        <5> TAKE i \in 1..Len(all)
        <5>1. CASE i \in 1..Len(events) /\ all[i] = events[i]
          BY <4>1, <4>4, <5>1
        <5>2. CASE /\ i - Len(events) \in 1..Len(channel)
                   /\ all[i].n = Taken + (i - Len(events))
          BY <1>1, <4>1, <5>2 DEF Taken
        <5> QED
          BY <4>5, <5>1, <5>2
      <4>8. ASSUME NEW k \in Kept'
            PROVE  \/ \E i \in 1..Len(all) : all[i].n = k
                   \/ Len(all) >= max /\ \A i \in 1..Len(all) : k < all[i].n
        <5>1. CASE k \in Kept /\ \E i \in 1..Len(events) : events[i].n = k
          BY <5>1, <1>1, <4>2
        <5>2. CASE k \in Kept /\ Len(events) >= max
                   /\ \A i \in 1..Len(events) : k < events[i].n
          <6>1. k <= Taken /\ k \in Nat
            BY <5>2, <1>1 DEF Kept
          <6>2. \A i \in 1..Len(all) : k < all[i].n
            BY <5>2, <6>1, <1>1, <4>5
          <6> QED
            BY <5>2, <6>2, <1>1, <4>2
        <5>3. CASE k \in (Taken + 1)..recorded
          <6>1. k - Taken \in 1..Len(channel)
            BY <5>3, <1>1 DEF Taken
          <6>2. /\ Len(events) + (k - Taken) \in 1..Len(all)
                /\ all[Len(events) + (k - Taken)] = channel[k - Taken]
            <7>1. k \in Int
              BY <5>3, <1>1
            <7>2. /\ Len(events) + (k - Taken) \in 1..Len(all)
                  /\ ~(Len(events) + (k - Taken) <= Len(events))
                  /\ (Len(events) + (k - Taken)) - Len(events) = k - Taken
              BY <6>1, <7>1, <1>1, <4>2
            <7> QED
              BY <7>2, <4>2
          <6>3. all[Len(events) + (k - Taken)].n = k
            <7>1. channel[k - Taken].n = Taken + (k - Taken)
              BY <6>1, <4>3
            <7> QED
              <8>1. Taken + (k - Taken) = k
                BY <5>3, <1>1
              <8> QED
                BY <7>1, <8>1, <6>2
          <6> QED
            BY <6>2, <6>3
        <5> QED
          BY <4>1, <5>1, <5>2, <5>3 DEF FeedInv, Newest
      <4> QED
        BY <4>6, <4>7, <4>8 DEF Newest
    <3> QED
      BY <3>1, <3>2
  <2>4. Newest(KeepLast(all, max), Kept', max)
    BY <2>1, <2>2, <2>3, <1>1, KeepLastNewest
  <2> QED
    BY <1>0, <2>1, <2>4 DEF FeedInv
<1>5. CASE Clear
  <2>1. events' = <<>> /\ Len(events') = 0 /\ Kept' = {}
    BY <1>5, EmptySeq DEF Clear, Polled, Kept, Taken
  <2> QED
    BY <1>0, <2>1 DEF FeedInv, Newest
<1>6. ASSUME NEW s \in Servers, SendRecord(s) PROVE FeedInv'
  <2>1. Len(channel') = Len(channel) + 1
    BY <1>6, <1>0, <1>1, ServersAssumption, AppendProperties
    DEF SendRecord, TypeInv, SeqInv, EventType
  <2> QED
    BY <1>6, <2>1, <1>1, <1>2 DEF SendRecord, tuiVars, Taken
<1> QED
  <2>1. ASSUME NEW file \in Files, NEW level \in CliLevels, Start(file, level) PROVE FeedInv'
    BY <2>1, <1>3 DEF Start, tuiVars, Taken
  <2>2. CASE BindFails \/ CtrlC \/ \E s \in Servers : StoreRecord(s)
    BY <2>2, <1>2 DEF BindFails, CtrlC, StoreRecord, tuiVars, Taken
  <2>3. CASE NoKey \/ CloseOverlay \/ OpenOverlay \/ Quit \/ Pause \/ Scroll
             \/ \E s \in 0..4 : Select(s)
    BY <2>3, <1>2
    DEF NoKey, CloseOverlay, OpenOverlay, Quit, Pause, Scroll, Select, Polled, Taken
  <2>4. CASE UNCHANGED vars
    BY <2>4, <1>2 DEF vars, tuiVars, Taken
  <2> QED
    BY <1>4, <1>5, <1>6, <2>1, <2>2, <2>3, <2>4 DEF Next

(***************************************************************************)
(* The list holds, in order, the newest of what was taken in and neither   *)
(* missed nor cleared, for any max_event_history, however pauses, clears,  *)
(* drains and recording tasks interleave.                                  *)
(***************************************************************************)
THEOREM NewestAreKept == Spec => []FeedKeepsNewest
<1>1. FeedInv => FeedKeepsNewest
  <2> SUFFICES ASSUME FeedInv PROVE FeedKeepsNewest
    OBVIOUS
  <2>1. /\ Len(events) \in Nat /\ DOMAIN events = 1..Len(events)
        /\ Len(events) <= config.max_event_history
        /\ config.max_event_history \in Nat
    BY LenProperties DEF FeedInv, TypeInv, SeqInv, TypeOK
  <2>2. /\ \A i, j \in 1..Len(events) : i < j => events[i].n < events[j].n
        /\ \A i \in 1..Len(events) : events[i].n \in Kept
    BY DEF FeedInv, Newest
  <2>3. \A n \in Kept :
           \/ \E i \in 1..Len(events) : events[i].n = n
           \/ /\ Len(events) = config.max_event_history
              /\ \A i \in 1..Len(events) : n < events[i].n
    BY <2>1 DEF FeedInv, Newest
  <2> QED
    BY <2>1, <2>2, <2>3 DEF Kept, FeedKeepsNewest
<1> QED
  BY FeedInit, FeedStep, <1>1, PTL DEF Spec
=============================================================================
