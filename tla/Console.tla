------------------------------ MODULE Console -------------------------------
(***************************************************************************)
(* What the operator sees of the relay: main loads the configuration and   *)
(* runs the server in CLI mode or under the terminal interface, whose loop *)
(* drains the event channel, draws, and handles a key.                     *)
(*                                                                         *)
(* Relay::record_event sends an event into the channel and then stores it  *)
(* in the history, under another lock: the tasks of several servers record *)
(* at once.  What drawing shows is a window of the list of events, filtered*)
(* by server and scrolled from its end.  Focus, layout and wording are left*)
(* out.                                                                    *)
(***************************************************************************)
EXTENDS Config, Sequences, FiniteSets

CONSTANTS
    Files,      \* the configuration files that parse, or NoFile
    CliLevels,  \* what may be given as log level
    Servers,    \* the ids whose tasks record events
    Cap,        \* the capacity of the event channel (1000)
    Rows,       \* heights of the events panel; the terminal may be resized
    Page,       \* how far PageUp and PageDown scroll (10)
    MaxEvents   \* bound: the events recorded

ASSUME ServersAssumption == Servers \subseteq 1..4
ASSUME ConsoleAssumption ==
    Cap \in Nat \ {0} /\ Rows \subseteq Nat /\ Page \in Nat /\ MaxEvents \in Nat
ASSUME FilesAssumption ==
    \A file \in Files \ {NoFile} :
        /\ DOMAIN file = DOMAIN Default
        /\ file.max_event_history \in Nat

VARIABLES
    phase,     \* "starting", "running", "ended"
    mode,      \* "cli" or "tui"
    config,    \* the configuration in force
    recorded,  \* how many events were sent into the channel
    channel,   \* the events in it
    storing,   \* storing[s]: the event the task of s has yet to store
    history,   \* Relay::event_history
    events,    \* App::events
    missed,    \* history: the events seen while paused, or cleared
    scroll,    \* App::events_scroll
    paused,    \* App::paused
    selected,  \* App::selected_server, 0 for all
    overlay,   \* show_help, show_settings
    drawn      \* the loop has drawn and polls the keyboard

tuiVars == <<events, missed, scroll, paused, selected, overlay, drawn>>
vars == <<phase, mode, config, recorded, channel, storing, history, tuiVars>>

NoEvent == [n |-> 0, server |-> 0]

Init ==
    /\ phase = "starting"
    /\ mode \in {"cli", "tui"}
    /\ config = Default
    /\ recorded = 0 /\ channel = <<>>
    /\ storing = [s \in Servers |-> NoEvent]
    /\ history = <<>>
    /\ events = <<>> /\ missed = {}
    /\ scroll = 0 /\ paused = FALSE /\ selected = 0
    /\ overlay = "none" /\ drawn = FALSE

\* Mutant: the newest are dropped.
KeepFirst(s, n) == IF Len(s) > n THEN SubSeq(s, 1, n) ELSE s

\* What is over n is drained from the front.
KeepLast(s, n) == IF Len(s) > n THEN SubSeq(s, Len(s) - n + 1, Len(s)) ELSE s

(***************************************************************************)
(* main.                                                                   *)
(***************************************************************************)
Start(file, level) ==
    /\ phase = "starting"
    /\ \/ Load(file) = {} /\ phase' = "ended" /\ UNCHANGED config
       \/ \E loaded \in Load(file) :
             phase' = "running" /\ config' = Override(loaded, level)
    /\ UNCHANGED <<mode, recorded, channel, storing, history, tuiVars>>

\* Server::new cannot bind its address.
BindFails ==
    /\ phase = "starting"
    /\ phase' = "ended"
    /\ UNCHANGED <<mode, config, recorded, channel, storing, history, tuiVars>>

CtrlC ==
    /\ phase = "running" /\ mode = "cli"
    /\ phase' = "ended"
    /\ UNCHANGED <<mode, config, recorded, channel, storing, history, tuiVars>>

(***************************************************************************)
(* Relay::record_event, in the task of server s.                           *)
(***************************************************************************)
SendRecord(s) ==
    /\ phase = "running"
    /\ storing[s] = NoEvent
    /\ recorded < MaxEvents /\ Len(channel) < Cap
    /\ recorded' = recorded + 1
    /\ channel' = Append(channel, [n |-> recorded + 1, server |-> s])
    /\ storing' = [storing EXCEPT ![s] = [n |-> recorded + 1, server |-> s]]
    /\ UNCHANGED <<phase, mode, config, history, tuiVars>>

StoreRecord(s) ==
    /\ phase = "running"
    /\ storing[s] # NoEvent
    /\ history' = KeepLast(Append(history, storing[s]), config.max_event_history)
    /\ storing' = [storing EXCEPT ![s] = NoEvent]
    /\ UNCHANGED <<phase, mode, config, recorded, channel, tuiVars>>

(***************************************************************************)
(* run_loop: drain the channel, trim, draw; then wait for a key.           *)
(***************************************************************************)
Taken == recorded - Len(channel)

Drain ==
    /\ phase = "running" /\ mode = "tui" /\ ~drawn
    /\ events' = KeepLast(IF paused THEN events ELSE events \o channel,
                          config.max_event_history)
    /\ missed' = IF paused THEN missed \cup (Taken + 1)..recorded ELSE missed
    /\ channel' = <<>>
    /\ drawn' = TRUE
    /\ UNCHANGED <<phase, mode, config, recorded, storing, history,
                   scroll, paused, selected, overlay>>

\* The poll is over: by a key, or by its timeout.
Polled ==
    /\ phase = "running" /\ drawn
    /\ drawn' = FALSE
    /\ UNCHANGED <<mode, config, recorded, channel, storing, history>>

NoKey == Polled /\ UNCHANGED <<phase, events, missed, scroll, paused, selected, overlay>>

(***************************************************************************)
(* handle_key.  An overlay swallows the keys, Ctrl-C among them: help goes *)
(* away at any, settings at Esc and F2.                                    *)
(***************************************************************************)
CloseOverlay ==
    /\ Polled
    /\ overlay # "none"
    /\ overlay' = "none"
    /\ UNCHANGED <<phase, events, missed, scroll, paused, selected>>

OpenOverlay ==
    /\ Polled
    /\ overlay = "none"
    /\ overlay' \in {"help", "settings"}
    /\ UNCHANGED <<phase, events, missed, scroll, paused, selected>>

\* The loop ends, main aborts the server's task and returns.
Quit ==
    /\ Polled
    /\ overlay = "none"
    /\ phase' = "ended"
    /\ UNCHANGED <<events, missed, scroll, paused, selected, overlay>>

Pause ==
    /\ Polled
    /\ overlay = "none"
    /\ paused' = ~paused
    /\ UNCHANGED <<phase, events, missed, scroll, selected, overlay>>

Clear ==
    /\ Polled
    /\ overlay = "none"
    /\ events' = <<>> /\ missed' = 1..Taken
    /\ scroll' = 0
    /\ UNCHANGED <<phase, paused, selected, overlay>>

Select(s) ==
    /\ Polled
    /\ overlay = "none"
    /\ selected' = s
    /\ UNCHANGED <<phase, events, missed, scroll, paused, overlay>>

Least(m, n) == IF m < n THEN m ELSE n

\* Subtraction on usize saturates at 0.
Minus(m, n) == IF n > m THEN 0 ELSE m - n

\* Up, Down, PageUp, PageDown, Home and End.
Scroll ==
    LET top == Minus(Len(events), 1)
    IN  /\ Polled
        /\ overlay = "none"
        /\ \/ scroll < top /\ scroll' = scroll + 1
           \/ scroll' = Minus(scroll, 1)
           \/ scroll' = Least(scroll + Page, top)
           \/ scroll' = Minus(scroll, Page)
           \/ scroll' = top
           \/ scroll' = 0
        /\ UNCHANGED <<phase, events, missed, paused, selected, overlay>>

Next ==
    \/ \E file \in Files, level \in CliLevels : Start(file, level)
    \/ BindFails \/ CtrlC
    \/ \E s \in Servers : SendRecord(s) \/ StoreRecord(s)
    \/ Drain \/ NoKey
    \/ CloseOverlay \/ OpenOverlay \/ Quit \/ Pause \/ Clear \/ Scroll
    \/ \E s \in 0..4 : Select(s)

Spec == Init /\ [][Next]_vars

(***************************************************************************)
(* draw_events_panel: which of the filtered events the panel shows.        *)
(***************************************************************************)
Filtered(e) == selected = 0 \/ e.server = selected

Total == Cardinality({i \in DOMAIN events : Filtered(events[i])})

\* Mutant: the scroll offset is not cut to what is above the window.
StartUncut(total, rows) == IF total > rows THEN total - rows - scroll ELSE 0

StartIdx(total, rows) ==
    IF total > rows THEN total - rows - Least(scroll, Minus(total, rows)) ELSE 0

EndIdx(total, rows) == Least(StartIdx(total, rows) + rows, total)
-----------------------------------------------------------------------------
(***************************************************************************)
(* The relay runs on a configuration within its ranges (but for the level),*)
(* and neither the history nor the list outgrows max_event_history.        *)
(***************************************************************************)
TypeOK ==
    /\ phase \in {"starting", "running", "ended"}
    /\ mode \in {"cli", "tui"}
    /\ config.max_servers \in ServerCounts
    /\ config.connection_timeout_ms \in Timeouts
    /\ config.heartbeat_interval_ms \in Heartbeats
    /\ config.max_event_history \in Nat
    /\ recorded \in 0..MaxEvents
    /\ Len(channel) <= Cap
    /\ Len(history) <= config.max_event_history
    /\ Len(events) <= config.max_event_history
    /\ missed \subseteq 1..Taken
    /\ scroll \in Nat
    /\ selected \in 0..4
    /\ overlay \in {"none", "help", "settings"}
    /\ paused \in BOOLEAN /\ drawn \in BOOLEAN

(***************************************************************************)
(* Whatever was filtered, trimmed or cleared since the offset was last     *)
(* moved, and however the terminal is resized, the window lies within the  *)
(* events and is full if they suffice; it ends with the newest unless      *)
(* scrolled; and Home, which may leave an offset beyond it, shows the      *)
(* oldest.                                                                 *)
(***************************************************************************)
ViewInRange ==
    \A rows \in Rows :
        LET start == StartIdx(Total, rows)
            end == EndIdx(Total, rows)
        IN  /\ 0 <= start /\ start <= end /\ end <= Total
            /\ end - start = Least(rows, Total)
            /\ scroll = 0 => end = Total
            /\ rows > 0 /\ scroll >= Minus(Len(events), 1) => start = 0

(***************************************************************************)
(* The list holds, in the order they were recorded, the newest of the      *)
(* events that were taken in and neither missed by pausing nor cleared: an *)
(* older one is left out only for a full list of newer ones.               *)
(***************************************************************************)
FeedKeepsNewest ==
    /\ \A i, j \in DOMAIN events : i < j => events[i].n < events[j].n
    /\ \A i \in DOMAIN events : events[i].n \in (1..Taken) \ missed
    /\ \A n \in (1..Taken) \ missed :
          \/ \E i \in DOMAIN events : events[i].n = n
          \/ /\ Len(events) = config.max_event_history
             /\ \A i \in DOMAIN events : n < events[i].n
=============================================================================
