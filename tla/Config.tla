------------------------------- MODULE Config -------------------------------
(***************************************************************************)
(* What config.rs makes of settings.toml, and main.rs of that and the      *)
(* command line.  Only the settings with a range, and the one that bounds  *)
(* what is kept of the events, are looked at.                              *)
(***************************************************************************)
EXTENDS Integers

CONSTANT NoFile  \* there is no configuration file

Levels == {"trace", "debug", "info", "warn", "error"}
Schemes == {"default", "dark", "light", "high_contrast"}

\* The ranges of validate.
ServerCounts == 1..4
Timeouts == 1000..30000
Heartbeats == 100..5000
SyncRates == 5..60

Default ==
    [max_servers |-> 4, connection_timeout_ms |-> 5000, heartbeat_interval_ms |-> 1000,
     position_sync_rate_hz |-> 20, level |-> "info", color_scheme |-> "default",
     max_event_history |-> 1000]

\* Mutant: a relay for no server at all passes.
ValidBelow(config) ==
    /\ config.max_servers \in 0..4
    /\ config.connection_timeout_ms \in Timeouts
    /\ config.heartbeat_interval_ms \in Heartbeats
    /\ config.position_sync_rate_hz \in SyncRates
    /\ config.level \in Levels
    /\ config.color_scheme \in Schemes

\* The ranges are looked at one by one: a heartbeat interval longer than the
\* timeout passes, and so does a history of no events.
Valid(config) ==
    /\ config.max_servers \in ServerCounts
    /\ config.connection_timeout_ms \in Timeouts
    /\ config.heartbeat_interval_ms \in Heartbeats
    /\ config.position_sync_rate_hz \in SyncRates
    /\ config.level \in Levels
    /\ config.color_scheme \in Schemes

\* What load returns for a file that parses: nothing for one out of range.
Load(file) ==
    IF file = NoFile THEN {Default} ELSE {config \in {file} : Valid(config)}

\* The level of the command line, "info" unless it is given, replaces the one
\* of the file and is not validated.
Override(config, level) == [config EXCEPT !.level = level]
=============================================================================
