------------------------------ MODULE MCConsole ------------------------------
(***************************************************************************)
(* Configuration files for the console: at the ends of the ranges, and one *)
(* step past each of them.                                                 *)
(***************************************************************************)
EXTENDS Console

Lowest ==
    [Default EXCEPT !.max_servers = 1, !.connection_timeout_ms = 1000,
                    !.heartbeat_interval_ms = 100, !.position_sync_rate_hz = 5,
                    !.max_event_history = 0]
Highest ==
    [Default EXCEPT !.connection_timeout_ms = 30000, !.heartbeat_interval_ms = 5000,
                    !.position_sync_rate_hz = 60, !.max_event_history = 2]

OutOfRange ==
    {[Lowest EXCEPT !.max_servers = 0], [Highest EXCEPT !.max_servers = 5],
     [Lowest EXCEPT !.connection_timeout_ms = 999], [Highest EXCEPT !.connection_timeout_ms = 30001],
     [Lowest EXCEPT !.heartbeat_interval_ms = 99], [Highest EXCEPT !.heartbeat_interval_ms = 5001],
     [Lowest EXCEPT !.position_sync_rate_hz = 4], [Highest EXCEPT !.position_sync_rate_hz = 61],
     [Lowest EXCEPT !.level = "loud"], [Highest EXCEPT !.color_scheme = "neon"]}

SomeFiles == {NoFile, Lowest, Highest} \cup OutOfRange
=============================================================================
