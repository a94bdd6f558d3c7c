# tf2-server-relay: TLA+ models, checks and proofs

tf2-server-relay joins several Team Fortress 2 servers into one: a relay
(`src/relay`, Rust and tokio) accepts one TCP connection per game server and
hands every event on to the others; a SourceMod plugin
(`src/sourcemod/scripting/tf2_relay_client.sp`) on each game server sends
events and shows the players of the other servers as ghosts.

This directory holds the models of both sides, the TLC runs that check them
on small instances, and TLAPS proofs of their invariants for every instance.
`PROJECT.json` lists components, runs, mutants, theorems and hazards, and maps
every definition to the lines of code it stands for. Below, `sp` is
`src/sourcemod/scripting/tf2_relay_client.sp`; the `.rs` files are in
`src/relay/src/`.

## 1. Inventory

| Component | State it keeps | Operations | Talks to |
|---|---|---|---|
| Relay hub, tables (`relay.rs`, `server.rs`, first and last part of `connection.rs`) | `servers: RwLock<HashMap<u8, ConnectedServer>>`, `player_map: RwLock<HashMap<u64, u8>>`, shutdown channel; one task per socket | accept, handshake, `register_server`, `unregister_server`, `register_player`, `unregister_player`, shutdown | plugins (TCP), fan-out (same lock) |
| Relay hub, fan-out (`relay.rs`, `connection.rs`) | an outbound queue of 256 packets per connection, an event channel of 1000 records | `broadcast`, `send_to_server`, `record_event`, the select loop, heartbeat check and ACK | every other connection, TUI |
| Framing (`protocol.rs`, `connection.rs`) | `PacketDecoder::buffer` per connection | `push`, `decode`, `wait_for_handshake` | payloads, task life cycle |
| Checksum (`protocol.rs`, `sp`) | `CRC8_TABLE`, `g_CRC8Table` | `crc8`, `InitCRC8Table`, `CalculateCRC8` | framing on both sides |
| Payloads (`events.rs`, `sp`) | none | `parse` and `serialize` of each event; the plugin's `Send…` and `ProcessRemote…` | all |
| Plugin, connection (`sp`) | `g_hSocket`, `g_bConnected`, `g_bHandshakeComplete`, three timers | connect, disconnect, reconnect, heartbeat, sync, map change, admin command | relay, SourceMod |
| Plugin, ghosts (`sp`) | `g_Ghosts[64]`, `g_iGhostCount`, fake clients | create, update, remove, time out | relay (packets), the game (client indexes) |
| Plugin, cross-server healing, damage, uber (`sp`, `connection.rs`) | health of local players | requests and confirmations routed through `player_map` | relay hub |
| Plugin, game event hooks (`sp`) | none | one `Send…` each | payloads |
| Errors (`error.rs`) | none | `is_recoverable` | framing, task life cycle |
| Run modes (`main.rs`), configuration (`config.rs`, `tf2_relay.cfg`) | settings read once | load, validate, override, start, Ctrl-C | all |
| TUI (`tui/`) | list of events, scroll position, pause, filter, overlays | drain the channel, draw, keys | fan-out (lock of `servers`, event channel) |

### What is hard here, and what correct means

* **Tables.** Each socket is a task; the accept check and the first duplicate
  check read `servers` with `try_read` and take a failed attempt for "free";
  registration re-checks under the write lock; unregistration updates
  `servers`, notifies, and then updates `player_map`. Correct means: one task
  to an id, no more than `max_servers` served, routes that lead to registered
  servers, everybody told exactly of those who are there, nobody waiting for
  ever.
* **Fan-out.** Every bounded queue is awaited, most while a lock is held, a
  task that waits does not drain its own queue, and the TUI queues for the same
  lock. Correct means: order and completeness per source, no deadlock,
  departures that complete, records that get through.
* **Framing.** Any cut of the stream into reads, junk, damage, packets behind
  the handshake. Correct means: what is handled is what was sent, in order.
* **Payloads and checksum.** The same layout is written down three times, in
  two languages, and the table twice. Correct means: they agree.
* **Plugin connection.** Single-threaded, but callbacks, timers, commands and
  map changes interleave, and map changes close timers behind the plugin's
  back. Correct means: flags match the socket, timers match the flags, a lost
  connection comes back.
* **Ghosts.** Packets of several servers interleave, some are lost within a
  data callback or read although they are cut, and a slot remembers its fake
  client by an index that the game may hand to somebody else. Correct
  means: one ghost to a player whose packets can be read, no bot left behind,
  no human touched, ghosts of the gone fade.
* **Cross-server requests.** Whom a request names is decided by a hook that
  knows only a client index. Correct means: it names the ghost's player.
* **Configuration and console.** Ranges, and unsigned arithmetic on lists that
  are trimmed, filtered and scrolled between two draws. Correct means: only
  valid settings run, the window lies within the list, the newest are kept.

`PROJECT.json` "hazards" lists each of these at its line.

## 2. Modules

| Module | Stands for |
|---|---|
| `Registry` | tables of servers and players, one task per connection |
| `Directory` | abstract: one atomic directory of servers and routes |
| `RegistryRefinement` | the mapping from `Registry` to `Directory` |
| `RegistryProofs` | theorems about `Registry`: entries, capacity, notices, routes and the refinement |
| `Fanout` | broadcast, targeted requests, queues, lock, event channel, heartbeat ACKs |
| `FanoutProofs`, `DeliveryProofs` | theorems about `Fanout`: its lock, queues and standstill; order and completeness |
| `Crc8` | both checksum implementations, tables included, as recursive functions |
| `Frames` | the frame of a packet on both sides, and one call of `decode` |
| `Decoder` | the decode loops over a stream that comes in pieces |
| `WholeStream` | abstract: the same stream decoded in one piece |
| `DecoderProofs` | theorems about `Crc8`, `Frames` and `Decoder`, the refinement of `WholeStream` among them |
| `Wire`, `WireProofs` | layouts of 35 events as sender, relay and receiver have them, and how each writes and reads by them; theorems about them |
| `PluginClient`, `PluginClientProofs` | the plugin's connection and timers, and theorems about them |
| `Ghosts`, `GhostsProofs` | the plugin's ghost table, and theorems about it |
| `CrossServer` | `Ghosts` with the requests to heal, hurt and uber a ghost |
| `Config` | settings: defaults, ranges, load, override, as operators |
| `Console`, `ConsoleProofs` | run modes, recording, the TUI's loop, keys and window, over `Config`; theorems about them |
| `MCRegistry`, `MCFanout`, `MCDecoder`, `MCConsole` | instances for TLC |

The modules meet at named places. `Registry` treats a packet as what it does
to the tables and assumes that a peer's queue has room; `Fanout` is about
queues and lock, with the tables reduced to who is registered, and takes for
the target of a request any server: which one it is, is `Registry`'s matter.
`Console` has the other end of the event channel that `Fanout` fills, and
leaves out the lock. `Decoder` knows of a payload only how its parsing ends,
and `Wire` is about the payload alone. `PluginClient` and `Ghosts` are the two
halves of the plugin's state; the relay is external to them. `CrossServer`
adds to `Ghosts` what the hooks send about a ghost. The plugin modules assume
that packets get through as they were sent, but for those a data callback
loses or reads although they are cut. Runs `decoder_magic` and `wire_layouts` show where today's code does not
deliver that: as it is, a plugin and the relay do not get past the first two
bytes, and `PLAYER_SYNC` and `GHOST_SPAWN` would not survive the relay's
layouts. The two plugin modules describe the plugin's own logic once those
are in agreement.

### Registry

`pc[c]` is how far the task of connection `c` is. `Accept` is the loop of
`Server::run`; `AcceptHandshake`, `RejectHandshake` and `HandshakeTimeout` are
`handle_handshake`; `RegisterDuplicate`, `RegisterLock`, `NotifyPeer` and
`RegisterInsert` are `register_server`; `UnregisterLock`, `NotifyPeer` and
`UnregisterPlayers` are `unregister_server`. The steps are the awaits:
everything between two awaits is one action. `TryRead` gives what `try_read`
may return: false under a writer, either while one is queued. `ErrorExit` is every
return from inside the loop, which skips `unregister_server`; `PeerCloses` and
`ShutdownSeen` are the breaks, which do not. `hdr[c]` is the server id in a
plugin's packet headers: the relay writes routes under that id
(`connection.rs:369`), the plugin re-reads it at each map start (`sp:270`),
and `Rename` is that. `told` and `via` are history variables. `Shutdown` is the
signal that `main` sends in CLI mode, right before it returns; whatever tasks
still do then they may do, and none of it is promised.

### Fanout

`task[c]` is the await the task of `c` is at. `lockq`, `readers`, `writer`
are tokio's RwLock, which serves in order. `Receive` takes a packet from the
socket, for all others or for one, and queues for the read lock; `GrantRead`
gets it, `SendNext` is one `send().await`, `EndBroadcast` and `Record` finish
the packet. `ReceiveMuted` is a packet that the settings switch off, which
takes the lock all the same; `ReceiveOwn` one that stays here;
`ReceiveHeartbeat` and `AckDone` an ACK, written past the queue. `Join`,
`Leave`, `GrantWrite`, `Joined`, `Left` are registration and departure under
the write lock with their notification loops, which use `SendNext` as well.
`WriteStart` and `WriteDone` are `write_all` in the select loop: it ends when
the plugin reads. `TuiAsk` and `TuiTurn` are a turn of the TUI: it waits for
the lock of `servers` like any task, then empties the channel; in CLI mode
nobody takes the receiver. `plan[c]` is a history variable: what was taken in
from `c`, and for whom. A broadcast goes to all whose id is not the one in the
packet's header; `Fanout` takes that for the sender's, `Registry` has the
plugins that change it (see section 5).

### Decoder, Crc8, Wire

`Decoder` cuts a stream into reads of up to `MaxRead` bytes in every way.
`Decode` (in `Frames`) is `PacketDecoder::decode` branch by branch; `turn` is
whether the `while let` loop is running; `DecodeError` is `decode()?`. `Frame`
is what the relay serialises, `PluginFrame` what the plugin builds, each with
the checksum that `Crc8` has of its side. `SidesAgree` compares the two on what
is in flight. A stream says which packets in it are to be handled;
`WellSent` is what makes it right about them, and TLC checks it of every stream
of the run (`SentAssumption`). `WholeStream` has no buffer, no reads and no
turns: it looks at all that is left of the stream.

`Wire` has every layout as a sequence of fields, taken from the code of each
reader on its own. `Written` puts the items of the fields one behind the other,
`Ends` is where a reader takes each field to end, which depends on the lengths
it finds in front of the texts, and `Content` what it reads there. `Refused` is
the relay's verdict on a field: it counts what remains where its code does
(`need`), refuses a text that is cut off or is no UTF-8, and otherwise panics
if a number is cut off. The plugin reads on into the old contents of its buffer
instead. `Number` writes a number of which no two bytes are alike, so that an
order of bytes or an offset that is not the sender's shows; `SteamId` has the
upper half that all Steam ids share, or is eight zeros for an empty one
(`sp:937`). `Agrees` and `Differs` compare the three tables, and
`LayoutsAssumption` says of each event of an instance which of the two it is:
TLC evaluates it, the proofs use nothing else of the tables.

### PluginClient, Ghosts, CrossServer

All code of the plugin runs on the game's main thread, so each callback,
timer or command is one action. `sync` and `reconnect` are what the handle
variables hold, `syncs` and `beats` how many timers run: a map change separates
the two. `DisconnectRaises` is `delete` of a stale handle, which aborts the
callback (SourceMod, external). `link` and `relay` are the sockets and the
relay's answers (external). In `Ghosts` the other servers send through `wire`,
one FIFO for each. `ProcessIncomingData` is a data callback that begins with a
packet: the others in it are lost (`Arrive`), and the packet itself need not
be all there, since ten bytes are enough (`sp:1959`) and the readers ignore how
many came (`sp:2062, 2149`). The header is then the packet's own, but its end is
what the buffer happens to hold, and so `ReadAs` lets a sync or spawn be read
with any Steam id, another player's or one of nobody (`Garbled`), which starts a
ghost or feeds one. `LoseData` is a callback that starts within a packet, the
rest of a cut one for instance, and is dropped whole; left out is only a rest
that happens to begin with the two bytes of the magic. `of` in a slot and
`misread` are history: whose packet filled the slot, and of whom a packet was
read with a Steam id not its own. `clients` is the game's table of client
indexes (external). `CrossServer` extends it with `requests` on their
way: what for, about whose ghost, and whom they name.

### Config, Console

`Start` is `main` up to the choice of mode: `Load` is `load` with `validate`,
`Override` the log level of the command line. `SendRecord` and `StoreRecord`
are the two halves of `record_event`, between which another task may come.
`Drain` is the top of `run_loop`: drain, trim, draw. The keys are one action
each, and an open overlay takes any of them. `StartIdx` and `EndIdx` are the
window of `draw_events_panel`, with saturating subtraction where the code has
it; `missed` is a history variable: what was drained during a pause or cleared.

## 3. Runs

| Run | Distinct states | Bounds | Shows |
|---|---|---|---|
| `registry_tables` | 151,888 | 3 sockets, 1 player, ids 1..3, `max_servers` 2, `Renames` {2} | types, own entry, routes, notices, capacity, purge, refinement of `Directory`; handshakes are decided |
| `registry_zombie` | violation | 3 sockets, 1 player | an error exit leaves its entry behind |
| `fanout_order` | 1,225,250 | 3 connections (1 late; 1 may stall, fail, leave), 2 events for each of 2 sources, one of which sends to single servers and muted packets and the other heartbeats, queues of 1, CLI mode with 3 records | order, completeness, and what a standstill is due to |
| `fanout_live` | 14,578 | 3 connections, 1 event for each of 2 sources, queues of 3, TUI, 1 record | events arrive, departures end, records flow |
| `fanout_mutual` | violation | 2 connections, queues of 1, 2 events each | two full queues wait for each other |
| `decoder_streams` | 23,095 | 519 streams, reads of 1 to 9 bytes | order, handshake seen, everything handled, checksums agree, refinement of `WholeStream` |
| `decoder_magic` | violation | one stream as the plugin sends it | magic bytes in the other order |
| `client` | 36,942 | 3 handles, 5 sets of disturbances, at most 3 heartbeat timers | flags, timers, reconnecting |
| `ghosts` | 533,016 | 2 players on 1 server or 1 player and 2 servers (`Casts`), 1 Steam id of nobody, 1 or 2 slots, 1 client index, 1 packet under way for each server | one ghost each, no stray bots, humans spared, ghosts fade, whatever is lost or cut |
| `ghosts_heal` | violation | 1 player, 1 server, 1 client index | a request to heal a ghost names nobody |
| `wire_layouts` | 7,295 | 35 events, strings of 6 lengths, 4 fills | which layouts agree, and that no read runs past the end |
| `console` | 890,302 | 13 files, 2 recording servers, channel of 2, panels of 0 to 2 rows, 4 events | valid settings, bounded lists, window in range, newest kept |

Why the bounds are enough:

* Registry: two sockets race for an id, and a third is the peer that is told
  or the successor that takes the id; with `max_servers` 2 three sockets fill
  the relay; id 3 is beyond the valid range, and 2 is one that a plugin may
  rename itself to. The theorems cover every other size.
* Fanout: the mutual wait needs two tasks, a third is the bystander, the late
  joiner or the one that leaves. Queues of one are full after one packet. In
  `fanout_live` no outbound queue can fill (two packets at most are ever bound
  for one connection), which is the condition its properties need:
  `fanout_mutual` is the same specification without it. The event channel does
  fill there, with one record.
* Decoder: frames of 6 to 9 bytes, so that a read may hold less than a header,
  part of a frame, one and a half frames. Payloads include one that looks like
  the start of a frame, every byte, and every error in one byte: all 256
  places of the table are used.
* PluginClient: three handles are one more than can be in use by a race of two
  connects. The sets of disturbances let a property say which ones it stands.
* Ghosts: one slot for two players is a full table, two are room for a double;
  with one client index a ghost may find no body, and a human can take the
  index of a kicked bot. A packet that is cut needs another player's Steam id or
  one of nobody to be read with, and a player that moves needs two servers; the
  run looks at the two casts apart, `Casts`, because two players, two servers and
  cut packets together are too many states. The theorems are about any casts.
* Wire: string lengths from empty to longer than what the relay asks for next,
  so that missing bytes are sometimes made up for and sometimes not; the four
  fills make numbers that overflow a byte, the empty Steam id, bytes that are
  text and bytes that are not. The theorems cover
  texts of up to 255 bytes and all numbers.
* Console: files at both ends of each range and one past each; a history of
  none, of two and of the default; a channel that fills; a panel without rows,
  smaller than the list and as large; pages of two.

Deadlock is checked for `ghosts` and `wire_layouts`. It is switched off for the
others, which really may stop: a finite set of sockets all end, a finite number
of events has been delivered, a stream has been read, a relay has been quit, a
plugin that the relay rejected waits for an admin. In `Fanout` the invariant
`Standstill` takes its place: when tasks or the TUI wait and none can go on,
somebody sends to a full queue whose owner waits for the lock, for room of its
own, or for a plugin that reads no more, or nobody empties a full event channel.
The lock by itself never is the reason. `CanGo` spells out the guards of the
actions of a task instead of using ENABLED, so that the property can be proved.

Each property of a passing run has a mutant in its module, a plausible bug
that TLC must find: the definitions marked "Mutant" are used by nothing else.

### Fairness, and what justifies it

* A task that can go on is polled by tokio, as long as the process is not asked
  to stop: in CLI mode `main` returns right after the signal, and quitting the TUI
  aborts the tasks, so that in `Registry` all fairness ends with `shutdown`, and
  `HandshakeDecided` promises nothing from there on. Waiting for a lock or a channel
  permit gets strong fairness, because both serve their waiters in order.
  Branches of `select!` get strong fairness because it picks among the ready
  ones at random.
* The handshake timer (`Registry`, `Decoder`), the heartbeat interval, the
  TUI's loop, frames of the game, timers of SourceMod: weak fairness. Weak
  fairness is enough for the TUI although it waits for the lock: its place in
  the queue of the lock is kept, and what is before it has strong fairness.
* Plugins, players, admins and the network owe nothing: no fairness for
  handshakes, packets, closing, stalling, map changes. The exceptions are
  named: `Decoder` lets bytes that were sent arrive, and `Recovers` in
  `PluginClient` assumes that the relay comes back often enough for an attempt
  to succeed.

## 4. Theorems

Each is about a specification with any values of its constants. The
assumptions are the `ASSUME`s of the modules, which TLC evaluates in the runs:
sizes are natural numbers, "none" values are none of what they stand for,
`Conns` of `Fanout` is finite, the ids of `Console` are the relay's.
`LayoutsAssumption` of `Wire` is about the tables of layouts alone, not about
values or bytes, and run `wire_layouts` evaluates it for all 35 events.
Two theorems have a hypothesis of their own, `WellSentStreams`, which TLC
evaluates for the streams of its run as `SentAssumption`.

| Theorem | Says |
|---|---|
| `RegistryProofs!TypeCorrect` | `Spec => []TypeOK` |
| `RegistryProofs!EntryIsOwn` | a task that serves an id is the one registered under it |
| `RegistryProofs!CapacityRespected` | never more than `max_servers` connections are served |
| `RegistryProofs!RoutesLead` | a route made under the maker's own id leads to a registered server, whatever other plugins call themselves |
| `RegistryProofs!PurgeIsOwn` | a leaving server takes no route that a serving connection made |
| `RegistryProofs!RelayImplementsDirectory` | `Spec => Dir!DirSpec` |
| `RegistryProofs!ExactlyOneTold` | of two serving connections exactly one was told of the other |
| `RegistryProofs!NoPhantoms` | nobody believes in a peer that has been unregistered |
| `FanoutProofs!TypeCorrect` | tasks hold the lock exactly in their critical sections, queues stay within their capacities |
| `FanoutProofs!StandsStillForRoom` | `Spec => []Standstill`: only want of room stops the relay, never the lock |
| `DeliveryProofs!EventsInOrder` | `Spec => []InOrder`: per source in order, once, without gaps |
| `DeliveryProofs!NobodyLeftBehind` | `Spec => []CaughtUp`: whoever was there all along was sent everything meant for it |
| `DecoderProofs!DecodeFindsFrames` | `decode` returns a packet exactly when a frame of `Packet::serialize` is at the front, and returns that frame's type and payload |
| `DecoderProofs!PluginFramesAreSkipped` | no frame of the plugin is a packet to the relay, whatever it carries |
| `DecoderProofs!TypeCorrect` | the buffer is the slice of the stream that was read and not consumed |
| `DecoderProofs!ReadsAreWhole` | `Spec => ReadsAsWhole`: `Decoder` implements `WholeStream` |
| `DecoderProofs!PacketsInOrder` | if every stream is `WellSent`, `Spec => []HandledInOrder` |
| `DecoderProofs!HandshakeIsSeen` | if every stream is `WellSent`, `Spec => []HandshakeSeen` |
| `DecoderProofs!ChecksumsAgree` | `crc8(bytes) = CalculateCRC8(bytes)` for every sequence of bytes |
| `DecoderProofs!SidesAlwaysAgree` | `Spec => []SidesAgree` |
| `WireProofs!TypeCorrect` | `Spec => []TypeOK`: above all, nothing a plugin sends makes the relay read past its end |
| `WireProofs!AgreedUnderstood` | `Spec => []Understood`: the values that were sent are what the relay reads exactly if the layouts agree |
| `WireProofs!ValuesArrive` | `Spec => []Arrives`: through the relay's second serialisation each field arrives as it was sent |
| `PluginClientProofs!TypeCorrect` (the handle is that of a socket in use), `SessionIsSound`, `HeartbeatIsRunning`, `LossIsRetried`, `NoSocketIsOrphaned` | the five invariants of run `client`, for any number of handles and disturbances |
| `GhostsProofs!TypeCorrect`, `GhostIsOne`, `BotIsGhost`, `HumansAreSpared` | the four invariants of run `ghosts`, for any number of players, Steam ids of nobody, servers, slots and indexes |
| `ConsoleProofs!TypeCorrect`, `WindowInRange`, `NewestAreKept` | the three invariants of run `console`, for any files, capacities, heights and number of events |

The arguments.

**Registry.** `OwnEntry` is not inductive: an unregistering task removes
whatever stands under its id, and an inserting task overwrites it. `EntryInv`
adds what makes both safe: tasks past the handshake have a valid id
(`HasId`), the write lock belongs to the one task in a critical section
(`LockHeld`), that task's id is free (`HolderHasNoEntry`, which is what the
second duplicate check under the lock buys), and an entry belongs to a task
that has not unregistered (`EntryOfOwner`). Capacity follows: serving tasks
own different entries, and entries have ids 1 to `max_servers`. So it is
the range check of the id, and not the accept check, that enforces it.

`RouteInv` adds to it that a route was made by a task that got into its loop
(`MadeBy`), whose id is therefore settled. `PlayersRouted` has an exception for
the one task between its two tables, and that exception closes before the lock
does. The refinement maps `owner` to `servers` and `route` to the routes that
can be followed; `UnregisterLock` is `Release`, `RegisterInsert` is `Claim`,
and `UnregisterPlayers` a stutter.

`NoticeInv` says how far the holder of the lock is: peers not yet notified are
entries (`PeersAreEntries`), a newcomer knows nobody (`Fresh`), everybody else
has heard of it (`Announced`) or of its departure (`Retracted`).

**Fanout.** `Locks` ties the lock to the tasks in their critical sections;
so nobody registers or leaves while one reads, and the peers a broadcast has
yet to send to stay registered (`Placed`), each listed once (`TodoInv`), and
the event sent is the latest taken in (`AtLatest`). For a source `c` and a
receiver `d`, `Done(c, d)` is the number of events of `c` whose sending to `d`
is over. `Delivered` says that nothing later was sent to `d` (`Bounded`), that
what was sent is in order and without gaps (`Fit`), that of what was meant for
`d` nothing up to `Done` is missing as long as `d` can receive (`Full`), and
that a connection yet to register was sent nothing (`Silent`). A send makes
`Done` and the queue grow together; a read lock granted makes `Done` grow for
those who are not registered, and they either receive nothing any more or
have yet to be sent their first; a task that ends takes away a suffix.

`Standstill` needs two facts about the lock. Whoever is in a state that waits
for the lock has a place in its queue, once, and nobody else has (`LockLine`);
the lock is held only by a task that is sending, announcing or leaving
(`Locks`, `Holder`). So if it is held, its holder sends; if it is free, the
first in line can have it; whoever cannot go on is traced to a queue that is
full, and what keeps the owner of that queue from its select loop is read off
its state.

**Decoder.** What `decode` makes of a buffer depends on no byte behind the frame
at its front (`DecodeLocal`); and a buffer is the slice of the stream between
what was consumed and what was read (`Slice`). So each step of a turn does
with the buffer what `WholeStream` does with all that is left, and a read, a
tick or a `None` for want of bytes is a stutter; that is the refinement. For
`PacketsInOrder` the induction is over the places where a frame can begin
(`Kept`): the number of packets handled is the number the stream says were
sent up to there. It needs a stream to begin with a handshake and to hold no
magic between its frames (`WellSent`); what is in the payloads does not matter,
a payload that looks like a frame included. For `HandshakeIsSeen`, an unseen
handshake between two turns means that bytes are still to come (`Waits`). None of
this uses what the checksum computes: it is good for refusing damage, which the
damaged streams of the run are about.

**Checksum.** That the two sides compute one checksum is an induction over the
bytes, once the tables agree. In either table the entry at `2b` is the entry at
`b` after one more round, and the one at `2b + 1` is that with the polynomial
added. Of the table that eight rounds compute this is algebra: a flipped place
moves up with each round and leaves at the top as the polynomial (`FlipMoves`,
`RoundsDouble`). Of the literal table it is read off place by place
(`LiteralDoubles`). Both have 0 at 0, so they agree (`TablesAgree`). The
plugin's cells are wider than a byte while it computes; `ShiftOfByte` shows that
the byte they are cut to in the end does not depend on the rest.

**Wire.** A layout writes the items of its fields one behind the other
(`WrittenSteps`, `ItemsInPlace`). A reader whose layout is alike, longer or not,
finds each field where its item begins, although that depends on the lengths it
reads on the way (`EndsAreWritten`), and so its value (`ReadsValues`). From
there, three things. If the layouts agree, no field is refused: how far the
rest of the packet reaches is at the least how far it would with empty texts
(`GapsGrow`), and the needs ask for no more (`AgreedReads`). If they do not, what
is read without an error are values of the relay's fields (`ParsedFits`), which
are another number of fields or numbers of another size than were sent
(`OthersDiffer`). And a number is never cut off: a need in front of it, with no
text between, covers it (`GuardedReads`); `PLAYER_HURT` is the one event where it
does not (the relay counts 23 bytes and then reads 25, `events.rs:1113`), but the
20 bytes that the plugin sends are refused at once (`ShortIsMalformed`). `Inv`
says at each stage what is on the wire and what was made of it.

**PluginClient.** The relay is asked by no socket but the one `g_hSocket`
holds (`OnlyOneAsks`), because the handle is overwritten only while the plugin
is not connected and a socket is silent until then; so an answer finds no
complete handshake and no sync timer (`AnsweredOnce`). Without map changes and
commands there is one socket at most (`Undisturbed`).

**Ghosts.** A slot is filled only under a Steam id that no slot has, whatever
packet spelled it (`Unique`), and for a player of whom no packet was misread that
id is its own (`Owned`); so such a player has one ghost at most (`AtMostOne`).
While nobody else kicks a fake client, the indexes that slots remember are
exactly the bots, each remembered once (`Bodies`), so whoever is kicked or
moved for a slot is a bot. Losing or cutting packets changes nothing of this: no
step relies on what another packet brought.

**Console.** The channel holds consecutive numbers after those taken in
(`ChannelInv`), so the list stays in order, and trimming an ordered list from
the front drops only what is older than all that stays (`KeepLastProperties`).
The window is arithmetic on the number of filtered events.

Only model-checked:

* All liveness: `HandshakeDecided`, `EventsDelivered`, `LeavingEnds`, `RecordsFlow`, `AllHandled`, `Recovers`, `GhostsFade`.
* That the streams of run `decoder_streams` are `WellSent` (`SentAssumption`),
  and that each event's layouts agree or differ (`LayoutsAssumption`): facts
  about tables and streams that are finite, and evaluated in full.

Liveness and ENABLED are out of the provers' reach. So are the library's
induction theorems, which take the property as an operator; where a proof needs
induction (the checksum over the bytes, the fields of a layout), the property is
a set of numbers, and `NatSetInduction`, from the well-foundedness of `<`, says
that it is all of `Nat` if it has 0 and with each number the next. What is
computed step by step is a recursive function, not a RECURSIVE operator, so that
it is a `CHOOSE` that the proofs can open.

## 5. Where code and expectation part

With a run that shows it:

* `registry_zombie`: an error inside the loop (`connection.rs:177, 187, 196,
  210, 225`) returns before `unregister_server` (line 232). The id stays taken
  for good, peers are not told, routes stay.
* `fanout_mutual`: `broadcast` waits for room in the other's queue
  (`relay.rs:222`) while its own is not drained. Two such tasks stop, and with
  them everybody who needs the lock.
* `decoder_magic`: `PROTOCOL.md:19` and the plugin put 0x54 first; the relay
  reads and writes 0x46 first (`protocol.rs:79, 113`).

* `ghosts_heal`: the hooks of healing and damage ask the game for the Steam id
  of the ghost's fake client (`sp:2523`), and a bot has none; the request names
  nobody, so no server finds the player. `SendUberShare` (`sp:3240`) takes the
  id from the ghost table and does not have this.

`wire_layouts` passes, with the 13 events the two sides disagree on told apart
in the constant `Agreed`. Those are:

* dropped as malformed, the relay expecting more bytes: `PLAYER_HEALED`,
  `PLAYER_HURT`, `PLAYER_INVULNED`, `PROJECTILE_DEFLECTED`,
  `PLAYER_EXTINGUISHED`, `HEAL_REQUEST`, `HEAL_CONFIRM`, `DAMAGE_CONFIRM`;
* read as something else: `SENTRY_ATTACK` (field order), `GHOST_SPAWN` (0x71
  is `PLAYER_POSITION` to the relay), `PLAYER_SYNC` (a number is taken for the
  length of a string, and what follows may not be text, which ends the connection);
* cut or altered when the relay serialises them again: `DAMAGE_REQUEST`,
  `UBER_SHARE`.

Seen while modelling, described here and covered by no property:

* The relay's `PLAYER_HURT` asks for 23 bytes and reads 25 (`events.rs:1113`): a
  packet of 23 or 24 bytes would panic its task. This repository's plugin sends 20.
* Two handshakes for one id can both get a success ACK before either registers;
  one of the two is then dropped (`connection.rs:287`, `relay.rs:101`).
* `PLAYER_CONNECT` and `PLAYER_DISCONNECT` write routes under the id in the
  packet header. With a changed `sm_relay_server_id` routes lead nowhere and are
  never purged. A broadcast leaves out the server with that id as well
  (`relay.rs:221`), not the connection it came from: after such a change the server
  that has the new id misses every event, and the sender gets its own back (the
  plugin ignores it, `sp:1972`, since it carries its new id). And a late `PLAYER_DISCONNECT` from the old server removes the
  route the new one made.
* In CLI mode nobody reads the event channel (`main.rs:97`); after 1000 records
  `record_event` (`relay.rs:294`) blocks every task that handles a packet.
* A peer that reads no more blocks `write_all`, and with it the heartbeat check
  in the same select (`connection.rs:186`): it is never dropped.
* A checksum mismatch is listed as recoverable (`error.rs:105`), but
  `decode()?` (`connection.rs:210`) ends the connection.
* After a wrong magic byte `decode` skips it and returns `None`
  (`protocol.rs:326`), which ends the turn: a handshake behind junk may never
  be seen, since only reads make turns before it.
* The last assertion of `test_crc8` (`protocol.rs:375`) expects 0x6E; the table
  gives 0x8D.
* Plugin: after a map change no heartbeat timer runs; after a quick reconnect
  two do (`sp:1985`). A stale `g_hSyncTimer` makes `Disconnect` raise, and the
  reconnect is not scheduled (`sp:817`). A rejected handshake is not retried
  (`sp:1991`). A second `ConnectToRelay` leaves the first socket without a
  handle (`sp:792`). `HeartbeatRuns`, `LostIsRetried` and `NoOrphan` name
  these as their exceptions.
* Ghosts: `PLAYER_DISCONNECT` looks under an id no ghost has (`sp:2309`);
  `SERVER_DISCONNECT` carries id 0 (`relay.rs:150`), so it removes no ghosts;
  a slot may kick a human who got the index of a kicked bot (`sp:646`); with
  ghosts switched off nothing times out (`sp:317`).
* A data callback that brings several packets, or starts within one: only a
  packet at its beginning is looked at (`sp:1957`), the others are lost. `Ghosts`
  models the loss and its properties survive it; the lost events do not.
* A data callback that ends within its first packet: if it has ten bytes the
  packet is handled (`sp:1959`), and what is missing is read out of what the
  buffer held before. A position or class that is wrong is put right by the next
  sync; a Steam id that is wrong makes a second ghost of the player, a ghost of
  nobody, or moves the ghost of somebody else. `OneGhostEach` and `GhostsFade`
  name it as their exception and say what remains: no two ghosts of one Steam id,
  and the stray ones go when their time is over.
* The order of `get_event_history` need not be the order in which the TUI
  gets the events: `record_event` sends under no lock and stores under another
  (`relay.rs:294-303`).
* `validate` looks at each setting alone (`config.rs:232`): a heartbeat interval
  longer than the connection timeout passes, and drops every connection.
  `max_event_history` and the ghost settings have no range, and the log level
  of the command line replaces the validated one unvalidated (`main.rs:61`).
* On Ctrl-C `main` returns right after `shutdown()` (`main.rs:109`), and the
  runtime drops every task; quitting the TUI aborts the server without a signal
  (`main.rs:129`). A task in `write_all`, `broadcast` or a full event channel would
  not poll its `select!` for the signal either. So no peer is promised a notice of
  a shutdown, and no property here says that it drains.

## 6. Not modelled

* TOML parsing and `save`, which nothing calls; argument parsing, logging.
* TUI focus, layout, text, colours; statistics, `description()` texts.
* Ghost position, interpolation, animation, model; fake client set-up.
* Health, damage numbers, conditions and confirmations of cross-server requests:
  as `ghosts_heal` shows no request to heal or hurt reaches them today.
* `route_to_player` (`relay.rs:255`) and other functions nothing calls; events
  that only the relay could send.
* Plugin unload and `sm_relay_enabled 0`.
* Source events of the game: when a hook fires is the game's business.

## 7. Plan

Done: `Registry` with its abstraction and proofs; `Fanout` with its proofs;
`Decoder` over `Frames` and `Crc8` with its abstraction and proofs; `Wire`,
`PluginClient` and `Ghosts` with their proofs;
`CrossServer`; `Config` and `Console` with their proofs.

What could still be added, in this order:

1. An abstract specification of `Fanout` (one ordered log for each pair of
   connections) and the refinement, from `Delivered`.
2. The decimal arithmetic of `WriteU64` and `ReadU64ToString` against 64-bit
   numbers, in 32-bit cells.
3. A composition of relay and plugins over one connection, with drops.
4. Health and confirmations in `CrossServer`, once requests name somebody.
