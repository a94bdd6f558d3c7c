-------------------------------- MODULE Wire --------------------------------
(***************************************************************************)
(* What a payload means to its three readers: the plugin that writes it    *)
(* field by field, the relay that parses it into an event and serialises   *)
(* the event again, and the plugin that reads it on another server.  The   *)
(* layout of an event is written down three times, once per reader, in two *)
(* languages; here each is a sequence of fields, translated on its own.    *)
(*                                                                         *)
(* The frame around the payload is the subject of Decoder and Crc8.        *)
(***************************************************************************)
EXTENDS Integers, Sequences, TLC

CONSTANTS
    Events,    \* the events that plugins send in this instance
    Agreed,    \* those whose layout the sender and the relay agree on
    Lengths,   \* lengths of the strings in them
    Fills      \* the bytes of their numbers, before the field's place is added

ASSUME BytesAssumption == Lengths \subseteq 0..255 /\ Fills \subseteq Nat

VARIABLES
    stage,    \* how far the packet is
    event,    \* its type
    values,   \* the values the sender put into it, as bytes
    payload,  \* the bytes on the wire
    parsed,   \* what the relay made of them
    read      \* what the receiving plugin made of them

vars == <<stage, event, values, payload, parsed, read>>

(***************************************************************************)
(* Fields.  A need is a check of the bytes that remain, before the field.  *)
(***************************************************************************)
Byte == 0..255

Field ==
    [kind : {"num"}, size : Nat, need : Nat] \cup [kind : {"bool"}, size : {1}, need : Nat]
        \cup [kind : {"str"}, size : {0}, need : Nat]

Plain(kind, size) == [kind |-> kind, size |-> size, need |-> 0]
U8 == Plain("num", 1)
U16 == Plain("num", 2)
U32 == Plain("num", 4)
U64 == Plain("num", 8)     \* a Steam id, always
F32 == Plain("num", 4)
Bool == Plain("bool", 1)
Str == Plain("str", 0)
Need(n, field) == [field EXCEPT !.need = n]

(***************************************************************************)
(* The relay's layouts: the parse functions of events.rs.                  *)
(***************************************************************************)
RelaySystem == [
    HANDSHAKE |-> <<Need(3, U8), Str, Str, U8, U8>>,
    HEARTBEAT |-> <<Need(5, U32), U8>>]

RelayChat == [
    CHAT_MESSAGE |-> <<Str, Need(10, U64), U8, U8, Str>>,
    ADMIN_MESSAGE |-> <<Str, Str, Need(4, U32)>>]

RelayPlayer == [
    PLAYER_DEATH |-> <<Str, Need(10, U64), U8, U8, Str, Need(10, U64), U8, U8, Str,
                       Need(3, U8), U16>>,
    PLAYER_CONNECT |-> <<Str, Need(12, U64), U32>>]

RelayTeam == [
    PLAYER_DISCONNECT |-> <<Str, Need(8, U64), Str>>,
    PLAYER_TEAM_CHANGE |-> <<Str, Need(10, U64), U8, U8>>,
    PLAYER_CLASS_CHANGE |-> <<Str, Need(9, U64), U8>>]

RelayCombat == [
    PLAYER_HEALED |-> <<Need(19, U64), U64, U16, U8>>,
    PLAYER_HURT |-> <<Need(23, U64), U64, U16, U16, U16, U8, U8, U8>>,
    UBER_DEPLOYED |-> <<Need(17, U64), U64, U8>>]

RelayBuilding == [
    BUILDING_BUILT |-> <<Need(24, U64), U8, U16, U8, F32, F32, F32>>,
    BUILDING_DESTROYED |-> <<Need(19, U64), U64, U8, U16, Str, Need(1, Bool)>>,
    BUILDING_SAPPED |-> <<Need(19, U64), U64, U8, U16>>]

RelayStatus == [
    PLAYER_IGNITED |-> <<Need(18, U64), U64, U16>>,
    PLAYER_JARATED |-> <<Need(16, U64), U64>>,
    PLAYER_TELEPORTED |-> <<Need(20, U64), U64, F32>>,
    MEDIC_DEATH |-> <<Need(19, U64), U64, U16, Bool>>,
    UBER_SHARE |-> <<Need(19, U64), U64, U8, U16>>]

RelayEffect == [
    BUILDING_HEALED |-> <<Need(13, U64), U8, U16, U16>>,
    PLAYER_INVULNED |-> <<Need(18, U64), U64, U16>>,
    PROJECTILE_DEFLECTED |-> <<Need(20, U64), U64, U16, U16>>]

RelaySentry == [
    PLAYER_EXTINGUISHED |-> <<Need(18, U64), U64, U16>>,
    SENTRY_ATTACK |-> <<Need(19, U16), U64, U64, U8>>,
    GAME_MODE_INFO |-> <<Str, Str, Need(3, U8), U16>>]

RelayGame == [
    ROUND_START |-> <<Str, Need(3, U8), U16>>,
    ROUND_END |-> <<Need(8, U8), U8, U16, U16, U16>>,
    MAP_CHANGE |-> <<Str, Str>>]

\* 0x71 is PLAYER_POSITION to the relay and EVENT_GHOST_SPAWN to the plugin.
RelayGhost == [
    PLAYER_SYNC |-> <<Need(8, U64), Str, Need(23, U8), U8, U16, U16, Bool,
                      F32, F32, F32, F32>>,
    GHOST_SPAWN |-> <<Need(36, U64), F32, F32, F32, F32, F32, F32, F32>>]

RelayCrossServer == [
    HEAL_REQUEST |-> <<Need(21, U64), U64, U16, U8, U8, Bool>>,
    HEAL_CONFIRM |-> <<Need(16, U64), U16, U16, U16, U16>>,
    DAMAGE_REQUEST |-> <<Need(23, U64), U64, U16, U16, U8, U8, U8>>,
    DAMAGE_CONFIRM |-> <<Need(13, U64), U16, U16, Bool>>]

RelayLayout ==
    RelaySystem @@ RelayChat @@ RelayPlayer @@ RelayTeam @@ RelayCombat @@ RelayBuilding
        @@ RelayStatus @@ RelayEffect @@ RelaySentry @@ RelayGame @@ RelayGhost
        @@ RelayCrossServer

(***************************************************************************)
(* The sending plugin's layouts: its Send functions.                       *)
(***************************************************************************)
SendSession == [
    HANDSHAKE |-> <<U8, Str, Str, U8, U8>>,
    HEARTBEAT |-> <<U32, U8>>,
    CHAT_MESSAGE |-> <<Str, U64, U8, U8, Str>>,
    PLAYER_DEATH |-> <<Str, U64, U8, U8, Str, U64, U8, U8, Str, U8, U16>>,
    PLAYER_CONNECT |-> <<Str, U64, U32>>,
    PLAYER_DISCONNECT |-> <<Str, U64, Str>>]

SendSpawn == [
    GHOST_SPAWN |-> <<Str, U64, U8, U8, F32, F32, F32>>,
    ROUND_START |-> <<Str, U8, U16>>,
    MAP_CHANGE |-> <<Str, Str>>]

SendTeam == [
    PLAYER_TEAM_CHANGE |-> <<Str, U64, U8, U8>>,
    PLAYER_CLASS_CHANGE |-> <<Str, U64, U8>>,
    ROUND_END |-> <<U8, U8, U16, U16, U16>>]

SendBuilding == [
    BUILDING_BUILT |-> <<U64, U8, U16, U8, F32, F32, F32>>,
    BUILDING_DESTROYED |-> <<U64, U64, U8, U16, Str, Bool>>,
    ADMIN_MESSAGE |-> <<Str, Str, U32>>]

SendHealed == [
    PLAYER_HEALED |-> <<U64, U64, U16>>,
    BUILDING_HEALED |-> <<U64, U8, U16, U16>>,
    UBER_DEPLOYED |-> <<U64, U64, U8>>]

SendHurt == [
    PLAYER_INVULNED |-> <<U64, U64>>,
    PLAYER_HURT |-> <<U64, U64, U16, U16>>,
    BUILDING_SAPPED |-> <<U64, U64, U8, U16>>]

SendStatus == [
    PROJECTILE_DEFLECTED |-> <<U64, U64, U16>>,
    PLAYER_IGNITED |-> <<U64, U64, U16>>,
    PLAYER_EXTINGUISHED |-> <<U64, U64>>,
    PLAYER_JARATED |-> <<U64, U64>>]

SendGame == [
    PLAYER_TELEPORTED |-> <<U64, U64, F32>>,
    MEDIC_DEATH |-> <<U64, U64, U16, Bool>>,
    SENTRY_ATTACK |-> <<U64, U64, U8, U16>>,
    GAME_MODE_INFO |-> <<Str, Str, U8, U16>>]

SendPlayerSync == [
    PLAYER_SYNC |-> <<Str, U64, U8, U8, U16, F32, F32, F32, F32, F32, F32, F32, F32, F32, U8>>]

SendCrossServer == [
    HEAL_CONFIRM |-> <<U64, U16>>,
    DAMAGE_CONFIRM |-> <<U64, U16, Bool>>,
    HEAL_REQUEST |-> <<U64, U64, U16>>,
    DAMAGE_REQUEST |-> <<U64, U64, U16, U32, Str>>,
    UBER_SHARE |-> <<U64, U64, U8, F32>>]

SendLayout ==
    SendSession @@ SendSpawn @@ SendTeam @@ SendBuilding @@ SendHealed @@ SendHurt
        @@ SendStatus @@ SendGame @@ SendPlayerSync @@ SendCrossServer

(***************************************************************************)
(* The receiving plugin's layouts, as far as its ProcessRemote functions   *)
(* read.  Other events it ignores.  The copy of a text into a buffer of 64 *)
(* bytes, or 256 for a message, is left out: the sender's are no longer.   *)
(***************************************************************************)
ReadGhost == [
    PLAYER_SYNC |-> <<Str, U64, U8, U8, U16, F32, F32, F32, F32, F32, F32, F32, F32, F32, U8>>,
    GHOST_SPAWN |-> <<Str, U64, U8, U8, F32, F32, F32>>]

ReadPlayer == [
    CHAT_MESSAGE |-> <<Str, U64, U8, U8, Str>>,
    PLAYER_DEATH |-> <<Str>>,
    PLAYER_CONNECT |-> <<Str>>,
    PLAYER_DISCONNECT |-> <<Str>>]

ReadHealRequest == [HEAL_REQUEST |-> <<U64, U64, U16>>]
ReadHealConfirm == [HEAL_CONFIRM |-> <<U64, U16>>]
ReadDamageRequest == [DAMAGE_REQUEST |-> <<U64, U64, U16, U32, Str>>]
ReadDamageConfirm == [DAMAGE_CONFIRM |-> <<U64, U16, Bool>>]
ReadUberShare == [UBER_SHARE |-> <<U64, U64, U8, F32>>]

ReadLayout ==
    ReadGhost @@ ReadPlayer @@ ReadHealRequest @@ ReadHealConfirm @@ ReadDamageRequest
        @@ ReadDamageConfirm @@ ReadUberShare

(***************************************************************************)
(* Writing.  A number is written from its lowest byte, here bytes that     *)
(* count up, from another one in each field.  A Steam id has its fixed     *)
(* upper half; the empty one, of a death that nobody is to blame for, is   *)
(* zeros.                                                                  *)
(***************************************************************************)
Number(b, size) == [k \in 1..size |-> (b + k) % 256]

SteamId(b) == IF b = 0 THEN [k \in 1..8 |-> 0] ELSE Number(b, 4) \o <<1, 0, 16, 1>>

Value(field, i, fill, lens) ==
    LET b == (fill + i) % 256
    IN  CASE field.kind = "str" -> [k \in 1..lens[i % 3] |-> 97]
          [] field.kind = "bool" -> <<b % 2>>
          [] field.kind = "num" /\ field.size = 8 -> SteamId(b)
          [] OTHER -> Number(b, field.size)

Item(field, value) == IF field.kind = "str" THEN <<Len(value)>> \o value ELSE value

\* The bytes of the first fields, for each number of fields.
Written(layout, vals) ==
    LET out[i \in 0..Len(layout)] ==
            IF i = 0 THEN <<>> ELSE out[i - 1] \o Item(layout[i], vals[i])
    IN  out

Write(layout, vals) == Written(layout, vals)[Len(layout)]

(***************************************************************************)
(* Reading: where each field ends, and the bytes in it.  Past the end of   *)
(* the packet the plugin's buffer holds what it held before: Stale, which  *)
(* is no byte.                                                             *)
(***************************************************************************)
Stale == 256

ByteAt(bytes, i) == IF i <= Len(bytes) THEN bytes[i] ELSE Stale

Extent(field, bytes, at) ==
    IF field.kind = "str" THEN 1 + (ByteAt(bytes, at + 1) % 256) ELSE field.size

Ends(layout, bytes) ==
    LET at[i \in 0..Len(layout)] ==
            IF i = 0 THEN 0 ELSE at[i - 1] + Extent(layout[i], bytes, at[i - 1])
    IN  at

Content(field, bytes, at) ==
    LET skip == IF field.kind = "str" THEN 1 ELSE 0
    IN  [k \in 1..(Extent(field, bytes, at) - skip) |-> ByteAt(bytes, at + skip + k)]

(***************************************************************************)
(* The relay reads.  get_u8 and its like panic on a buffer that is too     *)
(* short; read_string does not, but String::from_utf8 refuses bytes that   *)
(* are not text.                                                           *)
(***************************************************************************)
Continuation == 128..191

\* The bytes of the character that a byte begins, and what the second may be.
CharSize(byte) ==
    CASE byte \in 0..127 -> 1
      [] byte \in 194..223 -> 2
      [] byte \in 224..239 -> 3
      [] byte \in 240..244 -> 4
      [] OTHER -> 0

Second(byte) ==
    CASE byte = 224 -> 160..191
      [] byte = 237 -> 128..159
      [] byte = 240 -> 144..191
      [] byte = 244 -> 128..143
      [] OTHER -> Continuation

\* Each byte begins a character that is whole, or is within one.
IsUtf8(text) ==
    \A k \in DOMAIN text :
        \/ /\ CharSize(text[k]) > 0 /\ k + CharSize(text[k]) - 1 <= Len(text)
           /\ \A m \in 1..(CharSize(text[k]) - 1) :
                 text[k + m] \in IF m = 1 THEN Second(text[k]) ELSE Continuation
        \/ /\ text[k] \in Continuation
           /\ \E m \in 1..3 :
                 /\ m < k /\ CharSize(text[k - m]) > m
                 /\ \A j \in 1..(m - 1) : text[k - j] \in Continuation

\* Mutant: the bytes that remain are not counted first.
RefusedUnchecked(field, bytes, at) ==
    LET left == Len(bytes) - at
        text == Content(field, bytes, at)
        isText == field.kind = "str"
        short == isText /\ left < Extent(field, bytes, at)
        garbled == isText /\ ~IsUtf8(text)
    IN  IF short THEN "malformed"
        ELSE IF garbled THEN "parse"
        ELSE IF left < field.size THEN "panic" ELSE "none"

\* Mutant: one byte more than the fields have is asked for.
RefusedByOne(field, bytes, at) ==
    LET left == Len(bytes) - at
        text == Content(field, bytes, at)
        isText == field.kind = "str"
        short == left <= field.need \/ (isText /\ left < Extent(field, bytes, at))
        garbled == isText /\ ~IsUtf8(text)
    IN  IF short THEN "malformed"
        ELSE IF garbled THEN "parse"
        ELSE IF left < field.size THEN "panic" ELSE "none"

Refused(field, bytes, at) ==
    LET left == Len(bytes) - at
        text == Content(field, bytes, at)
        isText == field.kind = "str"
        short == left < field.need \/ (isText /\ left < Extent(field, bytes, at))
        garbled == isText /\ ~IsUtf8(text)
    IN  IF short THEN "malformed"
        ELSE IF garbled THEN "parse"
        ELSE IF left < field.size THEN "panic" ELSE "none"

Nonzero(byte) == IF byte # 0 THEN 1 ELSE 0

RelayValue(field, bytes, at) ==
    IF field.kind = "bool" THEN <<Nonzero(ByteAt(bytes, at + 1))>> ELSE Content(field, bytes, at)

\* The first field that is refused ends the parse.
Parse(e, bytes) ==
    LET layout == RelayLayout[e]
        Check(i) == Refused(layout[i], bytes, Ends(layout, bytes)[i - 1])
        refused == {i \in DOMAIN layout : Check(i) # "none"}
    IN  IF refused = {}
        THEN [error |-> "none",
              fields |-> [i \in DOMAIN layout |->
                            RelayValue(layout[i], bytes, Ends(layout, bytes)[i - 1])]]
        ELSE [error |-> Check(CHOOSE i \in refused : \A j \in refused : i <= j),
              fields |-> <<>>]

\* Mutant: the byte of a string's length is taken for its first.
PluginReadUnskipped(e, bytes) ==
    LET layout == ReadLayout[e]
    IN  [i \in DOMAIN layout |->
            [k \in DOMAIN Content(layout[i], bytes, Ends(layout, bytes)[i - 1]) |->
                ByteAt(bytes, Ends(layout, bytes)[i - 1] + k)]]

PluginRead(e, bytes) ==
    LET layout == ReadLayout[e]
    IN  [i \in DOMAIN layout |-> Content(layout[i], bytes, Ends(layout, bytes)[i - 1])]

(***************************************************************************)
(* The tables compared.  Agreed is the set of the events for which the     *)
(* three of them say the same and no need asks for more bytes than the     *)
(* fields behind it have at the least.  In every other event the sender's  *)
(* and the relay's differ in the number of fields, or in the size of a     *)
(* number; and either a need covers every field of fixed size the relay    *)
(* reads, or what is sent is too short for the first need.                 *)
(***************************************************************************)
Alike(reader, writer) ==
    /\ Len(reader) <= Len(writer)
    /\ \A i \in 1..Len(reader) :
          reader[i].kind = writer[i].kind /\ reader[i].size = writer[i].size

\* Where the fields end at the least: no string has a byte.
Least(layout) == Ends(layout, <<>>)

NeedsMet(layout) ==
    \A i \in 1..Len(layout) :
        layout[i].need <= Least(layout)[Len(layout)] - Least(layout)[i - 1]

Guarded(layout) ==
    \A i \in 1..Len(layout) : layout[i].kind # "str" =>
        \E j \in 1..i :
            /\ \A k \in j..i : layout[k].kind # "str"
            /\ layout[j].need >= Least(layout)[i] - Least(layout)[j - 1]

\* The relay counts 23 bytes before the 25 of a PLAYER_HURT; the plugin sends
\* 20.
TooShort(e) ==
    LET relay == RelayLayout[e]
        send == SendLayout[e]
    IN  /\ Len(relay) > 0 /\ relay[1].need > Least(send)[Len(send)]
        /\ \A i \in 1..Len(send) : send[i].kind # "str"

Agrees(e) ==
    /\ Alike(RelayLayout[e], SendLayout[e]) /\ Alike(SendLayout[e], RelayLayout[e])
    /\ NeedsMet(RelayLayout[e])
    /\ e \in DOMAIN ReadLayout => Alike(ReadLayout[e], SendLayout[e])

Differs(e) ==
    LET relay == RelayLayout[e]
        send == SendLayout[e]
    IN  /\ \/ Len(relay) # Len(send)
           \/ \E i \in 1..Len(relay) :
                 relay[i].kind = "num" /\ send[i].kind = "num" /\ relay[i].size # send[i].size
        /\ Guarded(relay) \/ TooShort(e)

ASSUME LayoutsAssumption ==
    /\ \A e \in Events : SendLayout[e] \in Seq(Field) /\ RelayLayout[e] \in Seq(Field)
    /\ \A e \in DOMAIN ReadLayout : ReadLayout[e] \in Seq(Field)
    /\ \A e \in Events : IF e \in Agreed THEN Agrees(e) ELSE Differs(e)

\* Event::is_broadcastable, of the events a plugin sends.
Broadcastable(e) == e \notin {"HANDSHAKE", "HEARTBEAT"}

Unread == [error |-> "unread", fields |-> <<>>]

Init ==
    /\ stage = "idle"
    /\ event = "none" /\ values = <<>> /\ payload = <<>>
    /\ parsed = Unread /\ read = <<>>

\* Next packet: nothing is left of the last one.
Reset ==
    /\ stage \in {"dropped", "handled", "read", "dead"}
    /\ stage' = "idle"
    /\ event' = "none" /\ values' = <<>> /\ payload' = <<>>
    /\ parsed' = Unread /\ read' = <<>>

Send(e, fill, lens) ==
    LET layout == SendLayout[e]
        vals == [i \in DOMAIN layout |-> Value(layout[i], i, fill, lens)]
    IN  /\ stage = "idle"
        /\ stage' = "sent"
        /\ event' = e
        /\ values' = vals
        /\ payload' = Write(layout, vals)
        /\ UNCHANGED <<parsed, read>>

\* A malformed packet is skipped; text that is no text ends the connection,
\* and a panic its task.
RelayParses ==
    /\ stage = "sent"
    /\ parsed' = Parse(event, payload)
    /\ stage' = CASE parsed'.error = "none" -> "parsed"
                  [] parsed'.error = "malformed" -> "dropped"
                  [] OTHER -> "dead"
    /\ UNCHANGED <<event, values, payload, read>>

RelayForwards ==
    /\ stage = "parsed"
    /\ IF Broadcastable(event)
       THEN /\ stage' = "forwarded"
            /\ payload' = Write(RelayLayout[event], parsed.fields)
       ELSE stage' = "handled" /\ UNCHANGED payload
    /\ UNCHANGED <<event, values, parsed, read>>

PluginReads ==
    /\ stage = "forwarded"
    /\ IF event \in DOMAIN ReadLayout
       THEN stage' = "read" /\ read' = PluginRead(event, payload)
       ELSE stage' = "handled" /\ UNCHANGED read
    /\ UNCHANGED <<event, values, payload, parsed>>

Next ==
    \/ \E e \in Events, fill \in Fills, lens \in [0..2 -> Lengths] : Send(e, fill, lens)
    \/ RelayParses \/ RelayForwards \/ PluginReads \/ Reset

Spec == Init /\ [][Next]_vars
-----------------------------------------------------------------------------
\* Stages follow the packet, what is on the wire is bytes, and no packet that a
\* plugin sends, even one whose layout the two sides do not agree on, makes the
\* relay read past its end.
TypeOK ==
    /\ stage \in {"idle", "sent", "parsed", "forwarded", "read", "handled",
                 "dropped", "dead"}
    /\ event \in Events \cup {"none"}
    /\ \A i \in DOMAIN payload : payload[i] \in Byte
    /\ parsed.error \in {"unread", "none", "malformed", "parse"}
    /\ (parsed.error = "unread") = (stage \in {"idle", "sent"})

\* Of the events the two sides agree on, whatever the values, the relay reads
\* exactly what the sender wrote: it refuses none and takes no field for
\* another.  Of the others it understands none: it drops them, or takes them
\* for something else.
Understood ==
    stage \notin {"idle", "sent"} =>
        (parsed.error = "none" /\ parsed.fields = values) = (event \in Agreed)

\* What the plugin of another server reads of such an event is what was sent,
\* through one more serialisation: no field is cut off or shifted on the way.
Arrives ==
    stage = "read" /\ event \in Agreed =>
        \A i \in DOMAIN read : i \in DOMAIN values /\ read[i] = values[i]
=============================================================================
