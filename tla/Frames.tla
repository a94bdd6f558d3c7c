------------------------------- MODULE Frames -------------------------------
(***************************************************************************)
(* The frame of a packet, as the relay and the plugin build it, and one    *)
(* call of PacketDecoder::decode.                                          *)
(*                                                                         *)
(* Bytes are small numbers.  A frame has the fields of the real header     *)
(* that decode looks at, in their order: two magic bytes, version, type,   *)
(* length (one byte here), then the payload and a checksum.  Server id and *)
(* sequence are carried without being looked at and are left out.  The     *)
(* checksums are those of module Crc8.  Frame is how the relay serialises a*)
(* packet and what it decodes, PluginFrame what the plugin sends.          *)
(***************************************************************************)
EXTENDS Crc8

CONSTANTS
    Streams,       \* what a plugin may send on a connection
    MaxPayload     \* MAX_PAYLOAD_SIZE

\* A stream is its bytes, the packets in them that are to be handled, and how
\* many of them have been sent up to each byte where a frame ends.
ASSUME StreamsAssumption ==
    \A s \in Streams : s.bytes \in Seq(Byte) /\ s.packets \in Seq(Seq(Byte))

ASSUME PayloadAssumption == MaxPayload \in Nat

Magic1 == 70      \* 'F': 0x5446 is read little-endian
Magic2 == 84      \* 'T'
Version == 1
HeaderSize == 5
ChecksumSize == 1

\* Packet types: what Event::parse makes of a packet.
Handshake == 1
Sound == 2        \* parses
Malformed == 3    \* MalformedPacket or UnknownPacketType: recoverable
BadUtf8 == 4      \* RelayError::Parse: not recoverable

\* Packet::serialize.
Frame(type, payload) ==
    LET body == <<Magic1, Magic2, Version, type, Len(payload)>> \o payload
    IN  Append(body, crc8(body))

\* BuildPacketHeader and SendPacket of the plugin: the same frame, but for the
\* order in which the two magic bytes go out.
PluginFrame(type, payload) ==
    LET body == <<Magic2, Magic1, Version, type, Len(payload)>> \o payload
    IN  Append(body, CalculateCRC8(body))

(***************************************************************************)
(* One call of PacketDecoder::decode: what it returns and what it leaves.  *)
(***************************************************************************)
\* Mutant: one byte too many is waited for.
FrameSizeOver(buf) == HeaderSize + buf[5] + ChecksumSize + 1

FrameSize(buf) == HeaderSize + buf[5] + ChecksumSize

None(left) == [kind |-> "none", left |-> left]
Error(e, left) == [kind |-> "error", error |-> e, left |-> left]
Parsed(type, payload, left) ==
    [kind |-> "packet", type |-> type, payload |-> payload, left |-> left]

\* Mutant: the checksum is not compared.
DecodeUnchecked(buf) ==
    IF Len(buf) < HeaderSize THEN None(buf)
    ELSE IF buf[1] # Magic1 \/ buf[2] # Magic2 THEN None(Tail(buf))
    ELSE IF buf[3] # Version THEN Error("version", buf)
    ELSE IF buf[5] > MaxPayload THEN Error("too_large", buf)
    ELSE IF Len(buf) < FrameSize(buf) THEN None(buf)
    ELSE Parsed(buf[4], SubSeq(buf, HeaderSize + 1, FrameSize(buf) - 1),
                SubSeq(buf, FrameSize(buf) + 1, Len(buf)))

Decode(buf) ==
    IF Len(buf) < HeaderSize THEN None(buf)
    ELSE IF buf[1] # Magic1 \/ buf[2] # Magic2 THEN None(Tail(buf))
    ELSE IF buf[3] # Version THEN Error("version", buf)
    ELSE IF buf[5] > MaxPayload THEN Error("too_large", buf)
    ELSE IF Len(buf) < FrameSize(buf) THEN None(buf)
    ELSE LET size == FrameSize(buf)
             left == SubSeq(buf, size + 1, Len(buf))
         IN  IF buf[size] # crc8(SubSeq(buf, 1, size - 1))
             THEN Error("checksum", left)
             ELSE Parsed(buf[4], SubSeq(buf, HeaderSize + 1, size - 1), left)

(***************************************************************************)
(* A stream as a plugin sends it: its handshake first, then frames, with   *)
(* nothing between them that holds a magic, until the stream ends or holds *)
(* something that is not a frame although it begins like one.              *)
(***************************************************************************)
Rest(s, i) == SubSeq(s.bytes, i + 1, Len(s.bytes))

HasMagic(buf) == buf[1] = Magic1 /\ buf[2] = Magic2

\* The bytes begin with a frame that Packet::serialize writes.
PayloadOf(buf) == SubSeq(buf, HeaderSize + 1, HeaderSize + buf[5])
FrameOf(buf) == Frame(buf[4], PayloadOf(buf))

StartsWithFrame(buf) ==
    /\ Len(buf) >= HeaderSize /\ buf[5] <= MaxPayload
    /\ Len(buf) >= HeaderSize + buf[5] + ChecksumSize
    /\ SubSeq(buf, 1, Len(FrameOf(buf))) = FrameOf(buf)

\* What the packet counts for that byte i of the stream is the end before.
Counts(s, i) ==
    LET rest == Rest(s, i)
        j == i + Len(FrameOf(rest))
    IN  /\ j \in DOMAIN s.upto
        /\ IF rest[4] \in {Handshake, Sound}
           THEN s.upto[j] = s.upto[i] + 1 /\ s.packets[s.upto[j]] = PayloadOf(rest)
           ELSE s.upto[j] = s.upto[i]

WellSent(s) ==
    /\ StartsWithFrame(s.bytes) /\ s.bytes[4] = Handshake
    /\ LET first == Len(FrameOf(s.bytes))
       IN  /\ first \in DOMAIN s.upto /\ s.upto[first] = 0
           /\ \A i \in DOMAIN s.upto :
                 LET rest == Rest(s, i)
                 IN  /\ i \in first..Len(s.bytes) /\ s.upto[i] \in 0..Len(s.packets)
                     /\ StartsWithFrame(rest) => Counts(s, i)
                     /\ Len(rest) >= HeaderSize /\ ~HasMagic(rest) =>
                           i + 1 \in DOMAIN s.upto /\ s.upto[i + 1] = s.upto[i]
=============================================================================
