------------------------------ MODULE MCDecoder ------------------------------
(***************************************************************************)
(* Streams for the decoder, each known with the packets that are to be     *)
(* handled behind its handshake: a plugin that behaves, packets that do not*)
(* parse, junk between the frames, a damaged byte, a header out of bounds. *)
(***************************************************************************)
EXTENDS Decoder, SequencesExt, TLC

\* Payloads, one of which looks like the start of a frame.
A == <<7>>
B == <<Magic1, Magic2, Version>>

\* A stream begins with a handshake and goes on with pieces: the bytes of each
\* and the packets in them that are to be handled.
Piece(bytes, packets) == [bytes |-> bytes, packets |-> packets]

Begin(payload) ==
    LET frame == Frame(Handshake, payload)
    IN  [bytes |-> frame, packets |-> <<>>, upto |-> Len(frame) :> 0]

Join(s, piece) ==
    LET bytes == s.bytes \o piece.bytes
        packets == s.packets \o piece.packets
    IN  [bytes |-> bytes, packets |-> packets,
         upto |-> s.upto @@ (Len(bytes) :> Len(packets))]

Stream(payload, pieces) == FoldLeft(Join, Begin(payload), pieces)

Packet(payload) == Piece(Frame(Sound, payload), <<payload>>)

\* Junk that holds no magic, and half of one.
Junk == Piece(<<9>>, <<>>)
HalfMagic == Piece(<<Magic1>>, <<>>)

Clean == {Stream(<<3>>, <<>>),
          Stream(<<3>>, <<Packet(A), Packet(B), Packet(A)>>)}

Unsound == {Stream(<<3>>, <<Piece(Frame(Malformed, A), <<>>), Packet(B)>>),
            Stream(<<3>>, <<Packet(A), Piece(Frame(BadUtf8, B), <<>>), Packet(A)>>)}

Noisy == {Stream(<<3>>, <<Junk, Junk, Packet(A), HalfMagic, Packet(B)>>)}

\* A packet with one byte of its frame changed: it is not handled.
Changed(payload, i, byte) == Piece([Frame(Sound, payload) EXCEPT ![i] = byte], <<payload>>)

\* A bit of a payload flipped; a version the relay does not know; a payload
\* that is too long.
Damaged == {Stream(<<3>>, <<Packet(B), Changed(A, HeaderSize + 1, 8)>>),
            Stream(<<3>>, <<Changed(A, 3, Version + 1)>>),
            Stream(<<3>>, <<Packet(B \o A)>>)}

\* Every byte as a payload, and every error in one byte of a payload.
EveryByte == {Stream(<<>>, <<Packet(<<b>>)>>) : b \in Byte}
EveryError == {Stream(<<>>, <<Changed(A, HeaderSize + 1, b)>>) : b \in Byte \ {7}}

Sent == EveryByte \cup EveryError \cup Clean \cup Unsound \cup Noisy \cup Damaged

ASSUME SentAssumption == \A s \in Sent : WellSent(s)

FromPlugin ==
    {[bytes |-> PluginFrame(Handshake, <<3>>) \o PluginFrame(Sound, A),
      packets |-> <<A>>, upto |-> <<>>]}
=============================================================================
