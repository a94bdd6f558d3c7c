------------------------------ MODULE Decoder -------------------------------
(***************************************************************************)
(* Packet framing on the relay: a byte stream arrives in chunks, is pushed *)
(* into PacketDecoder::buffer, and each turn of a connection's loop calls  *)
(* decode until it returns None or an error.  Before the handshake a turn  *)
(* needs new bytes (wait_for_handshake only reads); afterwards the         *)
(* heartbeat interval and the other select branches also make turns.       *)
(*                                                                         *)
(* Run decoder_magic is about the difference between the plugin's frames   *)
(* and the relay's; the other run decodes streams of the relay's own.      *)
(***************************************************************************)
EXTENDS Frames

CONSTANT MaxRead   \* the most bytes one read returns

ASSUME ReadAssumption == MaxRead \in Nat \ {0}

VARIABLES
    stream,   \* what the plugin sends on this connection
    pos,      \* how many of its bytes have been read
    buffer,   \* PacketDecoder::buffer
    phase,    \* "handshake", "loop", or "dead"
    turn,     \* whether the decode loop of this turn is running
    cause,    \* the error the connection died of
    handled   \* history: the packets handled, in order

vars == <<stream, pos, buffer, phase, turn, cause, handled>>

Init ==
    /\ stream \in Streams
    /\ pos = 0
    /\ buffer = <<>>
    /\ phase = "handshake"
    /\ turn = FALSE
    /\ cause = "none"
    /\ handled = <<>>

\* Mutant: what has arrived is put before what was left over.
ReadInFront(n) ==
    /\ phase # "dead" /\ ~turn
    /\ pos + n <= Len(stream.bytes)
    /\ buffer' = SubSeq(stream.bytes, pos + 1, pos + n) \o buffer
    /\ pos' = pos + n
    /\ turn' = TRUE
    /\ UNCHANGED <<stream, phase, cause, handled>>

\* The socket is readable: n more bytes, and the decode loop.
Read(n) ==
    /\ phase # "dead" /\ ~turn
    /\ pos + n <= Len(stream.bytes)
    /\ buffer' = buffer \o SubSeq(stream.bytes, pos + 1, pos + n)
    /\ pos' = pos + n
    /\ turn' = TRUE
    /\ UNCHANGED <<stream, phase, cause, handled>>

\* Mutant: only a read is followed by the decode loop.
TickWithInput ==
    /\ phase = "loop" /\ ~turn
    /\ pos < Len(stream.bytes)
    /\ turn' = TRUE
    /\ UNCHANGED <<stream, pos, buffer, phase, cause, handled>>

\* Another branch of the select loop: the heartbeat check.
Tick ==
    /\ phase = "loop" /\ ~turn
    /\ turn' = TRUE
    /\ UNCHANGED <<stream, pos, buffer, phase, cause, handled>>

HandshakeTimeout ==
    /\ phase = "handshake" /\ ~turn
    /\ phase' = "dead"
    /\ cause' = "timeout"
    /\ UNCHANGED <<stream, pos, buffer, turn, handled>>

\* read returns 0: the loop is left at once, whatever is still buffered.
PeerCloses ==
    /\ phase # "dead" /\ ~turn
    /\ pos = Len(stream.bytes)
    /\ phase' = "dead"
    /\ cause' = "closed"
    /\ UNCHANGED <<stream, pos, buffer, turn, handled>>

\* Mutant: a turn begins with an empty buffer.
DecodeNoneCleared ==
    /\ turn
    /\ Decode(buffer).kind = "none"
    /\ buffer' = <<>>
    /\ turn' = FALSE
    /\ UNCHANGED <<stream, pos, phase, cause, handled>>

DecodeNone ==
    /\ turn
    /\ Decode(buffer).kind = "none"
    /\ buffer' = Decode(buffer).left
    /\ turn' = FALSE
    /\ UNCHANGED <<stream, pos, phase, cause, handled>>

\* decode()? returns from wait_for_handshake and from the select loop alike.
DecodeError ==
    /\ turn
    /\ Decode(buffer).kind = "error"
    /\ buffer' = Decode(buffer).left
    /\ turn' = FALSE
    /\ phase' = "dead"
    /\ cause' = Decode(buffer).error
    /\ UNCHANGED <<stream, pos, handled>>

\* Before the handshake every other packet is dropped; the handshake ends
\* the turn, and what is buffered behind it waits for the first select.
DecodeBeforeHandshake ==
    LET r == Decode(buffer)
    IN  /\ turn /\ phase = "handshake"
        /\ r.kind = "packet"
        /\ buffer' = r.left
        /\ turn' = (r.type # Handshake)
        /\ phase' = IF r.type = Handshake THEN "loop" ELSE phase
        /\ UNCHANGED <<stream, pos, cause, handled>>

\* process_packet in the loop.  A recoverable error skips the packet.
DecodeInLoop ==
    LET r == Decode(buffer)
    IN  /\ turn /\ phase = "loop"
        /\ r.kind = "packet"
        /\ buffer' = r.left
        /\ handled' = IF r.type \in {Handshake, Sound}
                      THEN Append(handled, r.payload) ELSE handled
        /\ phase' = IF r.type = BadUtf8 THEN "dead" ELSE phase
        /\ turn' = (r.type # BadUtf8)
        /\ cause' = IF r.type = BadUtf8 THEN "parse" ELSE cause
        /\ UNCHANGED <<stream, pos>>

Next ==
    \/ \E n \in 1..MaxRead : Read(n)
    \/ Tick \/ HandshakeTimeout \/ PeerCloses
    \/ DecodeNone \/ DecodeError \/ DecodeBeforeHandshake \/ DecodeInLoop

Spec == Init /\ [][Next]_vars

(***************************************************************************)
(* Fairness: the task runs, the interval ticks and the handshake timer     *)
(* runs out.  What was sent arrives, and select! polls its branches in a   *)
(* random order, so the ticks do not starve the read.                      *)
(***************************************************************************)
Fairness ==
    /\ SF_vars(\E n \in 1..MaxRead : Read(n))
    /\ WF_vars(Tick)
    /\ WF_vars(HandshakeTimeout)
    /\ WF_vars(DecodeNone \/ DecodeError \/ DecodeBeforeHandshake \/ DecodeInLoop)

FairSpec == Spec /\ Fairness
-----------------------------------------------------------------------------
\* The buffer is the part of what was read that no packet has consumed yet,
\* and phases and causes are the ones the code knows.
TypeOK ==
    /\ stream \in Streams
    /\ pos \in 0..Len(stream.bytes)
    /\ phase \in {"handshake", "loop", "dead"}
    /\ turn \in BOOLEAN
    /\ cause \in {"none", "timeout", "closed", "version", "too_large",
                 "checksum", "parse"}
    /\ (cause = "none") = (phase # "dead")
    /\ Len(buffer) <= pos /\ buffer = SubSeq(stream.bytes, pos - Len(buffer) + 1, pos)

\* However the stream is cut into reads, and whatever junk without a magic lies
\* between its frames, the packets handled are the packets sent, in order, each
\* once: resynchronising never makes a packet of a payload, whatever it holds.
HandledInOrder ==
    /\ Len(handled) <= Len(stream.packets)
    /\ handled = SubSeq(stream.packets, 1, Len(handled))

\* Every packet sent is handled in the end, even one behind junk, and even if
\* nothing more arrives, unless the connection dies.
AllHandled == <>(phase = "dead" \/ handled = stream.packets)

\* Once every byte has arrived and been looked at, the handshake has been
\* seen: a connection whose handshake arrived does not wait for it.
HandshakeSeen ==
    (pos = Len(stream.bytes) /\ ~turn) => (phase # "handshake" /\ cause # "timeout")

\* Whatever bytes are in the buffer, the checksum the relay computes of them,
\* with the table written out in protocol.rs, is the one the plugin has
\* computed of them with the table it fills: no sound packet is refused.
SidesAgree == crc8(buffer) = CalculateCRC8(buffer)

\* A frame that is complete in the buffer, with nothing before it, is decoded:
\* the first packet of a connection needs no resynchronisation.
FirstFrameDecodes ==
    (turn /\ Len(buffer) = pos /\ pos >= HeaderSize /\ pos >= FrameSize(buffer))
        => Decode(buffer).kind = "packet"

\* However the stream is cut into reads, decoding it is decoding it in one
\* piece: the cuts decide when the relay looks at a byte, never what it makes
\* of it, and no byte is looked at twice or lost.
Whole == INSTANCE WholeStream WITH at <- pos - Len(buffer)

ReadsAsWhole == Whole!WholeSpec
=============================================================================
