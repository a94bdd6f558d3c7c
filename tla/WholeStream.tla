---------------------------- MODULE WholeStream -----------------------------
(***************************************************************************)
(* What decoding a connection comes to when its stream is there from the   *)
(* start, in one piece: no buffer, no reads, no turns.  Decoder implements *)
(* it.  When the connection ends is not promised: the handshake timer or   *)
(* the peer may end it between any two steps.                              *)
(***************************************************************************)
EXTENDS Frames

VARIABLES
    stream,   \* what the plugin sends
    at,       \* how many of its bytes have been taken
    phase,    \* "handshake", "loop", or "dead"
    cause,    \* the error the connection died of
    handled   \* the packets handled, in order

wholeVars == <<stream, at, phase, cause, handled>>

WholeInit ==
    /\ stream \in Streams
    /\ at = 0
    /\ phase = "handshake"
    /\ cause = "none"
    /\ handled = <<>>

Ahead == Rest(stream, at)

Take(r) == at' = Len(stream.bytes) - Len(r.left)

\* A byte that begins no frame.
Skip ==
    LET r == Decode(Ahead)
    IN  /\ phase # "dead" /\ r.kind = "none"
        /\ Take(r)
        /\ UNCHANGED <<stream, phase, cause, handled>>

Refuse ==
    LET r == Decode(Ahead)
    IN  /\ phase # "dead" /\ r.kind = "error"
        /\ Take(r)
        /\ phase' = "dead" /\ cause' = r.error
        /\ UNCHANGED <<stream, handled>>

Greet ==
    LET r == Decode(Ahead)
    IN  /\ phase = "handshake" /\ r.kind = "packet"
        /\ Take(r)
        /\ phase' = IF r.type = Handshake THEN "loop" ELSE phase
        /\ UNCHANGED <<stream, cause, handled>>

Handle ==
    LET r == Decode(Ahead)
    IN  /\ phase = "loop" /\ r.kind = "packet"
        /\ Take(r)
        /\ handled' = IF r.type \in {Handshake, Sound} THEN Append(handled, r.payload) ELSE handled
        /\ phase' = IF r.type = BadUtf8 THEN "dead" ELSE phase
        /\ cause' = IF r.type = BadUtf8 THEN "parse" ELSE cause
        /\ UNCHANGED stream

End ==
    /\ phase # "dead" /\ phase' = "dead"
    /\ \/ cause' = "closed"
       \/ phase = "handshake" /\ cause' = "timeout"
    /\ UNCHANGED <<stream, at, handled>>

WholeNext == Skip \/ Refuse \/ Greet \/ Handle \/ End

WholeSpec == WholeInit /\ [][WholeNext]_wholeVars
=============================================================================
