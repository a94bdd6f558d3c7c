--------------------------- MODULE DecoderProofs ----------------------------
(***************************************************************************)
(* Proofs about Decoder for any streams, payload limit and size of a read. *)
(* Before the last section nothing is used of the checksums but that each  *)
(* is a function of the bytes.                                             *)
(*                                                                         *)
(* The argument: what decode makes of the front of a buffer depends on no  *)
(* byte behind the frame it finds there (DecodeLocal), and it finds exactly*)
(* the frames that Packet::serialize writes (DecodeFindsFrames).  The      *)
(* buffer is a slice of the stream (Slice), so each turn of the loop does  *)
(* what it would do with the rest of the stream at once.                   *)
(***************************************************************************)
EXTENDS Decoder, SequenceTheorems, WellFoundedInduction, TLAPS

-----------------------------------------------------------------------------
\* The part of a sequence of bytes behind byte i, up to byte j.
LEMMA SliceProperties ==
    ASSUME NEW S, NEW s \in Seq(S), NEW i \in 0..Len(s), NEW j \in i..Len(s)
    PROVE  /\ SubSeq(s, i + 1, j) \in Seq(S)
           /\ Len(SubSeq(s, i + 1, j)) = j - i
           /\ \A k \in 1..(j - i) : SubSeq(s, i + 1, j)[k] = s[i + k]
<1>1. Len(s) \in Nat /\ \A k \in 1..Len(s) : s[k] \in S
  BY LenProperties, ElementOfSeq
<1>2. i \in Int /\ j \in Int /\ i + 1 \in Int /\ i <= j /\ \A k \in (i + 1)..j : s[k] \in S
  BY <1>1
<1>3. /\ SubSeq(s, i + 1, j) \in Seq(S)
      /\ Len(SubSeq(s, i + 1, j)) = IF i + 1 <= j THEN j - (i + 1) + 1 ELSE 0
      /\ \A k \in 1..(j - (i + 1) + 1) : SubSeq(s, i + 1, j)[k] = s[i + 1 + k - 1]
  BY <1>2, SubSeqProperties
<1>4. \A k \in 1..(j - i) : k \in 1..(j - (i + 1) + 1) /\ i + 1 + k - 1 = i + k
  BY <1>2
<1> QED
  BY <1>2, <1>3, <1>4

LEMMA PrefixProperties ==
    ASSUME NEW S, NEW s \in Seq(S), NEW n \in 0..Len(s)
    PROVE  /\ SubSeq(s, 1, n) \in Seq(S) /\ Len(SubSeq(s, 1, n)) = n
           /\ \A k \in 1..n : SubSeq(s, 1, n)[k] = s[k]
<1>1. Len(s) \in Nat /\ 0 + 1 = 1 /\ 0 \in 0..Len(s) /\ n - 0 = n /\ \A k \in 1..n : 0 + k = k
  BY LenProperties
<1>2. /\ SubSeq(s, 0 + 1, n) \in Seq(S) /\ Len(SubSeq(s, 0 + 1, n)) = n - 0
      /\ \A k \in 1..(n - 0) : SubSeq(s, 0 + 1, n)[k] = s[0 + k]
  BY <1>1, SliceProperties
<1> QED
  BY <1>1, <1>2

LEMMA SliceOfSlice ==
    ASSUME NEW S, NEW s \in Seq(S), NEW i \in 0..Len(s), NEW j \in i..Len(s),
           NEW m \in 0..(j - i), NEW n \in m..(j - i)
    PROVE  SubSeq(SubSeq(s, i + 1, j), m + 1, n) = SubSeq(s, i + m + 1, i + n)
<1> DEFINE t == SubSeq(s, i + 1, j)
<1>1. Len(s) \in Nat /\ i \in Nat /\ j \in Nat /\ m \in Nat /\ n \in Nat
      /\ i + m \in 0..Len(s) /\ i + n \in (i + m)..Len(s) /\ (i + n) - (i + m) = n - m
  BY LenProperties
<1>2. t \in Seq(S) /\ Len(t) = j - i /\ \A k \in 1..(j - i) : t[k] = s[i + k]
  BY SliceProperties
<1> HIDE DEF t
<1>3. m \in 0..Len(t) /\ n \in m..Len(t)
  BY <1>2
<1>4. /\ SubSeq(t, m + 1, n) \in Seq(S) /\ Len(SubSeq(t, m + 1, n)) = n - m
      /\ \A k \in 1..(n - m) : SubSeq(t, m + 1, n)[k] = t[m + k]
  BY <1>2, <1>3, SliceProperties
<1>5. /\ SubSeq(s, i + m + 1, i + n) \in Seq(S) /\ Len(SubSeq(s, i + m + 1, i + n)) = n - m
      /\ \A k \in 1..(n - m) : SubSeq(s, i + m + 1, i + n)[k] = s[i + m + k]
  BY <1>1, SliceProperties
<1>6. ASSUME NEW k \in 1..(n - m)
      PROVE  SubSeq(t, m + 1, n)[k] = SubSeq(s, i + m + 1, i + n)[k]
  <2>1. m + k \in 1..(j - i) /\ i + (m + k) = i + m + k
    BY <1>1
  <2> QED
    BY <2>1, <1>2, <1>4, <1>5
<1>7. SubSeq(t, m + 1, n) = SubSeq(s, i + m + 1, i + n)
  BY <1>4, <1>5, <1>6, SeqEqual
<1> QED
  BY <1>7 DEF t

-----------------------------------------------------------------------------
\* How many bytes decode takes off the front of a buffer.
Taken(buf) ==
    IF Len(buf) < HeaderSize THEN 0
    ELSE IF buf[1] # Magic1 \/ buf[2] # Magic2 THEN 1
    ELSE IF buf[3] # Version \/ buf[5] > MaxPayload \/ Len(buf) < FrameSize(buf) THEN 0
    ELSE FrameSize(buf)

LEMMA BytesAreNumbers == \A b \in Byte : b \in Nat
BY DEF Byte

LEMMA SizeIsNat ==
    ASSUME NEW buf \in Seq(Byte), Len(buf) >= HeaderSize
    PROVE  /\ FrameSize(buf) \in Nat /\ FrameSize(buf) > HeaderSize
           /\ FrameSize(buf) = HeaderSize + buf[5] + ChecksumSize
           /\ buf[5] \in Nat /\ Len(buf) \in Nat
<1>1. Len(buf) \in Nat /\ 5 \in 1..Len(buf)
  BY LenProperties DEF HeaderSize
<1>2. buf[5] \in Byte
  BY <1>1, ElementOfSeq
<1>3. FrameSize(buf) = HeaderSize + buf[5] + ChecksumSize
  BY DEF FrameSize
<1>4. buf[5] \in Nat
  BY <1>2, BytesAreNumbers
<1> QED
  BY <1>1, <1>3, <1>4 DEF HeaderSize, ChecksumSize

(***************************************************************************)
(* decode, one branch at a time.                                           *)
(***************************************************************************)
Behind(buf) == SubSeq(buf, FrameSize(buf) + 1, Len(buf))
Inside(buf) == SubSeq(buf, HeaderSize + 1, FrameSize(buf) - 1)

HeaderGood(buf) ==
    /\ ~(Len(buf) < HeaderSize)
    /\ ~(buf[1] # Magic1 \/ buf[2] # Magic2)
    /\ ~(buf[3] # Version) /\ ~(buf[5] > MaxPayload)

Complete(buf) == HeaderGood(buf) /\ ~(Len(buf) < FrameSize(buf))

ChecksumGood(buf) == ~(buf[FrameSize(buf)] # crc8(SubSeq(buf, 1, FrameSize(buf) - 1)))

LEMMA DecodeCases ==
    ASSUME NEW buf
    PROVE  /\ Len(buf) < HeaderSize => Decode(buf) = None(buf)
           /\ ~(Len(buf) < HeaderSize) /\ (buf[1] # Magic1 \/ buf[2] # Magic2) =>
                 Decode(buf) = None(Tail(buf))
           /\ /\ ~(Len(buf) < HeaderSize) /\ ~(buf[1] # Magic1 \/ buf[2] # Magic2)
              /\ buf[3] # Version
              => Decode(buf) = Error("version", buf)
           /\ /\ ~(Len(buf) < HeaderSize) /\ ~(buf[1] # Magic1 \/ buf[2] # Magic2)
              /\ ~(buf[3] # Version) /\ buf[5] > MaxPayload
              => Decode(buf) = Error("too_large", buf)
           /\ HeaderGood(buf) /\ Len(buf) < FrameSize(buf) => Decode(buf) = None(buf)
           /\ Complete(buf) /\ ~ChecksumGood(buf) =>
                 Decode(buf) = Error("checksum", Behind(buf))
           /\ Complete(buf) /\ ChecksumGood(buf) =>
                 Decode(buf) = Parsed(buf[4], Inside(buf), Behind(buf))
BY Zenon DEF Decode, HeaderGood, Complete, ChecksumGood, Behind, Inside

\* The fields of the results.
LEMMA NoneFields ==
    ASSUME NEW r, NEW x, r = None(x)
    PROVE  r.kind = "none" /\ r.left = x
BY DEF None

LEMMA ErrorFields ==
    ASSUME NEW r, NEW e, NEW x, r = Error(e, x)
    PROVE  r.kind = "error" /\ r.left = x /\ r.error = e
BY DEF Error

LEMMA ParsedFields ==
    ASSUME NEW r, NEW x, NEW t, NEW p, r = Parsed(t, p, x)
    PROVE  r.kind = "packet" /\ r.left = x /\ r.type = t /\ r.payload = p
BY DEF Parsed

LEMMA KindsDiffer == "none" # "error" /\ "none" # "packet" /\ "error" # "packet"
OBVIOUS

LEMMA TakenCases ==
    ASSUME NEW buf
    PROVE  /\ Len(buf) < HeaderSize => Taken(buf) = 0
           /\ ~(Len(buf) < HeaderSize) /\ (buf[1] # Magic1 \/ buf[2] # Magic2) => Taken(buf) = 1
           /\ ~(Len(buf) < HeaderSize) /\ ~(buf[1] # Magic1 \/ buf[2] # Magic2)
              /\ (buf[3] # Version \/ buf[5] > MaxPayload) => Taken(buf) = 0
           /\ HeaderGood(buf) /\ Len(buf) < FrameSize(buf) => Taken(buf) = 0
           /\ Complete(buf) => Taken(buf) = FrameSize(buf)
BY Zenon DEF Taken, HeaderGood, Complete

\* The branches exclude each other and are all there are.
LEMMA OneBranch ==
    ASSUME NEW buf
    PROVE  \/ Len(buf) < HeaderSize
           \/ ~(Len(buf) < HeaderSize) /\ (buf[1] # Magic1 \/ buf[2] # Magic2)
           \/ /\ ~(Len(buf) < HeaderSize) /\ ~(buf[1] # Magic1 \/ buf[2] # Magic2)
              /\ buf[3] # Version
           \/ /\ ~(Len(buf) < HeaderSize) /\ ~(buf[1] # Magic1 \/ buf[2] # Magic2)
              /\ ~(buf[3] # Version) /\ buf[5] > MaxPayload
           \/ HeaderGood(buf) /\ Len(buf) < FrameSize(buf)
           \/ Complete(buf) /\ ~ChecksumGood(buf)
           \/ Complete(buf) /\ ChecksumGood(buf)
BY Zenon DEF HeaderGood, Complete

\* What decode leaves is what lies behind the bytes it takes.
LEMMA DecodeLeaves ==
    ASSUME NEW buf \in Seq(Byte)
    PROVE  /\ Taken(buf) \in 0..Len(buf)
           /\ Decode(buf).left = SubSeq(buf, Taken(buf) + 1, Len(buf))
           /\ Decode(buf).kind \in {"none", "error", "packet"}
<1>1. Len(buf) \in Nat /\ 0 \in 0..Len(buf) /\ 0 + 1 = 1 /\ 1 + 1 = 2
  BY LenProperties
<1>2. SubSeq(buf, 0 + 1, Len(buf)) = buf
  BY <1>1, SubSeqFull
<1>3. CASE Taken(buf) = 0 /\ Decode(buf) = None(buf)
  BY <1>1, <1>2, <1>3, NoneFields
<1>4. CASE Taken(buf) = 0 /\ \E e \in {"version", "too_large"} : Decode(buf) = Error(e, buf)
  <2>1. PICK e \in {"version", "too_large"} : Decode(buf) = Error(e, buf)
    BY <1>4
  <2>2. Decode(buf).left = buf /\ Decode(buf).kind = "error"
    BY <2>1, ErrorFields
  <2> QED
    BY <1>1, <1>2, <1>4, <2>2
<1>5. CASE ~(Len(buf) < HeaderSize) /\ (buf[1] # Magic1 \/ buf[2] # Magic2)
  <2>1. Decode(buf) = None(Tail(buf)) /\ Taken(buf) = 1
    BY <1>5, DecodeCases, TakenCases
  <2>2. Decode(buf).left = Tail(buf) /\ Decode(buf).kind = "none"
    BY <2>1, NoneFields
  <2>3. 1 \in 0..Len(buf) /\ buf # <<>>
    BY <1>1, <1>5, EmptySeq DEF HeaderSize
  <2> QED
    BY <1>1, <2>1, <2>2, <2>3, TailIsSubSeq
<1>6. CASE Complete(buf)
  <2>1. Taken(buf) = FrameSize(buf)
    BY <1>6, TakenCases
  <2>2. Len(buf) >= HeaderSize /\ ~(Len(buf) < FrameSize(buf))
    BY <1>1, <1>6 DEF Complete, HeaderGood, HeaderSize
  <2>3. FrameSize(buf) \in 0..Len(buf)
    BY <1>1, <2>2, SizeIsNat
  <2>4. \/ Decode(buf) = Error("checksum", Behind(buf))
        \/ Decode(buf) = Parsed(buf[4], Inside(buf), Behind(buf))
    BY <1>6, DecodeCases
  <2>5. Decode(buf).left = Behind(buf) /\ Decode(buf).kind \in {"error", "packet"}
    BY <2>4, ErrorFields, ParsedFields
  <2> QED
    BY <2>1, <2>3, <2>5 DEF Behind
<1> QED
  BY <1>3, <1>4, <1>5, <1>6, OneBranch, DecodeCases, TakenCases

\* A prefix of a prefix.
LEMMA PrefixOfPrefix ==
    ASSUME NEW S, NEW s \in Seq(S), NEW n \in 0..Len(s), NEW k \in 0..n, NEW m \in 0..k
    PROVE  SubSeq(SubSeq(s, 1, n), m + 1, k) = SubSeq(s, m + 1, k)
<1>1. Len(s) \in Nat /\ 0 \in 0..Len(s) /\ n \in 0..Len(s) /\ n - 0 = n /\ m \in 0..(n - 0)
      /\ k \in m..(n - 0) /\ 0 + 1 = 1 /\ 0 + m + 1 = m + 1 /\ 0 + k = k
  BY LenProperties
<1>2. SubSeq(SubSeq(s, 0 + 1, n), m + 1, k) = SubSeq(s, 0 + m + 1, 0 + k)
  BY <1>1, SliceOfSlice
<1> QED
  BY <1>1, <1>2

\* The result of decode, but for the bytes it leaves.
SameVerdict(r, q) ==
    /\ r.kind = q.kind
    /\ r.kind = "error" => r.error = q.error
    /\ r.kind = "packet" => r.type = q.type /\ r.payload = q.payload

(***************************************************************************)
(* decode waits, or does with the front of a buffer what it would do if    *)
(* the bytes that are yet to come were there already.                      *)
(***************************************************************************)
LEMMA DecodeLocal ==
    ASSUME NEW w \in Seq(Byte), NEW n \in 0..Len(w)
    PROVE  LET b == SubSeq(w, 1, n)
           IN  \/ Decode(b) = None(b)
               \/ Taken(b) = Taken(w) /\ SameVerdict(Decode(b), Decode(w))
<1> DEFINE b == SubSeq(w, 1, n)
<1>1. Len(w) \in Nat /\ n \in Nat /\ n <= Len(w)
  BY LenProperties
<1>2. b \in Seq(Byte) /\ Len(b) = n /\ \A k \in 1..n : b[k] = w[k]
  BY PrefixProperties
<1>3. CASE n < HeaderSize
  BY <1>2, <1>3, DecodeCases
<1>4. CASE n >= HeaderSize
  <2>1. b[1] = w[1] /\ b[2] = w[2] /\ b[3] = w[3] /\ b[4] = w[4] /\ b[5] = w[5]
    BY <1>2, <1>4 DEF HeaderSize
  <2> DEFINE size == FrameSize(w)
  <2>2. FrameSize(b) = size
    BY <2>1 DEF FrameSize
  <2>3. size \in Nat /\ size > HeaderSize
    BY <1>1, <1>4, SizeIsNat DEF HeaderSize
  <2>4. ~(Len(b) < HeaderSize) /\ ~(Len(w) < HeaderSize)
    BY <1>1, <1>2, <1>4 DEF HeaderSize
  <2> HIDE DEF size, b
  <2>5. CASE b[1] # Magic1 \/ b[2] # Magic2
    <3>1. Decode(b) = None(Tail(b)) /\ Decode(w) = None(Tail(w))
      BY <2>1, <2>4, <2>5, DecodeCases
    <3>2. Taken(b) = 1 /\ Taken(w) = 1
      BY <2>1, <2>4, <2>5, TakenCases
    <3>3. Decode(b).kind = "none" /\ Decode(w).kind = "none"
      BY <3>1, NoneFields
    <3> QED
      BY <3>2, <3>3, KindsDiffer DEF SameVerdict, b
  <2>6. CASE ~(b[1] # Magic1 \/ b[2] # Magic2) /\ (b[3] # Version \/ b[5] > MaxPayload)
    <3>1. \/ Decode(b) = Error("version", b) /\ Decode(w) = Error("version", w)
          \/ Decode(b) = Error("too_large", b) /\ Decode(w) = Error("too_large", w)
      BY <2>1, <2>4, <2>6, DecodeCases
    <3>2. /\ Decode(b).kind = "error" /\ Decode(w).kind = "error"
          /\ Decode(b).error = Decode(w).error
      <4>1. CASE Decode(b) = Error("version", b) /\ Decode(w) = Error("version", w)
        BY <4>1, ErrorFields
      <4>2. CASE Decode(b) = Error("too_large", b) /\ Decode(w) = Error("too_large", w)
        BY <4>2, ErrorFields
      <4> QED
        BY <3>1, <4>1, <4>2
    <3>3. Taken(b) = 0 /\ Taken(w) = 0
      BY <2>1, <2>4, <2>6, TakenCases
    <3> QED
      BY <3>2, <3>3, KindsDiffer DEF SameVerdict, b
  <2>7. CASE ~(b[1] # Magic1 \/ b[2] # Magic2) /\ ~(b[3] # Version \/ b[5] > MaxPayload)
    <3>0. HeaderGood(b) /\ HeaderGood(w)
      BY <2>1, <2>4, <2>7 DEF HeaderGood
    <3>1. CASE Len(b) < size
      <4>1. Decode(b) = None(b)
        BY <2>2, <3>0, <3>1, DecodeCases
      <4> QED
        BY <4>1 DEF b
    <3>2. CASE ~(Len(b) < size)
      <4>1. ~(Len(w) < size) /\ size \in 0..n /\ size - 1 \in 0..n /\ size \in 1..n
            /\ 0 \in 0..(size - 1) /\ HeaderSize \in 0..(size - 1)
        BY <1>1, <1>2, <2>3, <3>2 DEF HeaderSize
      <4>2. SubSeq(b, 0 + 1, size - 1) = SubSeq(w, 0 + 1, size - 1)
        BY <4>1, PrefixOfPrefix DEF b
      <4>3. Inside(b) = Inside(w)
        BY <2>2, <4>1, PrefixOfPrefix DEF b, Inside, size
      <4>4. b[size] = w[size] /\ SubSeq(b, 1, size - 1) = SubSeq(w, 1, size - 1)
        BY <1>2, <4>1, <4>2
      <4>5. Complete(b) /\ Complete(w)
        BY <2>2, <3>0, <3>2, <4>1 DEF Complete, size
      <4>6. Taken(b) = Taken(w)
        BY <2>2, <4>5, TakenCases DEF size
      <4>7. ChecksumGood(b) <=> ChecksumGood(w)
        BY <2>2, <4>4 DEF ChecksumGood, size
      <4>8. CASE ~ChecksumGood(b)
        <5>1. Decode(b) = Error("checksum", Behind(b)) /\ Decode(w) = Error("checksum", Behind(w))
          BY <4>5, <4>7, <4>8, DecodeCases
        <5>2. /\ Decode(b).kind = "error" /\ Decode(w).kind = "error"
              /\ Decode(b).error = Decode(w).error
          BY <5>1, ErrorFields
        <5> QED
          BY <4>6, <5>2, KindsDiffer DEF SameVerdict, b
      <4>9. CASE ChecksumGood(b)
        <5>1. /\ Decode(b) = Parsed(b[4], Inside(b), Behind(b))
              /\ Decode(w) = Parsed(w[4], Inside(w), Behind(w))
          BY <4>5, <4>7, <4>9, DecodeCases
        <5>2. /\ Decode(b).kind = "packet" /\ Decode(w).kind = "packet"
              /\ Decode(b).type = b[4] /\ Decode(w).type = w[4]
              /\ Decode(b).payload = Inside(b) /\ Decode(w).payload = Inside(w)
          BY <5>1, ParsedFields
        <5> QED
          BY <2>1, <4>3, <4>6, <5>2, KindsDiffer DEF SameVerdict, b
      <4> QED
        BY <4>8, <4>9
    <3> QED
      BY <3>1, <3>2
  <2> QED
    BY <2>5, <2>6, <2>7
<1> QED
  BY <1>1, <1>3, <1>4 DEF HeaderSize

-----------------------------------------------------------------------------
(***************************************************************************)
(* What decode takes for a packet is what Packet::serialize writes.        *)
(***************************************************************************)
Body(type, payload) == <<Magic1, Magic2, Version, type, Len(payload)>> \o payload

LEMMA BodyProperties ==
    ASSUME NEW t \in Nat, NEW p \in Seq(Nat)
    PROVE  /\ Body(t, p) \in Seq(Nat) /\ Len(Body(t, p)) = HeaderSize + Len(p)
           /\ Body(t, p)[1] = Magic1 /\ Body(t, p)[2] = Magic2 /\ Body(t, p)[3] = Version
           /\ Body(t, p)[4] = t /\ Body(t, p)[5] = Len(p)
           /\ \A k \in 1..Len(p) : Body(t, p)[HeaderSize + k] = p[k]
<1> DEFINE h == <<Magic1, Magic2, Version, t, Len(p)>>
<1>1. Len(p) \in Nat
  BY LenProperties
<1>2. /\ h \in Seq(Nat) /\ Len(h) = HeaderSize
      /\ h[1] = Magic1 /\ h[2] = Magic2 /\ h[3] = Version /\ h[4] = t /\ h[5] = Len(p)
  BY <1>1 DEF Magic1, Magic2, Version, HeaderSize
<1> HIDE DEF h
<1>3. /\ h \o p \in Seq(Nat) /\ Len(h \o p) = HeaderSize + Len(p)
      /\ \A k \in 1..(Len(h) + Len(p)) :
            (h \o p)[k] = IF k <= Len(h) THEN h[k] ELSE p[k - Len(h)]
  BY <1>2, ConcatProperties
<1>4. (h \o p)[1] = h[1] /\ (h \o p)[2] = h[2] /\ (h \o p)[3] = h[3] /\ (h \o p)[4] = h[4]
      /\ (h \o p)[5] = h[5]
  BY <1>1, <1>2, <1>3 DEF HeaderSize
<1>5. \A k \in 1..Len(p) : (h \o p)[HeaderSize + k] = p[k]
  BY <1>1, <1>2, <1>3 DEF HeaderSize
<1> QED
  BY <1>2, <1>3, <1>4, <1>5 DEF Body, h

\* The frame is its body and one byte more.
LEMMA FrameProperties ==
    ASSUME NEW t \in Nat, NEW p \in Seq(Nat)
    PROVE  /\ Len(Frame(t, p)) = HeaderSize + Len(p) + ChecksumSize
           /\ Len(Frame(t, p)) \in Nat
           /\ \A k \in 1..(HeaderSize + Len(p)) : Frame(t, p)[k] = Body(t, p)[k]
           /\ Frame(t, p)[HeaderSize + Len(p) + ChecksumSize] = crc8(Body(t, p))
           /\ Frame(t, p) \in Seq(Nat \cup {crc8(Body(t, p))})
<1> DEFINE c == crc8(Body(t, p))
           f == Append(Body(t, p), c)
<1>1. /\ Body(t, p) \in Seq(Nat \cup {c}) /\ Len(Body(t, p)) = HeaderSize + Len(p)
      /\ Len(p) \in Nat
  <2>1. Body(t, p) \in Seq(Nat) /\ Len(Body(t, p)) = HeaderSize + Len(p)
    BY BodyProperties
  <2>2. Body(t, p) \in Seq(Nat \cup {c})
    BY <2>1, SeqMonotonic
  <2> QED
    BY <2>1, <2>2, LenProperties
<1>2. Frame(t, p) = f
  BY DEF Frame, Body
<1> HIDE DEF c
<1>3. /\ f \in Seq(Nat \cup {c}) /\ Len(f) = Len(Body(t, p)) + 1
      /\ \A k \in 1..Len(Body(t, p)) : f[k] = Body(t, p)[k]
      /\ f[Len(Body(t, p)) + 1] = c
  BY <1>1, AppendProperties
<1> HIDE DEF f
<1> QED
  BY <1>1, <1>2, <1>3 DEF c, ChecksumSize, HeaderSize

\* The payload of a frame that is all there.
LEMMA PayloadProperties ==
    ASSUME NEW buf \in Seq(Byte), NEW m \in Nat, m = buf[5], HeaderSize + m <= Len(buf)
    PROVE  /\ PayloadOf(buf) \in Seq(Nat) /\ Len(PayloadOf(buf)) = m
           /\ \A k \in 1..m : PayloadOf(buf)[k] = buf[HeaderSize + k]
           /\ buf[4] \in Nat
<1> DEFINE n == HeaderSize + m
<1>1. /\ Len(buf) \in Nat /\ HeaderSize \in 0..Len(buf) /\ n \in HeaderSize..Len(buf)
      /\ n - HeaderSize = m /\ 4 \in 1..Len(buf)
  BY LenProperties DEF HeaderSize
<1>2. PayloadOf(buf) = SubSeq(buf, HeaderSize + 1, n)
  BY DEF PayloadOf
<1> HIDE DEF n
<1>3. /\ SubSeq(buf, HeaderSize + 1, n) \in Seq(Byte)
      /\ Len(SubSeq(buf, HeaderSize + 1, n)) = n - HeaderSize
      /\ \A k \in 1..(n - HeaderSize) : SubSeq(buf, HeaderSize + 1, n)[k] = buf[HeaderSize + k]
  BY <1>1, SliceProperties
<1>4. PayloadOf(buf) \in Seq(Nat)
  BY <1>2, <1>3, SeqMonotonic, BytesAreNumbers
<1>5. buf[4] \in Nat
  BY <1>1, ElementOfSeq, BytesAreNumbers
<1> QED
  BY <1>1, <1>2, <1>3, <1>4, <1>5

\* A buffer with a good header and all of a frame, and the frame that its type
\* and its payload make, agree up to the checksum.
LEMMA BodyOfBuffer ==
    ASSUME NEW buf \in Seq(Byte), HeaderGood(buf), Len(buf) >= FrameSize(buf)
    PROVE  /\ buf[4] \in Nat /\ PayloadOf(buf) \in Seq(Nat) /\ Len(PayloadOf(buf)) = buf[5]
           /\ PayloadOf(buf) = Inside(buf)
           /\ Body(buf[4], PayloadOf(buf)) = SubSeq(buf, 1, FrameSize(buf) - 1)
<1> DEFINE p == PayloadOf(buf)
           size == FrameSize(buf)
           b == SubSeq(buf, 1, size - 1)
<1>1. Len(buf) \in Nat /\ Len(buf) >= HeaderSize /\ buf \in Seq(Nat)
  BY LenProperties, SeqMonotonic, BytesAreNumbers DEF HeaderGood, HeaderSize
<1>2. buf[5] \in Nat /\ size = HeaderSize + buf[5] + ChecksumSize
  BY <1>1, SizeIsNat
<1>3. size - 1 = HeaderSize + buf[5] /\ size - 1 \in 0..Len(buf) /\ HeaderSize + buf[5] <= Len(buf)
  <2>1. Len(buf) >= size
    OBVIOUS
  <2> HIDE DEF size, b, p
  <2> QED
    BY <1>1, <1>2, <2>1 DEF ChecksumSize, HeaderSize
<1>4. p \in Seq(Nat) /\ Len(p) = buf[5] /\ \A k \in 1..buf[5] : p[k] = buf[HeaderSize + k]
  BY <1>2, <1>3, PayloadProperties
<1>5. buf[4] \in Nat
  BY <1>2, <1>3, PayloadProperties
<1>6. p = Inside(buf)
  BY <1>3 DEF PayloadOf, Inside
<1>7. b \in Seq(Nat) /\ Len(b) = size - 1 /\ \A k \in 1..(size - 1) : b[k] = buf[k]
  BY <1>1, <1>3, PrefixProperties
<1> HIDE DEF p, size, b
<1>8. /\ Body(buf[4], p) \in Seq(Nat) /\ Len(Body(buf[4], p)) = HeaderSize + Len(p)
      /\ Body(buf[4], p)[1] = Magic1 /\ Body(buf[4], p)[2] = Magic2
      /\ Body(buf[4], p)[3] = Version
      /\ Body(buf[4], p)[4] = buf[4] /\ Body(buf[4], p)[5] = Len(p)
      /\ \A k \in 1..Len(p) : Body(buf[4], p)[HeaderSize + k] = p[k]
  BY <1>4, <1>5, BodyProperties
<1>9. buf[1] = Magic1 /\ buf[2] = Magic2 /\ buf[3] = Version
  BY DEF HeaderGood
<1>10. ASSUME NEW k \in 1..(size - 1)
       PROVE  Body(buf[4], p)[k] = b[k]
  <2>1. CASE k <= HeaderSize
    <3>1. k = 1 \/ k = 2 \/ k = 3 \/ k = 4 \/ k = 5
      BY <2>1, <1>2, <1>3 DEF HeaderSize
    <3> QED
      BY <3>1, <1>4, <1>7, <1>8, <1>9
  <2>2. CASE k > HeaderSize
    <3>1. k - HeaderSize \in 1..buf[5] /\ HeaderSize + (k - HeaderSize) = k
      BY <2>2, <1>2, <1>3 DEF HeaderSize
    <3> QED
      BY <3>1, <1>4, <1>7, <1>8
  <2> QED
    BY <2>1, <2>2, <1>2 DEF HeaderSize
<1>11. Body(buf[4], p) = b
  BY <1>3, <1>4, <1>7, <1>8, <1>10, SeqEqual
<1> QED
  BY <1>4, <1>5, <1>6, <1>11 DEF p, b, size

\* decode takes a packet off the front of a buffer exactly when a frame is
\* there that Packet::serialize writes, and it returns what the frame was made
\* of: nothing that was sent is refused, and nothing else is accepted.
THEOREM DecodeFindsFrames ==
    ASSUME NEW buf \in Seq(Byte)
    PROVE  /\ Decode(buf).kind = "packet" <=> StartsWithFrame(buf)
           /\ StartsWithFrame(buf) =>
                 /\ Decode(buf).type = buf[4] /\ Decode(buf).payload = PayloadOf(buf)
                 /\ Taken(buf) = Len(FrameOf(buf))
<1> DEFINE t == buf[4]
           p == PayloadOf(buf)
           size == FrameSize(buf)
           f == Frame(t, p)
<1>1. Len(buf) \in Nat
  BY LenProperties
<1>2. ASSUME Complete(buf)
      PROVE  /\ t \in Nat /\ p \in Seq(Nat) /\ Len(p) = buf[5] /\ p = Inside(buf)
             /\ Body(t, p) = SubSeq(buf, 1, size - 1)
             /\ size = HeaderSize + buf[5] + ChecksumSize /\ size \in 1..Len(buf)
             /\ size = Len(f)
             /\ Len(buf) >= HeaderSize /\ buf[5] \in Nat
  <2>1. HeaderGood(buf) /\ Len(buf) >= HeaderSize
    BY <1>1, <1>2 DEF Complete, HeaderGood, HeaderSize
  <2>2. /\ size \in Nat /\ size > HeaderSize /\ size = HeaderSize + buf[5] + ChecksumSize
        /\ buf[5] \in Nat
    BY <2>1, SizeIsNat
  <2>3. Len(buf) >= size
    BY <1>1, <1>2, <2>2 DEF Complete
  <2>4. /\ t \in Nat /\ p \in Seq(Nat) /\ Len(p) = buf[5] /\ p = Inside(buf)
        /\ Body(t, p) = SubSeq(buf, 1, size - 1)
    BY <2>1, <2>3, BodyOfBuffer
  <2>5. Len(f) = HeaderSize + Len(p) + ChecksumSize
    BY <2>4, FrameProperties
  <2> QED
    BY <1>1, <2>1, <2>2, <2>3, <2>4, <2>5 DEF HeaderSize
<1>3. ASSUME Complete(buf), ChecksumGood(buf)
      PROVE  StartsWithFrame(buf)
  <2>1. /\ f \in Seq(Nat \cup {crc8(Body(t, p))})
        /\ \A k \in 1..(HeaderSize + Len(p)) : f[k] = Body(t, p)[k]
        /\ f[HeaderSize + Len(p) + ChecksumSize] = crc8(Body(t, p))
    BY <1>2, <1>3, FrameProperties
  <2>2. \A k \in 1..(size - 1) : SubSeq(buf, 1, size - 1)[k] = buf[k]
    <3>1. size - 1 \in 0..Len(buf)
      BY <1>1, <1>2, <1>3
    <3> QED
      BY <3>1, PrefixProperties
  <2>3. buf[size] = crc8(SubSeq(buf, 1, size - 1))
    BY <1>3 DEF ChecksumGood
  <2>4. ASSUME NEW k \in 1..size
        PROVE  f[k] = buf[k]
    <3>1. CASE k = size
      BY <3>1, <1>2, <1>3, <2>1, <2>3
    <3>2. CASE k # size
      <4>1. k \in 1..(size - 1) /\ size - 1 = HeaderSize + Len(p)
        BY <3>2, <1>2, <1>3 DEF HeaderSize, ChecksumSize
      <4>2. f[k] = Body(t, p)[k]
        BY <4>1, <2>1
      <4> QED
        BY <4>1, <4>2, <1>2, <1>3, <2>2
    <3> QED
      BY <3>1, <3>2
  <2>5. SubSeq(buf, 1, Len(f)) = f
    <3>1. size \in 0..Len(buf)
      BY <1>1, <1>2, <1>3
    <3>2. /\ SubSeq(buf, 1, size) \in Seq(Byte) /\ Len(SubSeq(buf, 1, size)) = size
          /\ \A k \in 1..size : SubSeq(buf, 1, size)[k] = buf[k]
      BY <3>1, PrefixProperties
    <3> DEFINE S == Nat \cup {crc8(Body(t, p))}
    <3>3. SubSeq(buf, 1, size) \in Seq(S)
      <4>1. Byte \subseteq S
        BY BytesAreNumbers
      <4> HIDE DEF S, size
      <4> QED
        BY <3>2, <4>1, SeqMonotonic
    <3>4. f \in Seq(S) /\ Len(f) = size
      BY <1>2, <1>3, <2>1
    <3> HIDE DEF S, f, size
    <3>5. /\ Len(SubSeq(buf, 1, size)) = size
          /\ \A k \in 1..size : SubSeq(buf, 1, size)[k] = f[k]
      BY <2>4, <3>1, <3>2
    <3> QED
      BY <3>3, <3>4, <3>5, SeqEqual
  <2>6. buf[5] <= MaxPayload
    <3>1. ~(buf[5] > MaxPayload)
      BY <1>3 DEF Complete, HeaderGood
    <3> QED
      BY <3>1, <1>2, <1>3, PayloadAssumption
  <2> QED
    BY <1>1, <1>2, <1>3, <2>5, <2>6 DEF StartsWithFrame, FrameOf
<1>4. ASSUME StartsWithFrame(buf)
      PROVE  Complete(buf) /\ ChecksumGood(buf)
  <2>1. /\ Len(buf) >= HeaderSize /\ buf[5] <= MaxPayload
        /\ Len(buf) >= HeaderSize + buf[5] + ChecksumSize /\ SubSeq(buf, 1, Len(f)) = f
    BY <1>4 DEF StartsWithFrame, FrameOf
  <2>2. /\ size \in Nat /\ size > HeaderSize /\ size = HeaderSize + buf[5] + ChecksumSize
        /\ buf[5] \in Nat
    BY <2>1, SizeIsNat
  <2>3. /\ t \in Nat /\ p \in Seq(Nat) /\ Len(p) = buf[5]
    <3>1. HeaderSize + buf[5] <= Len(buf)
      BY <1>1, <2>1, <2>2 DEF HeaderSize, ChecksumSize
    <3> QED
      BY <2>2, <3>1, PayloadProperties
  <2>4. /\ Len(f) = size
        /\ \A k \in 1..(HeaderSize + Len(p)) : f[k] = Body(t, p)[k]
        /\ f[HeaderSize + Len(p) + ChecksumSize] = crc8(Body(t, p))
    <3> HIDE DEF t, p
    <3>1. Len(f) = HeaderSize + Len(p) + ChecksumSize
      BY <2>3, FrameProperties
    <3> QED
      BY <2>2, <2>3, <3>1, FrameProperties
  <2>5. \A k \in 1..size : f[k] = buf[k]
    <3>1. size \in 0..Len(buf)
      BY <1>1, <2>1, <2>2 DEF HeaderSize
    <3>2. \A k \in 1..size : SubSeq(buf, 1, size)[k] = buf[k]
      BY <3>1, PrefixProperties
    <3> QED
      BY <3>2, <2>1, <2>4
  <2>6. buf[1] = Magic1 /\ buf[2] = Magic2 /\ buf[3] = Version
    <3>1. /\ Body(t, p)[1] = Magic1 /\ Body(t, p)[2] = Magic2 /\ Body(t, p)[3] = Version
      BY <2>3, BodyProperties
    <3>2. 1 \in 1..size /\ 2 \in 1..size /\ 3 \in 1..size
          /\ 1 \in 1..(HeaderSize + Len(p)) /\ 2 \in 1..(HeaderSize + Len(p))
          /\ 3 \in 1..(HeaderSize + Len(p))
      BY <2>2, <2>3 DEF HeaderSize
    <3> QED
      BY <3>1, <3>2, <2>4, <2>5
  <2>7. HeaderGood(buf) /\ ~(Len(buf) < size) /\ Len(buf) >= size
    BY <1>1, <2>1, <2>2, <2>6, PayloadAssumption DEF HeaderGood, HeaderSize
  <2>8. Body(t, p) = SubSeq(buf, 1, size - 1)
    BY <2>7, BodyOfBuffer
  <2>9. buf[size] = crc8(SubSeq(buf, 1, size - 1))
    <3>1. size \in 1..size /\ size = HeaderSize + Len(p) + ChecksumSize
      BY <2>2, <2>3 DEF HeaderSize
    <3> QED
      BY <3>1, <2>4, <2>5, <2>8
  <2> QED
    BY <2>7, <2>9 DEF Complete, ChecksumGood
<1>5. Complete(buf) /\ ChecksumGood(buf) => Decode(buf) = Parsed(t, Inside(buf), Behind(buf))
  BY DecodeCases
<1>6. ASSUME Decode(buf).kind = "packet"
      PROVE  Complete(buf) /\ ChecksumGood(buf)
  <2>1. ASSUME Decode(buf) = None(buf) \/ Decode(buf) = None(Tail(buf))
        PROVE  FALSE
    BY <1>6, <2>1, NoneFields, KindsDiffer
  <2>2. ASSUME NEW e, NEW x, Decode(buf) = Error(e, x)
        PROVE  FALSE
    BY <1>6, <2>2, ErrorFields, KindsDiffer
  <2> QED
    BY <2>1, <2>2, OneBranch, DecodeCases
<1>7. ASSUME StartsWithFrame(buf)
      PROVE  /\ Decode(buf).kind = "packet"
             /\ Decode(buf).type = t /\ Decode(buf).payload = p /\ Taken(buf) = Len(FrameOf(buf))
  <2>1. Complete(buf) /\ Decode(buf) = Parsed(t, Inside(buf), Behind(buf))
    BY <1>4, <1>5, <1>7
  <2>2. /\ Decode(buf).kind = "packet" /\ Decode(buf).type = t
        /\ Decode(buf).payload = Inside(buf)
    BY <2>1, ParsedFields
  <2>3. Taken(buf) = size
    BY <2>1, TakenCases
  <2> QED
    BY <1>2, <2>1, <2>2, <2>3 DEF FrameOf
<1> QED
  BY <1>3, <1>6, <1>7

\* No frame of the plugin is a packet to the relay, whatever is in it and
\* whatever follows: decode takes its first byte for one that begins no frame.
THEOREM PluginFramesAreSkipped ==
    ASSUME NEW t \in Byte, NEW p \in Seq(Byte), NEW more \in Seq(Byte)
    PROVE  LET buf == PluginFrame(t, p) \o more
           IN  Decode(buf) = None(Tail(buf))
<1> DEFINE h == <<Magic2, Magic1, Version, t, Len(p)>>
           c == CalculateCRC8(h \o p)
           S == Nat \cup {c}
           f == Append(h \o p, c)
           buf == f \o more
<1>1. Len(p) \in Nat /\ Len(more) \in Nat /\ t \in Nat
  BY LenProperties, BytesAreNumbers
<1>2. h \in Seq(Nat) /\ Len(h) = HeaderSize /\ h[1] = Magic2
  BY <1>1 DEF Magic1, Magic2, Version, HeaderSize
<1>3. PluginFrame(t, p) = f
  BY DEF PluginFrame
<1> HIDE DEF h, c
<1>4. p \in Seq(S) /\ more \in Seq(S) /\ h \in Seq(S) /\ c \in S
  <2>1. Byte \subseteq S /\ Nat \subseteq S /\ c \in S
    BY BytesAreNumbers
  <2> HIDE DEF S
  <2> QED
    BY <1>2, <2>1, SeqMonotonic
<1> HIDE DEF S
<1>5. /\ h \o p \in Seq(S) /\ Len(h \o p) = HeaderSize + Len(p)
      /\ (h \o p)[1] = Magic2
  <2>1. /\ h \o p \in Seq(S) /\ Len(h \o p) = Len(h) + Len(p)
        /\ \A k \in 1..(Len(h) + Len(p)) : (h \o p)[k] = IF k <= Len(h) THEN h[k] ELSE p[k - Len(h)]
    BY <1>4, ConcatProperties
  <2> QED
    BY <1>1, <1>2, <2>1 DEF HeaderSize
<1>6. f \in Seq(S) /\ Len(f) = HeaderSize + Len(p) + 1 /\ f[1] = Magic2
  <2>1. /\ f \in Seq(S) /\ Len(f) = Len(h \o p) + 1
        /\ \A k \in 1..Len(h \o p) : f[k] = (h \o p)[k]
    BY <1>4, <1>5, AppendProperties
  <2> QED
    BY <1>1, <1>5, <2>1 DEF HeaderSize
<1> HIDE DEF f
<1>7. Len(buf) = HeaderSize + Len(p) + 1 + Len(more) /\ buf[1] = Magic2
  <2>1. /\ Len(buf) = Len(f) + Len(more)
        /\ \A k \in 1..(Len(f) + Len(more)) : buf[k] = IF k <= Len(f) THEN f[k] ELSE more[k - Len(f)]
    BY <1>4, <1>6, ConcatProperties
  <2> QED
    BY <1>1, <1>6, <2>1 DEF HeaderSize
<1> HIDE DEF buf
<1>8. ~(Len(buf) < HeaderSize) /\ buf[1] # Magic1
  BY <1>1, <1>7 DEF HeaderSize, Magic1, Magic2
<1>9. Decode(buf) = None(Tail(buf))
  BY <1>8, DecodeCases
<1> QED
  BY <1>3, <1>9 DEF buf

-----------------------------------------------------------------------------
(***************************************************************************)
(* The buffer is the slice of the stream from at to pos.                   *)
(***************************************************************************)
at == pos - Len(buffer)

Slice ==
    /\ stream \in Streams
    /\ pos \in 0..Len(stream.bytes)
    /\ buffer \in Seq(Byte)
    /\ Len(buffer) <= pos /\ buffer = SubSeq(stream.bytes, at + 1, pos)

\* A decode loop runs only while the connection lives.
Turns == turn => phase # "dead"

Inv == TypeOK /\ Slice /\ Turns

LEMMA BytesOfStream ==
    ASSUME stream \in Streams
    PROVE  stream.bytes \in Seq(Byte) /\ Len(stream.bytes) \in Nat
<1>1. stream.bytes \in Seq(Byte)
  BY StreamsAssumption
<1> QED
  BY <1>1, LenProperties

\* What is buffered is the front of what is ahead.
LEMMA BufferIsFront ==
    ASSUME Slice
    PROVE  /\ at \in 0..Len(stream.bytes) /\ Len(buffer) \in Nat /\ pos = at + Len(buffer)
           /\ Rest(stream, at) \in Seq(Byte)
           /\ Len(Rest(stream, at)) = Len(stream.bytes) - at
           /\ Len(buffer) \in 0..Len(Rest(stream, at))
           /\ buffer = SubSeq(Rest(stream, at), 1, Len(buffer))
<1> DEFINE b == stream.bytes
           n == Len(buffer)
<1>1. b \in Seq(Byte) /\ Len(b) \in Nat /\ n \in Nat /\ pos \in 0..Len(b) /\ n <= pos
  BY BytesOfStream, LenProperties DEF Slice
<1>2. /\ at \in 0..Len(b) /\ pos = at + n /\ Len(b) \in at..Len(b) /\ n \in 0..(Len(b) - at)
      /\ 0 \in 0..(Len(b) - at) /\ n \in 0..(Len(b) - at) /\ at + 0 + 1 = at + 1 /\ 0 + 1 = 1
  BY <1>1 DEF at
<1>3. SubSeq(b, at + 1, Len(b)) \in Seq(Byte) /\ Len(SubSeq(b, at + 1, Len(b))) = Len(b) - at
  BY <1>1, <1>2, SliceProperties
<1>4. SubSeq(SubSeq(b, at + 1, Len(b)), 0 + 1, n) = SubSeq(b, at + 0 + 1, at + n)
  BY <1>1, <1>2, SliceOfSlice
<1>5. buffer = SubSeq(b, at + 1, pos)
  BY DEF Slice
<1> HIDE DEF b, n
<1>6. buffer = SubSeq(SubSeq(b, at + 1, Len(b)), 1, n)
  BY <1>2, <1>4, <1>5
<1> QED
  BY <1>1, <1>2, <1>3, <1>6 DEF b, n, Rest

\* A turn of the loop takes bytes off the front of the slice.
LEMMA TurnTakes ==
    ASSUME Slice, buffer' = Decode(buffer).left, UNCHANGED <<stream, pos>>
    PROVE  Slice' /\ at' = at + Taken(buffer) /\ Taken(buffer) \in 0..Len(buffer)
<1> DEFINE b == stream.bytes
           n == Len(buffer)
           k == Taken(buffer)
<1>1. b \in Seq(Byte) /\ Len(b) \in Nat /\ n \in Nat /\ pos \in 0..Len(b) /\ n <= pos
      /\ buffer \in Seq(Byte) /\ buffer = SubSeq(b, at + 1, pos)
  BY BytesOfStream, LenProperties DEF Slice
<1>2. k \in 0..n /\ buffer' = SubSeq(buffer, k + 1, n)
  BY <1>1, DecodeLeaves
<1> HIDE DEF k, n, b
<1>3. /\ at \in 0..Len(b) /\ pos = at + n /\ pos \in at..Len(b) /\ n \in k..(pos - at)
      /\ k \in 0..(pos - at) /\ n \in k..n
  BY <1>1, <1>2 DEF at, n
<1>4. SubSeq(SubSeq(b, at + 1, pos), k + 1, n) = SubSeq(b, at + k + 1, at + n)
  BY <1>1, <1>3, SliceOfSlice
<1>5. buffer' \in Seq(Byte) /\ Len(buffer') = n - k
  <2>1. SubSeq(buffer, k + 1, n) \in Seq(Byte) /\ Len(SubSeq(buffer, k + 1, n)) = n - k
    BY <1>1, <1>2, <1>3, SliceProperties DEF n
  <2> QED
    BY <1>2, <2>1
<1>6. at' = at + k /\ at + k + 1 = at' + 1 /\ n - k <= pos
  <2>1. at' = pos - (n - k)
    BY <1>5 DEF at
  <2> QED
    BY <1>1, <1>2, <1>3, <2>1
<1>7. Len(buffer') <= pos' /\ buffer' = SubSeq(b, at' + 1, pos')
  <2>1. buffer' = SubSeq(b, at + k + 1, at + n)
    BY <1>1, <1>2, <1>4
  <2> QED
    BY <1>3, <1>5, <1>6, <2>1
<1>8. stream' \in Streams /\ pos' \in 0..Len(stream'.bytes)
  BY DEF Slice
<1> QED
  BY <1>2, <1>5, <1>6, <1>7, <1>8 DEF Slice, b, k, n

\* A read adds at the end of the slice.
LEMMA SliceGrows ==
    ASSUME NEW b \in Seq(Byte), NEW i \in 0..Len(b), NEW j \in i..Len(b), NEW k \in j..Len(b)
    PROVE  /\ SubSeq(b, i + 1, j) \o SubSeq(b, j + 1, k) = SubSeq(b, i + 1, k)
           /\ SubSeq(b, i + 1, k) \in Seq(Byte) /\ Len(SubSeq(b, i + 1, k)) = k - i
<1> DEFINE m == i + 1
<1>1. Len(b) \in Nat /\ m \in 1..(Len(b) + 1) /\ j \in (m - 1)..Len(b) /\ k \in i..Len(b)
  BY LenProperties
<1>2. SubSeq(b, i + 1, k) \in Seq(Byte) /\ Len(SubSeq(b, i + 1, k)) = k - i
  BY <1>1, SliceProperties
<1> HIDE DEF m
<1>3. SubSeq(b, m, j) \o SubSeq(b, j + 1, k) = SubSeq(b, m, k)
  BY <1>1, ConcatAdjacentSubSeq
<1> QED
  BY <1>2, <1>3 DEF m

LEMMA ReadAdds ==
    ASSUME Slice, NEW n \in 1..MaxRead, Read(n)
    PROVE  Slice' /\ at' = at
<1> DEFINE b == stream.bytes
           j == pos + n
<1>1. b \in Seq(Byte) /\ Len(b) \in Nat /\ Len(buffer) \in Nat /\ pos \in 0..Len(b)
      /\ Len(buffer) <= pos /\ buffer \in Seq(Byte) /\ buffer = SubSeq(b, at + 1, pos)
  BY BytesOfStream, LenProperties DEF Slice
<1>2. /\ j <= Len(b) /\ pos' = j /\ stream' = stream
      /\ buffer' = buffer \o SubSeq(b, pos + 1, j) /\ n \in Nat
  BY ReadAssumption DEF Read
<1> HIDE DEF b
<1>3. at \in 0..Len(b) /\ pos \in at..Len(b) /\ j \in pos..Len(b) /\ j \in 0..Len(b)
      /\ j - at = Len(buffer) + n
  BY <1>1, <1>2 DEF at
<1> HIDE DEF j
<1>4. buffer' = SubSeq(b, at + 1, j) /\ buffer' \in Seq(Byte) /\ Len(buffer') = j - at
  BY <1>1, <1>2, <1>3, SliceGrows
<1>5. at' = at /\ Len(buffer') <= j
  <2>1. at' = j - (j - at)
    <3>1. pos' = j /\ Len(buffer') = j - at
      BY <1>2, <1>4
    <3> QED
      BY <3>1 DEF at
  <2>2. at \in Int /\ j \in Int /\ at >= 0
    BY <1>1, <1>3
  <2> QED
    BY <1>4, <2>1, <2>2
<1>6. stream' \in Streams /\ pos' \in 0..Len(stream'.bytes)
  BY <1>2, <1>3 DEF Slice, b
<1>7. buffer' = SubSeq(stream'.bytes, at' + 1, pos') /\ Len(buffer') <= pos'
  BY <1>2, <1>4, <1>5 DEF b
<1> QED
  BY <1>4, <1>5, <1>6, <1>7 DEF Slice

\* The errors of decode.
LEMMA DecodeErrors ==
    ASSUME NEW buf, Decode(buf).kind = "error"
    PROVE  Decode(buf).error \in {"version", "too_large", "checksum"}
<1>1. ASSUME NEW x, Decode(buf) = None(x) PROVE FALSE
  BY <1>1, NoneFields, KindsDiffer
<1>2. ASSUME NEW x, NEW t, NEW p, Decode(buf) = Parsed(t, p, x) PROVE FALSE
  BY <1>2, ParsedFields, KindsDiffer
<1>3. \E e \in {"version", "too_large", "checksum"} : \E x : Decode(buf) = Error(e, x)
  BY <1>1, <1>2, OneBranch, DecodeCases
<1> QED
  BY <1>3, ErrorFields

LEMMA InitInv == Init => Inv
<1> SUFFICES ASSUME Init PROVE Inv
  OBVIOUS
<1>1. /\ stream \in Streams /\ pos = 0 /\ buffer = <<>> /\ phase = "handshake"
      /\ turn = FALSE /\ cause = "none"
  BY DEF Init
<1>2. Len(stream.bytes) \in Nat /\ 0 \in 0..Len(stream.bytes)
  BY <1>1, BytesOfStream
<1>3. Len(buffer) = 0 /\ buffer \in Seq(Byte) /\ at = 0
  <2>1. buffer \in Seq(Byte) /\ Len(buffer) = 0
    BY <1>1, EmptySeq
  <2>2. pos = 0
    BY <1>1
  <2> QED
    BY <2>1, <2>2 DEF at
<1>4. SubSeq(stream.bytes, at + 1, pos) = <<>>
  BY <1>1, <1>3, SubSeqEmpty
<1>5. Slice
  BY <1>1, <1>2, <1>3, <1>4 DEF Slice
<1>6. TypeOK
  BY <1>1, <1>2, <1>5 DEF TypeOK, Slice, at
<1> QED
  BY <1>1, <1>5, <1>6 DEF Inv, Turns

\* The part of TypeOK that Slice does not say.
Phases ==
    /\ phase \in {"handshake", "loop", "dead"}
    /\ turn \in BOOLEAN
    /\ cause \in {"none", "timeout", "closed", "version", "too_large", "checksum", "parse"}
    /\ (cause = "none") = (phase # "dead")

LEMMA TypeParts == Inv <=> Slice /\ Phases /\ Turns
BY DEF Inv, TypeOK, Slice, Phases, at

LEMMA TypePartsNext == Inv' <=> Slice' /\ Phases' /\ Turns'
BY DEF Inv, TypeOK, Slice, Phases, at

LEMMA NextInv == Inv /\ [Next]_vars => Inv'
<1> SUFFICES ASSUME Inv, [Next]_vars PROVE Inv'
  OBVIOUS
<1>0. Slice /\ Phases /\ Turns
  BY TypeParts
<1>1. ASSUME NEW n \in 1..MaxRead, Read(n) PROVE Inv'
  <2>1. Slice'
    BY <1>0, <1>1, ReadAdds
  <2>2. Phases' /\ Turns'
    BY <1>0, <1>1 DEF Read, Phases, Turns
  <2> QED
    BY <2>1, <2>2, TypePartsNext
<1>2. ASSUME Tick \/ HandshakeTimeout \/ PeerCloses PROVE Inv'
  <2>1. UNCHANGED <<stream, pos, buffer>>
    BY <1>2 DEF Tick, HandshakeTimeout, PeerCloses
  <2>2. Slice'
    BY <1>0, <2>1 DEF Slice, at
  <2>3. Phases' /\ Turns'
    BY <1>0, <1>2 DEF Tick, HandshakeTimeout, PeerCloses, Phases, Turns
  <2> QED
    BY <2>2, <2>3, TypePartsNext
<1>3. ASSUME DecodeNone \/ DecodeError \/ DecodeBeforeHandshake \/ DecodeInLoop PROVE Inv'
  <2>1. buffer' = Decode(buffer).left /\ UNCHANGED <<stream, pos>>
    BY <1>3 DEF DecodeNone, DecodeError, DecodeBeforeHandshake, DecodeInLoop
  <2>2. Slice'
    BY <1>0, <2>1, TurnTakes
  <2>3. Phases' /\ Turns'
    <3>1. CASE DecodeNone
      BY <1>0, <3>1 DEF DecodeNone, Phases, Turns
    <3>2. CASE DecodeError
      <4>1. cause' \in {"version", "too_large", "checksum"}
        BY <3>2, DecodeErrors DEF DecodeError
      <4> QED
        BY <1>0, <3>2, <4>1 DEF DecodeError, Phases, Turns
    <3>3. CASE DecodeBeforeHandshake
      BY <1>0, <3>3 DEF DecodeBeforeHandshake, Phases, Turns
    <3>4. CASE DecodeInLoop
      BY <1>0, <3>4 DEF DecodeInLoop, Phases, Turns
    <3> QED
      BY <1>3, <3>1, <3>2, <3>3, <3>4
  <2> QED
    BY <2>2, <2>3, TypePartsNext
<1>4. ASSUME UNCHANGED vars PROVE Inv'
  BY <1>4 DEF vars, Inv, TypeOK, Slice, Turns, at
<1> QED
  BY <1>1, <1>2, <1>3, <1>4 DEF Next

LEMMA InvHolds == Spec => []Inv
BY InitInv, NextInv, PTL DEF Spec

\* The buffer is always the part of what was read that no packet has consumed
\* yet: no byte is lost between two reads, or left over by a packet.
THEOREM TypeCorrect == Spec => []TypeOK
<1>1. Inv => TypeOK
  BY DEF Inv
<1> QED
  BY <1>1, InvHolds, PTL

-----------------------------------------------------------------------------
(***************************************************************************)
(* Decoder implements WholeStream.                                         *)
(***************************************************************************)
LEMMA SameChecksum ==
    ASSUME NEW b
    PROVE  Whole!crc8(b) = crc8(b)
BY Zenon DEF Whole!crc8, crc8, Whole!CRC8_TABLE, CRC8_TABLE, Whole!Xor, Xor, Whole!Byte, Byte

LEMMA SameDecode ==
    ASSUME NEW b
    PROVE  Whole!Decode(b) = Decode(b)
BY SameChecksum, Zenon DEF Whole!Decode, Decode, Whole!None, None, Whole!Error, Error, Whole!Parsed, Parsed,
       Whole!FrameSize, FrameSize, Whole!HeaderSize, HeaderSize, Whole!ChecksumSize, ChecksumSize,
       Whole!Magic1, Magic1, Whole!Magic2, Magic2, Whole!Version, Version

LEMMA SameNames ==
    /\ Whole!Ahead = Rest(stream, at) /\ Whole!Handshake = Handshake /\ Whole!Sound = Sound
    /\ Whole!BadUtf8 = BadUtf8
BY DEF Whole!Ahead, Whole!Rest, Rest, at, Whole!Handshake, Handshake, Whole!Sound, Sound,
       Whole!BadUtf8, BadUtf8

\* A turn that takes something takes what it would take of all that is ahead,
\* and makes of it what it would make of it there.
LEMMA TurnIsWhole ==
    ASSUME Slice, buffer' = Decode(buffer).left, UNCHANGED <<stream, pos>>
    PROVE  \/ at' = at /\ Decode(buffer).kind = "none"
           \/ /\ at' = Len(stream.bytes) - Len(Decode(Rest(stream, at)).left)
              /\ SameVerdict(Decode(buffer), Decode(Rest(stream, at)))
<1> DEFINE w == Rest(stream, at)
           n == Len(buffer)
<1>1. /\ at \in 0..Len(stream.bytes) /\ Len(stream.bytes) \in Nat /\ w \in Seq(Byte)
      /\ Len(w) = Len(stream.bytes) - at /\ n \in 0..Len(w) /\ buffer = SubSeq(w, 1, n)
  BY BufferIsFront, BytesOfStream DEF Slice
<1>2. at' = at + Taken(buffer) /\ Taken(buffer) \in 0..n
  BY TurnTakes
<1> HIDE DEF w, n
<1>3. \/ Decode(buffer) = None(buffer)
      \/ Taken(buffer) = Taken(w) /\ SameVerdict(Decode(buffer), Decode(w))
  <2> DEFINE b == SubSeq(w, 1, n)
  <2>1. \/ Decode(b) = None(b)
        \/ Taken(b) = Taken(w) /\ SameVerdict(Decode(b), Decode(w))
    BY <1>1, DecodeLocal
  <2>2. b = buffer
    BY <1>1
  <2> HIDE DEF b
  <2> QED
    BY <2>1, <2>2
<1>4. CASE Decode(buffer) = None(buffer)
  <2>1. Decode(buffer).kind = "none" /\ buffer' = buffer
    BY <1>4, NoneFields
  <2>2. at' = at
    BY <2>1 DEF at
  <2> QED
    BY <2>1, <2>2
<1>5. CASE Taken(buffer) = Taken(w) /\ SameVerdict(Decode(buffer), Decode(w))
  <2>1. Taken(w) \in 0..Len(w) /\ Decode(w).left = SubSeq(w, Taken(w) + 1, Len(w))
    BY <1>1, DecodeLeaves
  <2>2. Len(w) \in Taken(w)..Len(w) /\ Len(w) \in Nat
    BY <1>1, <2>1
  <2>3. Len(Decode(w).left) = Len(w) - Taken(w)
    BY <1>1, <2>1, <2>2, SliceProperties
  <2>4. at' = Len(stream.bytes) - Len(Decode(w).left)
    BY <1>1, <1>2, <1>5, <2>1, <2>3
  <2> QED
    BY <1>5, <2>4 DEF w
<1> QED
  BY <1>3, <1>4, <1>5

\* One step of the decoder is one of WholeStream, or none.
LEMMA StepIsWhole ==
    ASSUME Slice, Turns, [Next]_vars
    PROVE  [Whole!WholeNext]_(Whole!wholeVars)
<1>w. UNCHANGED <<stream, at, phase, cause, handled>> => UNCHANGED Whole!wholeVars
  BY DEF Whole!wholeVars, at
<1>1. ASSUME NEW n \in 1..MaxRead, Read(n)
      PROVE  UNCHANGED Whole!wholeVars
  BY <1>1, <1>w, ReadAdds DEF Read
<1>2. ASSUME Tick \/ UNCHANGED vars
      PROVE  UNCHANGED Whole!wholeVars
  BY <1>2, <1>w DEF Tick, vars, at
<1>3. ASSUME HandshakeTimeout \/ PeerCloses
      PROVE  Whole!End
  BY <1>3 DEF HandshakeTimeout, PeerCloses, Whole!End
<1> DEFINE w == Rest(stream, at)
           taken == at' = Len(stream.bytes) - Len(Decode(w).left)
           same == SameVerdict(Decode(buffer), Decode(w))
<1>t. taken <=> Whole!Take(Decode(w))
  BY DEF Whole!Take, at
<1>r. Whole!Decode(Whole!Ahead) = Decode(w)
  BY SameDecode, SameNames
<1>4. ASSUME DecodeNone \/ DecodeError \/ DecodeBeforeHandshake \/ DecodeInLoop
      PROVE  /\ (at' = at /\ Decode(buffer).kind = "none") \/ (taken /\ same)
             /\ phase # "dead" /\ stream' = stream
  <2>1. buffer' = Decode(buffer).left /\ UNCHANGED <<stream, pos>> /\ turn
    BY <1>4 DEF DecodeNone, DecodeError, DecodeBeforeHandshake, DecodeInLoop
  <2>2. (at' = at /\ Decode(buffer).kind = "none") \/ (taken /\ same)
    BY <2>1, TurnIsWhole
  <2> HIDE DEF taken, same
  <2> QED
    BY <2>1, <2>2 DEF Turns
<1> HIDE DEF w, taken
<1>5. ASSUME DecodeNone
      PROVE  [Whole!WholeNext]_(Whole!wholeVars)
  <2>1. CASE at' = at
    BY <2>1, <1>5, <1>w DEF DecodeNone
  <2>2. CASE taken /\ same
    <3>1. Decode(w).kind = "none"
      BY <2>2, <1>5 DEF DecodeNone, SameVerdict
    <3>2. Whole!Skip
      BY <2>2, <1>4, <1>5, <1>r, <1>t, <3>1 DEF DecodeNone, Whole!Skip
    <3> QED
      BY <3>2 DEF Whole!WholeNext
  <2> QED
    BY <1>4, <1>5, <2>1, <2>2
<1>6. ASSUME DecodeError
      PROVE  Whole!Refuse
  <2>1. Decode(buffer).kind = "error"
    BY <1>6 DEF DecodeError
  <2>2. taken /\ same
    BY <1>4, <1>6, <2>1, KindsDiffer
  <2>3. Decode(w).kind = "error" /\ Decode(w).error = Decode(buffer).error
    BY <2>1, <2>2 DEF SameVerdict
  <2> QED
    BY <2>2, <2>3, <1>4, <1>6, <1>r, <1>t DEF DecodeError, Whole!Refuse
<1>7. ASSUME DecodeBeforeHandshake \/ DecodeInLoop
      PROVE  /\ taken /\ Decode(w).kind = "packet" /\ Decode(w).type = Decode(buffer).type
             /\ Decode(w).payload = Decode(buffer).payload
  <2>1. Decode(buffer).kind = "packet"
    BY <1>7 DEF DecodeBeforeHandshake, DecodeInLoop
  <2>2. taken /\ same
    BY <1>4, <1>7, <2>1, KindsDiffer
  <2> QED
    BY <2>1, <2>2 DEF SameVerdict
<1>8. ASSUME DecodeBeforeHandshake
      PROVE  Whole!Greet
  BY <1>4, <1>7, <1>8, <1>r, <1>t, SameNames DEF DecodeBeforeHandshake, Whole!Greet
<1>9. ASSUME DecodeInLoop
      PROVE  Whole!Handle
  BY <1>4, <1>7, <1>9, <1>r, <1>t, SameNames DEF DecodeInLoop, Whole!Handle
<1> QED
  BY <1>1, <1>2, <1>3, <1>5, <1>6, <1>8, <1>9 DEF Next, Whole!WholeNext

\* Decoding the stream as it comes in, in whatever pieces, is decoding it in
\* one piece: no packet depends on where a read ended.
THEOREM ReadsAreWhole == Spec => ReadsAsWhole
<1>1. Init => Whole!WholeInit
  <2> SUFFICES ASSUME Init PROVE Whole!WholeInit
    OBVIOUS
  <2>1. Inv /\ buffer = <<>> /\ pos = 0
    BY InitInv DEF Init
  <2>2. Len(buffer) = 0
    BY <2>1, EmptySeq
  <2>3. pos - Len(buffer) = 0
    <3>1. pos = 0
      BY <2>1
    <3> QED
      BY <2>2, <3>1
  <2> QED
    BY <2>3 DEF Init, Whole!WholeInit
<1>2. Inv /\ [Next]_vars => [Whole!WholeNext]_(Whole!wholeVars)
  BY StepIsWhole DEF Inv
<1> QED
  BY <1>1, <1>2, InvHolds, PTL DEF Spec, ReadsAsWhole, Whole!WholeSpec

-----------------------------------------------------------------------------
(***************************************************************************)
(* What is handled is what was sent.  The argument is about WholeStream:   *)
(* at each end of a frame, the packets handled are the ones that the       *)
(* stream holds up to there.                                               *)
(***************************************************************************)
WellSentStreams == \A s \in Streams : WellSent(s)

Kept ==
    /\ phase = "handshake" => at = 0 /\ handled = <<>>
    /\ phase = "loop" =>
          /\ at \in DOMAIN stream.upto
          /\ handled = SubSeq(stream.packets, 1, stream.upto[at])
    /\ HandledInOrder

\* Before the handshake, the handshake is what decode finds.
LEMMA HandshakeIsFound ==
    ASSUME WellSentStreams, Slice, at = 0
    PROVE  LET w == Rest(stream, at)
           IN  /\ w = stream.bytes
               /\ Decode(w).kind = "packet" /\ Decode(w).type = Handshake
               /\ Taken(w) = Len(FrameOf(w)) /\ StartsWithFrame(w)
<1> DEFINE b == stream.bytes
<1>1. b \in Seq(Byte) /\ WellSent(stream)
  BY BytesOfStream DEF Slice, WellSentStreams
<1>2. Rest(stream, at) = b
  <2>1. at + 1 = 1 /\ SubSeq(b, 1, Len(b)) = b
    BY <1>1, SubSeqFull
  <2> QED
    BY <2>1 DEF Rest
<1>3. StartsWithFrame(b) /\ b[4] = Handshake
  BY <1>1 DEF WellSent
<1> HIDE DEF b
<1>4. Decode(b).kind = "packet" /\ Decode(b).type = Handshake /\ Taken(b) = Len(FrameOf(b))
  BY <1>1, <1>3, DecodeFindsFrames
<1> QED
  BY <1>2, <1>3, <1>4 DEF b

\* What an end of a frame, or of what is between two, says of the next one.
LEMMA EndsOfFrames ==
    ASSUME WellSentStreams, stream \in Streams, NEW i \in DOMAIN stream.upto
    PROVE  /\ i \in 0..Len(stream.bytes) /\ stream.upto[i] \in 0..Len(stream.packets)
           /\ StartsWithFrame(Rest(stream, i)) => Counts(stream, i)
           /\ Len(Rest(stream, i)) >= HeaderSize /\ ~HasMagic(Rest(stream, i)) =>
                 i + 1 \in DOMAIN stream.upto /\ stream.upto[i + 1] = stream.upto[i]
<1>1. WellSent(stream)
  BY DEF WellSentStreams
<1> DEFINE first == Len(FrameOf(stream.bytes))
<1>2. /\ i \in first..Len(stream.bytes) /\ stream.upto[i] \in 0..Len(stream.packets)
      /\ StartsWithFrame(Rest(stream, i)) => Counts(stream, i)
      /\ Len(Rest(stream, i)) >= HeaderSize /\ ~HasMagic(Rest(stream, i)) =>
            i + 1 \in DOMAIN stream.upto /\ stream.upto[i + 1] = stream.upto[i]
  BY <1>1 DEF WellSent
<1>3. first \in Nat
  <2>1. stream.bytes \in Seq(Byte) /\ StartsWithFrame(stream.bytes)
    BY <1>1, BytesOfStream DEF WellSent
  <2>2. Taken(stream.bytes) = first /\ Taken(stream.bytes) \in 0..Len(stream.bytes)
    BY <2>1, DecodeFindsFrames, DecodeLeaves
  <2>3. Len(stream.bytes) \in Nat
    BY <2>1, LenProperties
  <2> QED
    BY <2>2, <2>3
<1> HIDE DEF first
<1> QED
  BY <1>2, <1>3

\* A sequence and its prefix, one longer.
LEMMA PrefixGrows ==
    ASSUME NEW S, NEW s \in Seq(S), NEW n \in 0..Len(s), n + 1 \in 0..Len(s)
    PROVE  Append(SubSeq(s, 1, n), s[n + 1]) = SubSeq(s, 1, n + 1)
<1>1. Len(s) \in Nat /\ n + 1 \in 1..Len(s) /\ n \in Nat
  BY LenProperties
<1>2. /\ SubSeq(s, 1, n) \in Seq(S) /\ Len(SubSeq(s, 1, n)) = n
      /\ \A k \in 1..n : SubSeq(s, 1, n)[k] = s[k]
      /\ SubSeq(s, 1, n + 1) \in Seq(S) /\ Len(SubSeq(s, 1, n + 1)) = n + 1
      /\ \A k \in 1..(n + 1) : SubSeq(s, 1, n + 1)[k] = s[k]
  BY PrefixProperties
<1> DEFINE a == Append(SubSeq(s, 1, n), s[n + 1])
<1>3. s[n + 1] \in S
  BY <1>1, ElementOfSeq
<1>4. /\ a \in Seq(S) /\ Len(a) = n + 1 /\ a[n + 1] = s[n + 1]
      /\ \A k \in 1..n : a[k] = SubSeq(s, 1, n)[k]
  BY <1>2, <1>3, AppendProperties
<1> HIDE DEF a
<1>5. ASSUME NEW k \in 1..(n + 1)
      PROVE  a[k] = SubSeq(s, 1, n + 1)[k]
  <2>1. k = n + 1 \/ k \in 1..n
    BY <1>1
  <2> QED
    BY <2>1, <1>2, <1>4
<1>6. a = SubSeq(s, 1, n + 1)
  BY <1>2, <1>4, <1>5, SeqEqual
<1> QED
  BY <1>6 DEF a

\* A prefix of what was sent is in order.
LEMMA PrefixInOrder ==
    ASSUME stream \in Streams, NEW n \in 0..Len(stream.packets)
    PROVE  LET h == SubSeq(stream.packets, 1, n)
           IN  /\ Len(h) <= Len(stream.packets)
               /\ h = SubSeq(stream.packets, 1, Len(h))
<1>1. stream.packets \in Seq(Seq(Byte)) /\ Len(stream.packets) \in Nat
  BY StreamsAssumption, LenProperties
<1>2. Len(SubSeq(stream.packets, 1, n)) = n
  BY <1>1, PrefixProperties
<1> QED
  BY <1>1, <1>2

\* Where the bytes taken end.
LEMMA WhereTaken ==
    ASSUME Slice, at' = Len(stream.bytes) - Len(Decode(Rest(stream, at)).left)
    PROVE  at' = at + Taken(Rest(stream, at))
<1> DEFINE w == Rest(stream, at)
<1>1. /\ at \in 0..Len(stream.bytes) /\ Len(stream.bytes) \in Nat /\ w \in Seq(Byte)
      /\ Len(w) = Len(stream.bytes) - at
  BY BufferIsFront, BytesOfStream DEF Slice
<1> HIDE DEF w
<1>2. Taken(w) \in 0..Len(w) /\ Decode(w).left = SubSeq(w, Taken(w) + 1, Len(w))
  BY <1>1, DecodeLeaves
<1>3. Len(w) \in Taken(w)..Len(w)
  BY <1>1, <1>2
<1>4. Len(Decode(w).left) = Len(w) - Taken(w)
  BY <1>1, <1>2, <1>3, SliceProperties
<1>5. at' = Len(stream.bytes) - Len(Decode(w).left)
  BY DEF w
<1> DEFINE l == Len(stream.bytes)
           k == Taken(w)
           i == at
<1>6. l \in Int /\ k \in Int /\ i \in Int /\ Len(Decode(w).left) = l - i - k
  BY <1>1, <1>2, <1>4
<1> HIDE DEF l, k, i
<1>7. l - (l - i - k) = i + k
  BY <1>6
<1>8. at' = at + Taken(w)
  BY <1>5, <1>6, <1>7 DEF l, k, i
<1> QED
  BY <1>8 DEF w

LEMMA WholeKeeps ==
    ASSUME WellSentStreams, Slice, Kept, [Whole!WholeNext]_(Whole!wholeVars)
    PROVE  Kept'
<1> DEFINE w == Rest(stream, at)
           d == Decode(w)
<1>1. /\ at \in 0..Len(stream.bytes) /\ Len(stream.bytes) \in Nat /\ w \in Seq(Byte)
      /\ Len(w) = Len(stream.bytes) - at /\ stream \in Streams
  BY BufferIsFront, BytesOfStream DEF Slice
<1>r. Whole!Decode(Whole!Ahead) = d
  BY SameDecode, SameNames
<1>t. Whole!Take(d) => at' = at + Taken(w)
  BY WhereTaken DEF Whole!Take, at
<1>h. phase = "handshake" => d.kind = "packet" /\ d.type = Handshake
  BY HandshakeIsFound DEF Kept
<1> HIDE DEF d
<1>2. ASSUME UNCHANGED Whole!wholeVars
      PROVE  Kept'
  BY <1>2 DEF Whole!wholeVars, Kept, HandledInOrder, at
<1>3. ASSUME Whole!End
      PROVE  Kept'
  BY <1>3 DEF Whole!End, Kept, HandledInOrder
<1>4. ASSUME Whole!Refuse
      PROVE  Kept'
  BY <1>4 DEF Whole!Refuse, Kept, HandledInOrder
<1>5. ASSUME Whole!Skip
      PROVE  Kept'
  <2>1. /\ phase # "dead" /\ d.kind = "none" /\ at' = at + Taken(w)
        /\ UNCHANGED <<stream, phase, cause, handled>>
    BY <1>5, <1>r, <1>t DEF Whole!Skip
  <2>2. phase # "handshake"
    BY <2>1, <1>h, KindsDiffer
  <2>3. ASSUME phase = "loop"
        PROVE  at' \in DOMAIN stream.upto /\ stream.upto[at'] = stream.upto[at]
    <3>1. at \in DOMAIN stream.upto
      BY <2>3 DEF Kept
    <3>2. CASE Taken(w) = 0
      <4>1. at' = at
        BY <1>1, <2>1, <3>2
      <4> QED
        BY <3>1, <4>1
    <3>3. CASE ~(Len(w) < HeaderSize) /\ (w[1] # Magic1 \/ w[2] # Magic2)
      <4>1. at' = at + 1
        BY <2>1, <3>3, TakenCases
      <4>2. Len(w) >= HeaderSize /\ ~HasMagic(w)
        BY <1>1, <3>3 DEF HasMagic, HeaderSize
      <4> QED
        BY <1>1, <3>1, <4>1, <4>2, EndsOfFrames DEF w
    <3>4. CASE Complete(w)
      <4>1. d.kind # "none"
        BY <3>4, DecodeCases, ErrorFields, ParsedFields, KindsDiffer DEF d
      <4> QED
        BY <2>1, <4>1
    <3> QED
      BY <3>2, <3>3, <3>4, OneBranch, TakenCases
  <2> QED
    BY <2>1, <2>2, <2>3 DEF Kept, HandledInOrder
<1>6. ASSUME Whole!Greet
      PROVE  Kept'
  <2>1. /\ phase = "handshake" /\ at' = at + Taken(w)
        /\ phase' = IF d.type = Handshake THEN "loop" ELSE phase
        /\ UNCHANGED <<stream, cause, handled>>
    BY <1>6, <1>r, <1>t, SameNames DEF Whole!Greet
  <2>2. at = 0 /\ handled = <<>> /\ phase' = "loop"
    BY <2>1, <1>h DEF Kept
  <2>3. at' = Len(FrameOf(stream.bytes))
    <3>1. w = stream.bytes /\ Taken(w) = Len(FrameOf(w))
      BY <2>2, HandshakeIsFound
    <3>2. Taken(w) \in 0..Len(w)
      BY <1>1, DecodeLeaves
    <3>3. at' = Taken(w)
      BY <1>1, <2>1, <2>2, <3>2
    <3> QED
      BY <3>1, <3>3
  <2>4. WellSent(stream)
    BY <1>1 DEF WellSentStreams
  <2>5. at' \in DOMAIN stream.upto /\ stream.upto[at'] = 0
    BY <2>3, <2>4 DEF WellSent
  <2>6. SubSeq(stream.packets, 1, 0) = <<>>
    BY SubSeqEmpty
  <2> QED
    BY <2>1, <2>2, <2>5, <2>6 DEF Kept, HandledInOrder
<1>7. ASSUME Whole!Handle
      PROVE  Kept'
  <2>1. /\ phase = "loop" /\ d.kind = "packet" /\ at' = at + Taken(w)
        /\ handled' = IF d.type \in {Handshake, Sound} THEN Append(handled, d.payload) ELSE handled
        /\ phase' = IF d.type = BadUtf8 THEN "dead" ELSE phase
        /\ stream' = stream
    BY <1>7, <1>r, <1>t, SameNames DEF Whole!Handle
  <2> DEFINE n == stream.upto[at]
  <2>2. /\ at \in DOMAIN stream.upto /\ handled = SubSeq(stream.packets, 1, n)
        /\ n \in 0..Len(stream.packets)
    BY <1>1, <2>1, EndsOfFrames DEF Kept
  <2>3. /\ StartsWithFrame(w) /\ d.type = w[4] /\ d.payload = PayloadOf(w)
        /\ at' = at + Len(FrameOf(w))
    BY <1>1, <2>1, DecodeFindsFrames DEF d
  <2>4. Counts(stream, at)
    BY <1>1, <2>2, <2>3, EndsOfFrames DEF w
  <2>5. /\ at' \in DOMAIN stream.upto
        /\ IF w[4] \in {Handshake, Sound}
           THEN stream.upto[at'] = n + 1 /\ stream.packets[stream.upto[at']] = PayloadOf(w)
           ELSE stream.upto[at'] = n
    BY <2>3, <2>4 DEF Counts, w
  <2>6. stream.upto[at'] \in 0..Len(stream.packets)
    BY <1>1, <2>5, EndsOfFrames
  <2>7. handled' = SubSeq(stream.packets, 1, stream.upto[at'])
    <3>1. CASE w[4] \in {Handshake, Sound}
      <4>1. stream.packets \in Seq(Seq(Byte))
        BY <1>1, StreamsAssumption
      <4>2. handled' = Append(SubSeq(stream.packets, 1, n), stream.packets[n + 1])
        BY <2>1, <2>2, <2>3, <2>5, <3>1
      <4>3. n + 1 \in 0..Len(stream.packets) /\ stream.upto[at'] = n + 1
        BY <2>5, <2>6, <3>1
      <4> HIDE DEF n
      <4>4. Append(SubSeq(stream.packets, 1, n), stream.packets[n + 1])
               = SubSeq(stream.packets, 1, n + 1)
        BY <2>2, <4>1, <4>3, PrefixGrows
      <4> QED
        BY <4>2, <4>3, <4>4
    <3>2. CASE w[4] \notin {Handshake, Sound}
      BY <2>1, <2>2, <2>3, <2>5, <3>2
    <3> QED
      BY <3>1, <3>2
  <2>8. HandledInOrder'
    <3> DEFINE m == stream.upto[at']
    <3>1. m \in 0..Len(stream.packets) /\ handled' = SubSeq(stream.packets, 1, m)
      BY <2>6, <2>7
    <3> HIDE DEF m
    <3>2. /\ Len(handled') <= Len(stream.packets)
          /\ handled' = SubSeq(stream.packets, 1, Len(handled'))
      BY <1>1, <3>1, PrefixInOrder
    <3> QED
      BY <2>1, <3>2 DEF HandledInOrder
  <2> QED
    BY <2>1, <2>5, <2>7, <2>8 DEF Kept
<1> QED
  BY <1>2, <1>3, <1>4, <1>5, <1>6, <1>7 DEF Whole!WholeNext

LEMMA InitKept == Init => Kept
<1> SUFFICES ASSUME Init PROVE Kept
  OBVIOUS
<1>1. /\ stream \in Streams /\ pos = 0 /\ buffer = <<>> /\ phase = "handshake" /\ handled = <<>>
  BY DEF Init
<1>2. at = 0
  <2>1. Len(buffer) = 0
    BY <1>1, EmptySeq
  <2>2. pos = 0
    BY <1>1
  <2> QED
    BY <2>1, <2>2 DEF at
<1>3. 0 \in 0..Len(stream.packets) /\ SubSeq(stream.packets, 1, 0) = <<>>
  BY <1>1, StreamsAssumption, LenProperties, SubSeqEmpty
<1>4. HandledInOrder
  <2>1. /\ Len(SubSeq(stream.packets, 1, 0)) <= Len(stream.packets)
        /\ SubSeq(stream.packets, 1, 0)
              = SubSeq(stream.packets, 1, Len(SubSeq(stream.packets, 1, 0)))
    BY <1>1, <1>3, PrefixInOrder
  <2>2. handled = SubSeq(stream.packets, 1, 0)
    BY <1>1, <1>3
  <2> QED
    BY <2>1, <2>2 DEF HandledInOrder
<1> QED
  BY <1>1, <1>2, <1>4 DEF Kept

\* If the streams are well sent, the packets handled are the packets sent, in
\* order, each once, however the stream is cut and whatever its payloads are.
THEOREM PacketsInOrder ==
    ASSUME WellSentStreams
    PROVE  Spec => []HandledInOrder
<1>1. Init => Kept
  BY InitKept
<1>2. Inv /\ Kept /\ [Next]_vars => Kept'
  BY StepIsWhole, WholeKeeps DEF Inv
<1>3. Kept => HandledInOrder
  BY DEF Kept
<1> QED
  BY <1>1, <1>2, <1>3, InvHolds, PTL DEF Spec

(***************************************************************************)
(* A handshake that is there is seen.                                      *)
(***************************************************************************)
Waits ==
    /\ phase = "handshake" /\ ~turn => pos < Len(stream.bytes)
    /\ cause = "timeout" => pos < Len(stream.bytes)

LEMMA InitWaits == WellSentStreams /\ Init => Waits
<1> SUFFICES ASSUME WellSentStreams, Init PROVE Waits
  OBVIOUS
<1>1. stream.bytes \in Seq(Byte) /\ StartsWithFrame(stream.bytes) /\ pos = 0 /\ cause = "none"
  BY BytesOfStream DEF Init, WellSentStreams, WellSent
<1>2. Len(stream.bytes) \in Nat /\ Len(stream.bytes) >= HeaderSize
  BY <1>1, LenProperties DEF StartsWithFrame
<1> QED
  BY <1>1, <1>2 DEF Waits, HeaderSize

LEMMA NextWaits ==
    ASSUME WellSentStreams, Inv, Kept, Waits, [Next]_vars
    PROVE  Waits'
<1>1. Slice /\ Turns /\ TypeOK /\ pos \in 0..Len(stream.bytes) /\ Len(stream.bytes) \in Nat
  BY BytesOfStream DEF Inv, Slice
<1>2. ASSUME NEW n \in 1..MaxRead, Read(n) PROVE Waits'
  <2>1. turn' = TRUE /\ cause' = cause /\ phase # "dead"
    BY <1>2 DEF Read
  <2>2. cause # "timeout"
    BY <1>1, <2>1 DEF TypeOK
  <2> QED
    BY <2>1, <2>2 DEF Waits
<1>3. CASE Tick \/ HandshakeTimeout \/ PeerCloses \/ UNCHANGED vars
  BY <1>3 DEF Tick, HandshakeTimeout, PeerCloses, vars, Waits
<1>4. CASE DecodeNone
  <2>1. turn /\ buffer' = Decode(buffer).left /\ UNCHANGED <<stream, pos, phase, cause>>
        /\ Decode(buffer).kind = "none"
    BY <1>4 DEF DecodeNone
  <2>2. cause # "timeout"
    BY <1>1, <2>1 DEF TypeOK, Turns
  <2>3. ASSUME phase = "handshake"
        PROVE  pos < Len(stream.bytes)
    <3>1. SUFFICES ASSUME pos = Len(stream.bytes) PROVE FALSE
      BY <1>1
    <3>2. at = 0
      BY <2>3 DEF Kept
    <3>3. /\ Rest(stream, at) = stream.bytes /\ Decode(stream.bytes).kind = "packet"
      BY <1>1, <3>2, HandshakeIsFound
    <3>4. buffer = stream.bytes
      <4>1. buffer = SubSeq(stream.bytes, at + 1, pos) /\ at + 1 = 1
        BY <1>1, <3>2 DEF Slice
      <4>2. SubSeq(stream.bytes, 1, Len(stream.bytes)) = stream.bytes
        BY <1>1, BytesOfStream, SubSeqFull DEF Slice
      <4> QED
        BY <3>1, <4>1, <4>2
    <3> QED
      BY <2>1, <3>3, <3>4, KindsDiffer
  <2> QED
    BY <2>1, <2>2, <2>3 DEF Waits
<1>5. CASE DecodeError
  <2>1. cause' # "timeout" /\ phase' = "dead"
    BY <1>5, DecodeErrors DEF DecodeError
  <2> QED
    BY <2>1 DEF Waits
<1>6. CASE DecodeBeforeHandshake \/ DecodeInLoop
  <2>1. turn /\ UNCHANGED <<stream, pos>> /\ cause' \in {cause, "parse"}
    BY <1>6 DEF DecodeBeforeHandshake, DecodeInLoop
  <2>2. cause' # "timeout"
    BY <1>1, <2>1 DEF TypeOK, Turns
  <2>3. turn' \/ phase' # "handshake"
    BY <1>6 DEF DecodeBeforeHandshake, DecodeInLoop
  <2> QED
    BY <2>2, <2>3 DEF Waits
<1> QED
  BY <1>2, <1>3, <1>4, <1>5, <1>6 DEF Next

\* If the streams are well sent, a handshake of which every byte has arrived
\* and been looked at has been seen, and no such connection times out.
THEOREM HandshakeIsSeen ==
    ASSUME WellSentStreams
    PROVE  Spec => []HandshakeSeen
<1>1. Init => Kept /\ Waits
  BY InitKept, InitWaits
<1>2. Inv /\ Kept /\ Waits /\ [Next]_vars => Kept' /\ Waits'
  BY StepIsWhole, WholeKeeps, NextWaits DEF Inv
<1>3. Inv /\ Waits => HandshakeSeen
  <2> SUFFICES ASSUME Inv, Waits PROVE HandshakeSeen
    OBVIOUS
  <2>1. pos \in 0..Len(stream.bytes) /\ Len(stream.bytes) \in Nat
    BY BytesOfStream DEF Inv, Slice
  <2> QED
    BY <2>1 DEF Waits, HandshakeSeen
<1> QED
  BY <1>1, <1>2, <1>3, InvHolds, PTL DEF Spec
-----------------------------------------------------------------------------
(***************************************************************************)
(* The checksums.  A round is a shift of the byte the cell is cut to (T),  *)
(* which carries one flipped place to the next; so in a table of eight     *)
(* rounds the entry at 2b is the entry at b shifted once more, and the one *)
(* at 2b + 1 differs from it by the polynomial.  The table of protocol.rs  *)
(* has the same two properties, which its literal shows place by place.    *)
(***************************************************************************)
\* Induction, for a set of numbers in the place of a property of them.
LEMMA NatSetInduction ==
    ASSUME NEW S, 0 \in S, \A n \in Nat : n \in S => n + 1 \in S
    PROVE  Nat \subseteq S
<1> SUFFICES ASSUME Nat \ S # {} PROVE FALSE
  OBVIOUS
<1> DEFINE below == OpToRel(<, Nat)
<1>1. IsWellFoundedOn(below, Nat)
  BY NatLessThanWellFounded
<1>2. \A x, y \in Nat : y < x => <<y, x>> \in below
  BY DEF OpToRel
<1> HIDE DEF below
<1>3. PICK x \in Nat \ S : \A y \in Nat \ S : <<y, x>> \notin below
  BY <1>1, WFMin
<1>4. x # 0 /\ x - 1 \in Nat /\ x - 1 < x /\ (x - 1) + 1 = x
  OBVIOUS
<1>5. x - 1 \in S
  BY <1>2, <1>3, <1>4
<1> QED
  BY <1>4, <1>5

LEMMA ByteOfByte == \A b \in Byte : b \in Nat /\ b % 256 = b
BY DEF Byte

LEMMA XorIsByte == \A a, b \in Byte : Xor(a, b) \in Byte
BY SMTT(60) DEF Xor, Byte

T(b) == IF b < 128 THEN 2 * b ELSE Xor7(2 * b - 256)

T8(b) == T(T(T(T(T(T(T(T(b))))))))

\* A round of the plugin's loop, seen in the byte the cell is cut to.
LEMMA ShiftOfByte == \A c \in Nat : Shift(c) \in Nat /\ Shift(c) % 256 = T(c % 256)
BY SMTT(60) DEF Shift, T, Xor7

LEMMA EightRounds == \A b \in Byte : InitCRC8Table[b] = T8(b)
<1> SUFFICES ASSUME NEW b \in Byte PROVE InitCRC8Table[b] = T8(b)
  OBVIOUS
<1>1. InitCRC8Table[b] = Shift(Shift(Shift(Shift(Shift(Shift(Shift(Shift(b)))))))) % 256
  BY DEF InitCRC8Table
<1>2. b \in Nat /\ b % 256 = b
  BY ByteOfByte
<1> QED
  BY <1>1, <1>2, ShiftOfByte DEF T8

LEMMA TIsByte == \A b \in Byte : T(b) \in Byte
BY SMTT(60) DEF T, Xor7, Byte

\* x ^ p, for a power of two.
Flip(p, x) == IF (x \div p) % 2 = 1 THEN x - p ELSE x + p

LEMMA FlipMoves ==
    ASSUME NEW b \in Byte
    PROVE  /\ T(Flip(1, b)) = Flip(2, T(b)) /\ T(Flip(2, b)) = Flip(4, T(b))
           /\ T(Flip(4, b)) = Flip(8, T(b)) /\ T(Flip(8, b)) = Flip(16, T(b))
           /\ T(Flip(16, b)) = Flip(32, T(b)) /\ T(Flip(32, b)) = Flip(64, T(b))
           /\ T(Flip(64, b)) = Flip(128, T(b)) /\ T(Flip(128, b)) = Xor7(T(b))
<1>1. T(Flip(1, b)) = Flip(2, T(b))
  BY SMTT(60) DEF Flip, T, Xor7, Byte
<1>2. T(Flip(2, b)) = Flip(4, T(b))
  BY SMTT(60) DEF Flip, T, Xor7, Byte
<1>3. T(Flip(4, b)) = Flip(8, T(b))
  BY SMTT(60) DEF Flip, T, Xor7, Byte
<1>4. T(Flip(8, b)) = Flip(16, T(b))
  BY SMTT(60) DEF Flip, T, Xor7, Byte
<1>5. T(Flip(16, b)) = Flip(32, T(b))
  BY SMTT(60) DEF Flip, T, Xor7, Byte
<1>6. T(Flip(32, b)) = Flip(64, T(b))
  BY SMTT(60) DEF Flip, T, Xor7, Byte
<1>7. T(Flip(64, b)) = Flip(128, T(b))
  BY SMTT(60) DEF Flip, T, Xor7, Byte
<1>8. T(Flip(128, b)) = Xor7(T(b))
  BY SMTT(60) DEF Flip, T, Xor7, Byte
<1> QED
  BY <1>1, <1>2, <1>3, <1>4, <1>5, <1>6, <1>7, <1>8

\* What the plugin's table has at 2b and at 2b + 1.
LEMMA RoundsDouble ==
    ASSUME NEW b \in 0..127
    PROVE  T8(2 * b) = T(T8(b)) /\ T8(2 * b + 1) = Xor7(T8(2 * b))
<1>1. T(b) = 2 * b
  BY DEF T
<1>2. 2 * b \in Byte /\ 2 * b + 1 = Flip(1, 2 * b)
  BY DEF Byte, Flip
<1>3. T8(2 * b) = T(T8(b))
  BY <1>1 DEF T8
<1>4. T8(2 * b + 1) = Xor7(T8(2 * b))
  BY <1>2, TIsByte, FlipMoves DEF T8
<1> QED
  BY <1>3, <1>4

\* The same of an entry of the table of protocol.rs.
Doubles(b) ==
    /\ CRC8_TABLE[2 * b + 1] = T(CRC8_TABLE[b + 1])
    /\ CRC8_TABLE[2 * b + 2] = Xor7(CRC8_TABLE[2 * b + 1])

LEMMA LiteralDoubles == CRC8_TABLE[1] = 0 /\ \A b \in 0..127 : Doubles(b)
<1>1. CRC8_TABLE[1] = 0 /\ CRC8_TABLE[2] = 7 /\ CRC8_TABLE[3] = 14 /\ CRC8_TABLE[4] = 9
      /\ CRC8_TABLE[5] = 28 /\ CRC8_TABLE[6] = 27 /\ CRC8_TABLE[7] = 18
      /\ CRC8_TABLE[8] = 21 /\ CRC8_TABLE[9] = 56 /\ CRC8_TABLE[10] = 63
      /\ CRC8_TABLE[11] = 54 /\ CRC8_TABLE[12] = 49 /\ CRC8_TABLE[13] = 36
      /\ CRC8_TABLE[14] = 35 /\ CRC8_TABLE[15] = 42 /\ CRC8_TABLE[16] = 45
  BY DEF CRC8_TABLE
<1>2. CRC8_TABLE[17] = 112 /\ CRC8_TABLE[18] = 119 /\ CRC8_TABLE[19] = 126
      /\ CRC8_TABLE[20] = 121 /\ CRC8_TABLE[21] = 108 /\ CRC8_TABLE[22] = 107
      /\ CRC8_TABLE[23] = 98 /\ CRC8_TABLE[24] = 101 /\ CRC8_TABLE[25] = 72
      /\ CRC8_TABLE[26] = 79 /\ CRC8_TABLE[27] = 70 /\ CRC8_TABLE[28] = 65
      /\ CRC8_TABLE[29] = 84 /\ CRC8_TABLE[30] = 83 /\ CRC8_TABLE[31] = 90
      /\ CRC8_TABLE[32] = 93
  BY DEF CRC8_TABLE
<1>3. CRC8_TABLE[33] = 224 /\ CRC8_TABLE[34] = 231 /\ CRC8_TABLE[35] = 238
      /\ CRC8_TABLE[36] = 233 /\ CRC8_TABLE[37] = 252 /\ CRC8_TABLE[38] = 251
      /\ CRC8_TABLE[39] = 242 /\ CRC8_TABLE[40] = 245 /\ CRC8_TABLE[41] = 216
      /\ CRC8_TABLE[42] = 223 /\ CRC8_TABLE[43] = 214 /\ CRC8_TABLE[44] = 209
      /\ CRC8_TABLE[45] = 196 /\ CRC8_TABLE[46] = 195 /\ CRC8_TABLE[47] = 202
      /\ CRC8_TABLE[48] = 205
  BY DEF CRC8_TABLE
<1>4. CRC8_TABLE[49] = 144 /\ CRC8_TABLE[50] = 151 /\ CRC8_TABLE[51] = 158
      /\ CRC8_TABLE[52] = 153 /\ CRC8_TABLE[53] = 140 /\ CRC8_TABLE[54] = 139
      /\ CRC8_TABLE[55] = 130 /\ CRC8_TABLE[56] = 133 /\ CRC8_TABLE[57] = 168
      /\ CRC8_TABLE[58] = 175 /\ CRC8_TABLE[59] = 166 /\ CRC8_TABLE[60] = 161
      /\ CRC8_TABLE[61] = 180 /\ CRC8_TABLE[62] = 179 /\ CRC8_TABLE[63] = 186
      /\ CRC8_TABLE[64] = 189
  BY DEF CRC8_TABLE
<1>5. CRC8_TABLE[65] = 199 /\ CRC8_TABLE[66] = 192 /\ CRC8_TABLE[67] = 201
      /\ CRC8_TABLE[68] = 206 /\ CRC8_TABLE[69] = 219 /\ CRC8_TABLE[70] = 220
      /\ CRC8_TABLE[71] = 213 /\ CRC8_TABLE[72] = 210 /\ CRC8_TABLE[73] = 255
      /\ CRC8_TABLE[74] = 248 /\ CRC8_TABLE[75] = 241 /\ CRC8_TABLE[76] = 246
      /\ CRC8_TABLE[77] = 227 /\ CRC8_TABLE[78] = 228 /\ CRC8_TABLE[79] = 237
      /\ CRC8_TABLE[80] = 234
  BY DEF CRC8_TABLE
<1>6. CRC8_TABLE[81] = 183 /\ CRC8_TABLE[82] = 176 /\ CRC8_TABLE[83] = 185
      /\ CRC8_TABLE[84] = 190 /\ CRC8_TABLE[85] = 171 /\ CRC8_TABLE[86] = 172
      /\ CRC8_TABLE[87] = 165 /\ CRC8_TABLE[88] = 162 /\ CRC8_TABLE[89] = 143
      /\ CRC8_TABLE[90] = 136 /\ CRC8_TABLE[91] = 129 /\ CRC8_TABLE[92] = 134
      /\ CRC8_TABLE[93] = 147 /\ CRC8_TABLE[94] = 148 /\ CRC8_TABLE[95] = 157
      /\ CRC8_TABLE[96] = 154
  BY DEF CRC8_TABLE
<1>7. CRC8_TABLE[97] = 39 /\ CRC8_TABLE[98] = 32 /\ CRC8_TABLE[99] = 41
      /\ CRC8_TABLE[100] = 46 /\ CRC8_TABLE[101] = 59 /\ CRC8_TABLE[102] = 60
      /\ CRC8_TABLE[103] = 53 /\ CRC8_TABLE[104] = 50 /\ CRC8_TABLE[105] = 31
      /\ CRC8_TABLE[106] = 24 /\ CRC8_TABLE[107] = 17 /\ CRC8_TABLE[108] = 22
      /\ CRC8_TABLE[109] = 3 /\ CRC8_TABLE[110] = 4 /\ CRC8_TABLE[111] = 13
      /\ CRC8_TABLE[112] = 10
  BY DEF CRC8_TABLE
<1>8. CRC8_TABLE[113] = 87 /\ CRC8_TABLE[114] = 80 /\ CRC8_TABLE[115] = 89
      /\ CRC8_TABLE[116] = 94 /\ CRC8_TABLE[117] = 75 /\ CRC8_TABLE[118] = 76
      /\ CRC8_TABLE[119] = 69 /\ CRC8_TABLE[120] = 66 /\ CRC8_TABLE[121] = 111
      /\ CRC8_TABLE[122] = 104 /\ CRC8_TABLE[123] = 97 /\ CRC8_TABLE[124] = 102
      /\ CRC8_TABLE[125] = 115 /\ CRC8_TABLE[126] = 116 /\ CRC8_TABLE[127] = 125
      /\ CRC8_TABLE[128] = 122
  BY DEF CRC8_TABLE
<1>9. CRC8_TABLE[129] = 137 /\ CRC8_TABLE[130] = 142 /\ CRC8_TABLE[131] = 135
      /\ CRC8_TABLE[132] = 128 /\ CRC8_TABLE[133] = 149 /\ CRC8_TABLE[134] = 146
      /\ CRC8_TABLE[135] = 155 /\ CRC8_TABLE[136] = 156 /\ CRC8_TABLE[137] = 177
      /\ CRC8_TABLE[138] = 182 /\ CRC8_TABLE[139] = 191 /\ CRC8_TABLE[140] = 184
      /\ CRC8_TABLE[141] = 173 /\ CRC8_TABLE[142] = 170 /\ CRC8_TABLE[143] = 163
      /\ CRC8_TABLE[144] = 164
  BY DEF CRC8_TABLE
<1>10. CRC8_TABLE[145] = 249 /\ CRC8_TABLE[146] = 254 /\ CRC8_TABLE[147] = 247
      /\ CRC8_TABLE[148] = 240 /\ CRC8_TABLE[149] = 229 /\ CRC8_TABLE[150] = 226
      /\ CRC8_TABLE[151] = 235 /\ CRC8_TABLE[152] = 236 /\ CRC8_TABLE[153] = 193
      /\ CRC8_TABLE[154] = 198 /\ CRC8_TABLE[155] = 207 /\ CRC8_TABLE[156] = 200
      /\ CRC8_TABLE[157] = 221 /\ CRC8_TABLE[158] = 218 /\ CRC8_TABLE[159] = 211
      /\ CRC8_TABLE[160] = 212
  BY DEF CRC8_TABLE
<1>11. CRC8_TABLE[161] = 105 /\ CRC8_TABLE[162] = 110 /\ CRC8_TABLE[163] = 103
      /\ CRC8_TABLE[164] = 96 /\ CRC8_TABLE[165] = 117 /\ CRC8_TABLE[166] = 114
      /\ CRC8_TABLE[167] = 123 /\ CRC8_TABLE[168] = 124 /\ CRC8_TABLE[169] = 81
      /\ CRC8_TABLE[170] = 86 /\ CRC8_TABLE[171] = 95 /\ CRC8_TABLE[172] = 88
      /\ CRC8_TABLE[173] = 77 /\ CRC8_TABLE[174] = 74 /\ CRC8_TABLE[175] = 67
      /\ CRC8_TABLE[176] = 68
  BY DEF CRC8_TABLE
<1>12. CRC8_TABLE[177] = 25 /\ CRC8_TABLE[178] = 30 /\ CRC8_TABLE[179] = 23
      /\ CRC8_TABLE[180] = 16 /\ CRC8_TABLE[181] = 5 /\ CRC8_TABLE[182] = 2
      /\ CRC8_TABLE[183] = 11 /\ CRC8_TABLE[184] = 12 /\ CRC8_TABLE[185] = 33
      /\ CRC8_TABLE[186] = 38 /\ CRC8_TABLE[187] = 47 /\ CRC8_TABLE[188] = 40
      /\ CRC8_TABLE[189] = 61 /\ CRC8_TABLE[190] = 58 /\ CRC8_TABLE[191] = 51
      /\ CRC8_TABLE[192] = 52
  BY DEF CRC8_TABLE
<1>13. CRC8_TABLE[193] = 78 /\ CRC8_TABLE[194] = 73 /\ CRC8_TABLE[195] = 64
      /\ CRC8_TABLE[196] = 71 /\ CRC8_TABLE[197] = 82 /\ CRC8_TABLE[198] = 85
      /\ CRC8_TABLE[199] = 92 /\ CRC8_TABLE[200] = 91 /\ CRC8_TABLE[201] = 118
      /\ CRC8_TABLE[202] = 113 /\ CRC8_TABLE[203] = 120 /\ CRC8_TABLE[204] = 127
      /\ CRC8_TABLE[205] = 106 /\ CRC8_TABLE[206] = 109 /\ CRC8_TABLE[207] = 100
      /\ CRC8_TABLE[208] = 99
  BY DEF CRC8_TABLE
<1>14. CRC8_TABLE[209] = 62 /\ CRC8_TABLE[210] = 57 /\ CRC8_TABLE[211] = 48
      /\ CRC8_TABLE[212] = 55 /\ CRC8_TABLE[213] = 34 /\ CRC8_TABLE[214] = 37
      /\ CRC8_TABLE[215] = 44 /\ CRC8_TABLE[216] = 43 /\ CRC8_TABLE[217] = 6
      /\ CRC8_TABLE[218] = 1 /\ CRC8_TABLE[219] = 8 /\ CRC8_TABLE[220] = 15
      /\ CRC8_TABLE[221] = 26 /\ CRC8_TABLE[222] = 29 /\ CRC8_TABLE[223] = 20
      /\ CRC8_TABLE[224] = 19
  BY DEF CRC8_TABLE
<1>15. CRC8_TABLE[225] = 174 /\ CRC8_TABLE[226] = 169 /\ CRC8_TABLE[227] = 160
      /\ CRC8_TABLE[228] = 167 /\ CRC8_TABLE[229] = 178 /\ CRC8_TABLE[230] = 181
      /\ CRC8_TABLE[231] = 188 /\ CRC8_TABLE[232] = 187 /\ CRC8_TABLE[233] = 150
      /\ CRC8_TABLE[234] = 145 /\ CRC8_TABLE[235] = 152 /\ CRC8_TABLE[236] = 159
      /\ CRC8_TABLE[237] = 138 /\ CRC8_TABLE[238] = 141 /\ CRC8_TABLE[239] = 132
      /\ CRC8_TABLE[240] = 131
  BY DEF CRC8_TABLE
<1>16. CRC8_TABLE[241] = 222 /\ CRC8_TABLE[242] = 217 /\ CRC8_TABLE[243] = 208
      /\ CRC8_TABLE[244] = 215 /\ CRC8_TABLE[245] = 194 /\ CRC8_TABLE[246] = 197
      /\ CRC8_TABLE[247] = 204 /\ CRC8_TABLE[248] = 203 /\ CRC8_TABLE[249] = 230
      /\ CRC8_TABLE[250] = 225 /\ CRC8_TABLE[251] = 232 /\ CRC8_TABLE[252] = 239
      /\ CRC8_TABLE[253] = 250 /\ CRC8_TABLE[254] = 253 /\ CRC8_TABLE[255] = 244
      /\ CRC8_TABLE[256] = 243
  BY DEF CRC8_TABLE
<1>17. Doubles(0) /\ Doubles(1) /\ Doubles(2) /\ Doubles(3) /\ Doubles(4) /\ Doubles(5)
      /\ Doubles(6) /\ Doubles(7)
  BY <1>1 DEF Doubles, T, Xor7
<1>18. Doubles(8) /\ Doubles(9) /\ Doubles(10) /\ Doubles(11) /\ Doubles(12) /\ Doubles(13)
      /\ Doubles(14) /\ Doubles(15)
  BY <1>1, <1>2 DEF Doubles, T, Xor7
<1>19. Doubles(16) /\ Doubles(17) /\ Doubles(18) /\ Doubles(19) /\ Doubles(20)
      /\ Doubles(21) /\ Doubles(22) /\ Doubles(23)
  BY <1>2, <1>3 DEF Doubles, T, Xor7
<1>20. Doubles(24) /\ Doubles(25) /\ Doubles(26) /\ Doubles(27) /\ Doubles(28)
      /\ Doubles(29) /\ Doubles(30) /\ Doubles(31)
  BY <1>2, <1>4 DEF Doubles, T, Xor7
<1>21. Doubles(32) /\ Doubles(33) /\ Doubles(34) /\ Doubles(35) /\ Doubles(36)
      /\ Doubles(37) /\ Doubles(38) /\ Doubles(39)
  BY <1>3, <1>5 DEF Doubles, T, Xor7
<1>22. Doubles(40) /\ Doubles(41) /\ Doubles(42) /\ Doubles(43) /\ Doubles(44)
      /\ Doubles(45) /\ Doubles(46) /\ Doubles(47)
  BY <1>3, <1>6 DEF Doubles, T, Xor7
<1>23. Doubles(48) /\ Doubles(49) /\ Doubles(50) /\ Doubles(51) /\ Doubles(52)
      /\ Doubles(53) /\ Doubles(54) /\ Doubles(55)
  BY <1>4, <1>7 DEF Doubles, T, Xor7
<1>24. Doubles(56) /\ Doubles(57) /\ Doubles(58) /\ Doubles(59) /\ Doubles(60)
      /\ Doubles(61) /\ Doubles(62) /\ Doubles(63)
  BY <1>4, <1>8 DEF Doubles, T, Xor7
<1>25. Doubles(64) /\ Doubles(65) /\ Doubles(66) /\ Doubles(67) /\ Doubles(68)
      /\ Doubles(69) /\ Doubles(70) /\ Doubles(71)
  BY <1>5, <1>9 DEF Doubles, T, Xor7
<1>26. Doubles(72) /\ Doubles(73) /\ Doubles(74) /\ Doubles(75) /\ Doubles(76)
      /\ Doubles(77) /\ Doubles(78) /\ Doubles(79)
  BY <1>5, <1>10 DEF Doubles, T, Xor7
<1>27. Doubles(80) /\ Doubles(81) /\ Doubles(82) /\ Doubles(83) /\ Doubles(84)
      /\ Doubles(85) /\ Doubles(86) /\ Doubles(87)
  BY <1>6, <1>11 DEF Doubles, T, Xor7
<1>28. Doubles(88) /\ Doubles(89) /\ Doubles(90) /\ Doubles(91) /\ Doubles(92)
      /\ Doubles(93) /\ Doubles(94) /\ Doubles(95)
  BY <1>6, <1>12 DEF Doubles, T, Xor7
<1>29. Doubles(96) /\ Doubles(97) /\ Doubles(98) /\ Doubles(99) /\ Doubles(100)
      /\ Doubles(101) /\ Doubles(102) /\ Doubles(103)
  BY <1>7, <1>13 DEF Doubles, T, Xor7
<1>30. Doubles(104) /\ Doubles(105) /\ Doubles(106) /\ Doubles(107) /\ Doubles(108)
      /\ Doubles(109) /\ Doubles(110) /\ Doubles(111)
  BY <1>7, <1>14 DEF Doubles, T, Xor7
<1>31. Doubles(112) /\ Doubles(113) /\ Doubles(114) /\ Doubles(115) /\ Doubles(116)
      /\ Doubles(117) /\ Doubles(118) /\ Doubles(119)
  BY <1>8, <1>15 DEF Doubles, T, Xor7
<1>32. Doubles(120) /\ Doubles(121) /\ Doubles(122) /\ Doubles(123) /\ Doubles(124)
      /\ Doubles(125) /\ Doubles(126) /\ Doubles(127)
  BY <1>8, <1>16 DEF Doubles, T, Xor7
<1> QED
  BY <1>1, <1>17, <1>18, <1>19, <1>20, <1>21, <1>22, <1>23, <1>24,
     <1>25, <1>26, <1>27, <1>28, <1>29, <1>30, <1>31, <1>32

LEMMA TablesAgree ==
    \A b \in Byte : CRC8_TABLE[b + 1] = InitCRC8Table[b] /\ CRC8_TABLE[b + 1] \in Byte
<1> DEFINE S == {n \in Nat : \A b \in Byte : b <= n => CRC8_TABLE[b + 1] = T8(b)}
<1>1. 0 \in S
  <2>1. T(0) = 0
    BY DEF T
  <2>2. \A b \in Byte : b <= 0 => b = 0
    BY DEF Byte
  <2> QED
    BY <2>1, <2>2, LiteralDoubles DEF T8
<1>2. ASSUME NEW n \in Nat, n \in S PROVE n + 1 \in S
  <2> SUFFICES ASSUME NEW b \in Byte, b <= n + 1 PROVE CRC8_TABLE[b + 1] = T8(b)
    BY <1>2
  <2>1. CASE b <= n
    BY <1>2, <2>1
  <2>2. CASE b = n + 1
    <3>1. PICK h \in 0..127 : b = 2 * h \/ b = 2 * h + 1
      <4>1. b \div 2 \in 0..127 /\ (b = 2 * (b \div 2) \/ b = 2 * (b \div 2) + 1)
        BY SMTT(60) DEF Byte
      <4> QED
        BY <4>1
    <3>2. h \in Byte /\ h <= n /\ 2 * h + 1 + 1 = 2 * h + 2
      BY <2>2, <3>1 DEF Byte
    <3>3. CRC8_TABLE[h + 1] = T8(h)
      BY <1>2, <3>2
    <3>4. CRC8_TABLE[2 * h + 1] = T8(2 * h) /\ CRC8_TABLE[2 * h + 2] = T8(2 * h + 1)
      BY <3>3, LiteralDoubles, RoundsDouble DEF Doubles
    <3> QED
      BY <3>1, <3>2, <3>4
  <2> QED
    BY <2>1, <2>2 DEF Byte
<1> HIDE DEF S
<1>3. Nat \subseteq S
  BY <1>1, <1>2, NatSetInduction
<1>4. \A b \in Byte : CRC8_TABLE[b + 1] = T8(b)
  <2> TAKE b \in Byte
  <2>1. b \in Nat /\ b <= b
    BY ByteOfByte
  <2>2. b \in S
    BY <1>3, <2>1
  <2> QED
    BY <2>1, <2>2 DEF S
<1>5. \A b \in Byte : T8(b) \in Byte
  BY TIsByte DEF T8
<1> QED
  BY <1>4, <1>5, EightRounds

\* The two loops make the same checksum of any bytes: what one of them has in
\* its variable at each byte is what the other has there.
THEOREM ChecksumsAgree == \A bytes \in Seq(Byte) : crc8(bytes) = CalculateCRC8(bytes)
<1> SUFFICES ASSUME NEW bytes \in Seq(Byte) PROVE crc8(bytes) = CalculateCRC8(bytes)
  OBVIOUS
<1> DEFINE n == Len(bytes)
           Relay(f) == f = [i \in 0..n |->
                IF i = 0 THEN 0 ELSE CRC8_TABLE[Xor(f[i - 1], bytes[i]) + 1]]
           Plugin(f) == f = [i \in 0..n |->
                IF i = 0 THEN 0 ELSE InitCRC8Table[Xor(f[i - 1], bytes[i]) % 256]]
<1>1. n \in Nat /\ \A i \in 1..n : bytes[i] \in Byte
  OBVIOUS
<1>2. ASSUME NEW a \in Byte, NEW i \in 1..n
      PROVE  /\ CRC8_TABLE[Xor(a, bytes[i]) + 1] = InitCRC8Table[Xor(a, bytes[i]) % 256]
             /\ CRC8_TABLE[Xor(a, bytes[i]) + 1] \in Byte
  <2>1. Xor(a, bytes[i]) \in Byte
    BY <1>1, XorIsByte
  <2> DEFINE x == Xor(a, bytes[i])
  <2> HIDE DEF x
  <2>2. x \in Byte /\ x % 256 = x
    BY <2>1, ByteOfByte DEF x
  <2>3. CRC8_TABLE[x + 1] = InitCRC8Table[x] /\ CRC8_TABLE[x + 1] \in Byte
    BY <2>2, TablesAgree
  <2> QED
    BY <2>2, <2>3 DEF x
<1>3. ASSUME NEW f, Relay(f) \/ Plugin(f) PROVE \A i \in 0..n : f[i] \in Byte
  <2> DEFINE S == {i \in Nat : i <= n => f[i] \in Byte}
  <2>1. 0 \in S
    <3>1. 0 \in 0..n /\ 0 \in Byte
      BY <1>1 DEF Byte
    <3>2. f[0] = 0
      BY <1>3, <3>1
    <3> QED
      BY <3>1, <3>2
  <2>2. ASSUME NEW i \in Nat, i \in S PROVE i + 1 \in S
    <3> SUFFICES ASSUME i + 1 <= n PROVE f[i + 1] \in Byte
      OBVIOUS
    <3>1. i + 1 \in 0..n /\ i + 1 \in 1..n /\ i + 1 # 0 /\ (i + 1) - 1 = i /\ f[i] \in Byte
      BY <1>1, <2>2
    <3>2. \/ f[i + 1] = CRC8_TABLE[Xor(f[i], bytes[i + 1]) + 1]
          \/ f[i + 1] = InitCRC8Table[Xor(f[i], bytes[i + 1]) % 256]
      BY <1>3, <3>1
    <3> QED
      BY <1>2, <3>1, <3>2
  <2> HIDE DEF S
  <2>3. Nat \subseteq S
    BY <2>1, <2>2, NatSetInduction
  <2> QED
    BY <1>1, <2>3 DEF S
<1>4. ASSUME NEW f PROVE Relay(f) <=> Plugin(f)
  <2>1. ASSUME \A i \in 0..n : f[i] \in Byte
        PROVE  \A i \in 0..n :
                  (IF i = 0 THEN 0 ELSE CRC8_TABLE[Xor(f[i - 1], bytes[i]) + 1])
                  = (IF i = 0 THEN 0 ELSE InitCRC8Table[Xor(f[i - 1], bytes[i]) % 256])
    <3> TAKE i \in 0..n
    <3>1. CASE i = 0
      BY <3>1
    <3>2. CASE i # 0
      <4>1. i \in 1..n /\ i - 1 \in 0..n
        BY <1>1, <3>2
      <4> QED
        BY <1>2, <2>1, <3>2, <4>1
    <3> QED
      BY <3>1, <3>2
  <2>2. ASSUME Relay(f) \/ Plugin(f) PROVE
           [i \in 0..n |-> IF i = 0 THEN 0 ELSE CRC8_TABLE[Xor(f[i - 1], bytes[i]) + 1]]
           = [i \in 0..n |-> IF i = 0 THEN 0 ELSE InitCRC8Table[Xor(f[i - 1], bytes[i]) % 256]]
    BY <1>3, <2>1, <2>2
  <2> QED
    BY <2>2
<1> DEFINE relay == CHOOSE f : Relay(f)
           plugin == CHOOSE f : Plugin(f)
<1>5. relay = plugin
  <2> HIDE DEF Relay, Plugin
  <2> QED
    BY <1>4, Zenon
<1>6. crc8(bytes) = relay[n]
  BY Zenon DEF crc8
<1>7. CalculateCRC8(bytes) = plugin[n]
  BY Zenon DEF CalculateCRC8
<1> QED
  BY <1>5, <1>6, <1>7

\* Whatever is in the buffer, at any moment, both sides make the same checksum
\* of it.
THEOREM SidesAlwaysAgree == Spec => []SidesAgree
<1>1. Inv => SidesAgree
  <2> SUFFICES ASSUME Inv PROVE SidesAgree
    OBVIOUS
  <2>1. buffer \in Seq(Byte)
    BY BufferIsFront, BytesOfStream, PrefixProperties DEF Inv, Slice
  <2> QED
    BY <2>1, ChecksumsAgree DEF SidesAgree
<1> QED
  BY <1>1, InvHolds, PTL
=============================================================================
