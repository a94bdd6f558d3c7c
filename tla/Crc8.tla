-------------------------------- MODULE Crc8 --------------------------------
(***************************************************************************)
(* The checksum of a packet, on both sides: the relay folds a literal table*)
(* over the bytes of header and payload (protocol.rs), the plugin a table  *)
(* it fills at start (InitCRC8Table).  Module Decoder computes them over   *)
(* what is in flight.                                                      *)
(***************************************************************************)
EXTENDS Integers, Sequences

Byte == 0..255

CRC8_TABLE ==
    << 0,   7,  14,   9,  28,  27,  18,  21,  56,  63,  54,  49,  36,  35,  42,  45,
       112, 119, 126, 121, 108, 107,  98, 101,  72,  79,  70,  65,  84,  83,  90,  93,
       224, 231, 238, 233, 252, 251, 242, 245, 216, 223, 214, 209, 196, 195, 202, 205,
       144, 151, 158, 153, 140, 139, 130, 133, 168, 175, 166, 161, 180, 179, 186, 189,
       199, 192, 201, 206, 219, 220, 213, 210, 255, 248, 241, 246, 227, 228, 237, 234,
       183, 176, 185, 190, 171, 172, 165, 162, 143, 136, 129, 134, 147, 148, 157, 154,
        39,  32,  41,  46,  59,  60,  53,  50,  31,  24,  17,  22,   3,   4,  13,  10,
        87,  80,  89,  94,  75,  76,  69,  66, 111, 104,  97, 102, 115, 116, 125, 122,
       137, 142, 135, 128, 149, 146, 155, 156, 177, 182, 191, 184, 173, 170, 163, 164,
       249, 254, 247, 240, 229, 226, 235, 236, 193, 198, 207, 200, 221, 218, 211, 212,
       105, 110, 103,  96, 117, 114, 123, 124,  81,  86,  95,  88,  77,  74,  67,  68,
        25,  30,  23,  16,   5,   2,  11,  12,  33,  38,  47,  40,  61,  58,  51,  52,
        78,  73,  64,  71,  82,  85,  92,  91, 118, 113, 120, 127, 106, 109, 100,  99,
        62,  57,  48,  55,  34,  37,  44,  43,   6,   1,   8,  15,  26,  29,  20,  19,
       174, 169, 160, 167, 178, 181, 188, 187, 150, 145, 152, 159, 138, 141, 132, 131,
       222, 217, 208, 215, 194, 197, 204, 203, 230, 225, 232, 239, 250, 253, 244, 243 >>

\* a ^ b of two bytes, place by place.
Xor(a, b) ==
    LET with[x \in Byte] ==
            LET Place(p) == p * (((x \div p) + (b \div p)) % 2)
            IN  Place(1) + Place(2) + Place(4) + Place(8)
                    + Place(16) + Place(32) + Place(64) + Place(128)
    IN  with[a]

\* crc8: the table over the bytes, from 0.
crc8(bytes) ==
    LET crc[i \in 0..Len(bytes)] ==
            IF i = 0 THEN 0 ELSE CRC8_TABLE[Xor(crc[i - 1], bytes[i]) + 1]
    IN  crc[Len(bytes)]

\* c ^ 0x07: the lowest three places are turned round.
Xor7(c) == c + 7 - 2 * (c % 8)

\* Mutant: another polynomial.
ShiftOther(c) == IF (c \div 128) % 2 = 1 THEN 2 * c + 3 - 2 * ((2 * c) % 4) ELSE 2 * c

\* One round of InitCRC8Table: the cell is wider than a byte and is only cut
\* to one at the end.
Shift(c) == IF (c \div 128) % 2 = 1 THEN Xor7(2 * c) ELSE 2 * c

InitCRC8Table == [i \in Byte |->
    Shift(Shift(Shift(Shift(Shift(Shift(Shift(Shift(i)))))))) % 256]

CalculateCRC8(bytes) ==
    LET crc[i \in 0..Len(bytes)] ==
            IF i = 0 THEN 0 ELSE InitCRC8Table[Xor(crc[i - 1], bytes[i]) % 256]
    IN  crc[Len(bytes)]
=============================================================================
