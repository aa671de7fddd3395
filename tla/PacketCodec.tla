---------------------------- MODULE PacketCodec -----------------------------
(***************************************************************************)
(* Packets as bytes: Packet::to_bytes, Packet::from_bytes and the checksum *)
(* (packet.cpp, packet.hpp). A byte is a digit of base Radix, which is 256 *)
(* in the code; the layout of the fields is the code's. The payload of a   *)
(* packet is a sequence of bytes here.                                     *)
(***************************************************************************)
EXTENDS Packet, Sequences

CONSTANT Radix

ASSUME CodecAssumption == Radix \in Nat /\ Radix > 10

ASSUME WidthAssumption == SeqSpace <= Radix * Radix * Radix * Radix

Byte == 0 .. Radix - 1

\* Numbers of two bytes are below this one.
WordBase == Radix * Radix

\* PacketKind, by value.
KindCodes == <<"None", "Data", "DataAck", "DataPush", "DataPushAck", "DataStop",
               "DataStopAck", "ConnReq", "ConnAck", "DisconnReq", "DisconnAck">>

KindCode(kind) == (CHOOSE i \in DOMAIN KindCodes : KindCodes[i] = kind) - 1

KindOf(code) == IF code < Len(KindCodes) THEN KindCodes[code + 1] ELSE "Unknown"

Magic == <<78 % Radix, 75 % Radix>>     \* 'N', 'K'

Version == 1

\* The value of a one in each byte of a number.
Place == <<1, Radix, Radix * Radix, Radix * Radix * Radix>>

\* n in bytes, the least significant one first, and back: the number of two
\* or of four bytes from byte i on.
little_endian(n, width) == [i \in 1 .. width |-> (n \div Place[i]) % Radix]

Word(bytes, i) == bytes[i] + Place[2] * bytes[i + 1]

DoubleWord(bytes, i) == Word(bytes, i) + Place[3] * Word(bytes, i + 2)

-----------------------------------------------------------------------------
\* The sum of the words that pairs of bytes are; a last byte without a
\* partner is a word by itself.
WordSum(bytes) ==
  LET sum[i \in 0 .. Len(bytes)] ==
        IF i = 0 THEN 0
                 ELSE sum[i - 1] + (IF i % 2 = 1 THEN bytes[i] ELSE Radix * bytes[i])
  IN  sum[Len(bytes)]

\* The loop that adds the carry to the sum until it fits into a word.
EndAroundCarry[sum \in Nat] ==
  IF sum < WordBase THEN sum
                    ELSE EndAroundCarry[(sum % WordBase) + (sum \div WordBase)]

\* Mutant: the byte without a partner is left out.
calc_checksum_pairs(bytes) ==
  LET pairs == SubSeq(bytes, 1, Len(bytes) - (Len(bytes) % 2))
  IN  WordBase - 1 - EndAroundCarry[WordSum(pairs)]

\* Defined for one byte at least: for an empty vector the loop of the code
\* runs away.
calc_checksum(bytes) == WordBase - 1 - EndAroundCarry[WordSum(bytes)]

\* The optional end of a packet.
LengthAndPayload(payload) ==
  IF Len(payload) \in 1 .. WordBase - 1
    THEN little_endian(Len(payload), 2) \o payload
    ELSE <<>>

to_bytes(p) ==
  LET Bytes(checksum) ==
        Magic \o little_endian(Version, 2) \o little_endian(checksum, 2)
        \o <<KindCode(p.kind), 0>> \o little_endian(p.seq, 4)
        \o LengthAndPayload(p.payload)
  IN  Bytes(calc_checksum(Bytes(0)))

\* std::nullopt.
Rejected == Packet("rejected", 0, <<>>)

PayloadSize(bytes) == Word(bytes, 13)

\* Thirteen bytes are too few for any size, whatever is read as the 14th.
TooShort(bytes) ==
  \/ Len(bytes) < 12
  \/ Len(bytes) = 13
  \/ Len(bytes) > 13 /\ Len(bytes) < 14 + PayloadSize(bytes)

\* The version is read and not compared.
from_bytes(bytes) ==
  IF \/ calc_checksum(bytes) # 0
     \/ TooShort(bytes)
     \/ SubSeq(bytes, 1, 2) # Magic
     \/ bytes[8] # 0
    THEN Rejected
    ELSE Packet(KindOf(bytes[7]), DoubleWord(bytes, 9),
                IF Len(bytes) = 12 THEN <<>>
                                   ELSE SubSeq(bytes, 15, 14 + PayloadSize(bytes)))
=============================================================================
