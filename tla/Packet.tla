------------------------------- MODULE Packet -------------------------------
(***************************************************************************)
(* Packets and sequence numbers of nkurdt (packet.hpp).                    *)
(*                                                                         *)
(* A sequence number is an unsigned integer of fixed width: uint32_t in    *)
(* the code, so SeqSpace is 2^32 there; a model chooses a smaller one.       *)
(* Comparison is plain integer comparison, addition and subtraction wrap.  *)
(***************************************************************************)
EXTENDS Integers

CONSTANTS
  SeqSpace,         \* number of sequence numbers
  SelectiveRepeat   \* selective_repeat_ of both ends; FALSE is go-back-n

ASSUME PacketAssumption == /\ SeqSpace \in Nat \ {0}
                           /\ SelectiveRepeat \in BOOLEAN

SequenceNumber == 0 .. SeqSpace - 1

\* Mutant: the sum is not reduced to the width of a sequence number.
PlusNoWrap(a, b) == a + b

\* operator+ and update() on sequence numbers.
Plus(a, b) == IF a + b < SeqSpace THEN a + b ELSE a + b - SeqSpace

\* operator-.
Minus(a, b) == IF a >= b THEN a - b ELSE a - b + SeqSpace

RequestKinds == {"Data", "DataPush", "DataStop", "ConnReq", "DisconnReq"}
AckKinds == {"DataAck", "DataPushAck", "DataStopAck", "ConnAck", "DisconnAck"}

get_ack_kind(kind) ==
  CASE kind = "Data"       -> "DataAck"
    [] kind = "DataPush"   -> "DataPushAck"
    [] kind = "DataStop"   -> "DataStopAck"
    [] kind = "ConnReq"    -> "ConnAck"
    [] kind = "DisconnReq" -> "DisconnAck"

is_ack(p) == p.kind \in AckKinds

(***************************************************************************)
(* The payload <<f, c>> stands for the bytes of chunk c of the f-th file   *)
(* that is sent; NoPayload for an empty payload vector.                    *)
(***************************************************************************)
NoPayload == <<0, 0>>

Packets == [kind : RequestKinds \cup AckKinds,
            seq : SequenceNumber,
            payload : Nat \X Nat]

Packet(kind, seq, payload) == [kind |-> kind, seq |-> seq, payload |-> payload]

SeqsOf(packets) == {p.seq : p \in packets}

\* std::set<Packet>::insert and unordered_map::emplace: packets compare by
\* their sequence number, and an element already there is kept.
Insert(packets, p) == IF p.seq \in SeqsOf(packets) THEN packets
                                                   ELSE packets \cup {p}
=============================================================================
