------------------------------- MODULE AnyPeer ------------------------------
(***************************************************************************)
(* The receiver against a peer that sends packets of every kind and        *)
(* sequence number in any order, acknowledgements too, over a path that    *)
(* may damage a datagram. What the receiver parses are bytes.              *)
(***************************************************************************)
EXTENDS Receiver, PacketCodec

CONSTANTS
  PeerPackets,  \* packets the peer may send
  MaxInjected   \* bound: datagrams the peer sends

ASSUME PeerAssumption ==
  /\ PeerPackets \subseteq [kind : RequestKinds \cup AckKinds,
                            seq : SequenceNumber,
                            payload : Seq(Byte)]
  /\ MaxInjected \in Nat

VARIABLES
  injected,     \* datagrams sent so far
  origin        \* the packet under way as the peer sent it, or NoOrigin

peerVars == <<injected, origin>>

NoOrigin == Rejected

AnyPeerInit ==
  /\ ReceiverInit
  /\ toReceiver = <<>>
  /\ toSender = <<>>
  /\ injected = 0
  /\ origin = NoOrigin

\* A datagram with one of its bytes changed, or its end cut off.
Damaged(bytes) ==
  ({[bytes EXCEPT ![i] = b] : i \in DOMAIN bytes, b \in Byte} \ {bytes})
    \cup {SubSeq(bytes, 1, n) : n \in 1 .. Len(bytes) - 1}

\* The payload fits into the length field, and the checksum sees it: when the
\* words of the length and the payload add up to a multiple of WordBase - 1, a
\* datagram that ends after the header is taken for a packet without payload.
Checkable(p) ==
  /\ Len(p.payload) < WordBase
  /\ p.payload # <<>> => WordSum(LengthAndPayload(p.payload)) % (WordBase - 1) # 0

\* What the receiver makes of each packet.
Parsed == [p \in PeerPackets |-> from_bytes(to_bytes(p))]
ParsedDamaged == [p \in PeerPackets |-> {from_bytes(d) : d \in Damaged(to_bytes(p))}]

Arrives(q) == toReceiver' = IF q = Rejected THEN <<>> ELSE <<q>>

PeerSends ==
  /\ injected < MaxInjected
  /\ injected' = injected + 1
  /\ toReceiver = <<>>
  /\ \E p \in PeerPackets :
       \/ Arrives(Parsed[p]) /\ origin' = p
       \/ \E q \in ParsedDamaged[p] :
            /\ Arrives(q)
            /\ origin' = IF q = Rejected THEN NoOrigin ELSE p
  /\ UNCHANGED <<toSender, receiverVars>>

PeerReceives ==
  /\ toSender # <<>>
  /\ toSender' = Tail(toSender)
  /\ UNCHANGED <<toReceiver, receiverVars, peerVars>>

ReceiverStep ==
  /\ ReceiverNext
  /\ origin' = IF toReceiver' = toReceiver THEN origin ELSE NoOrigin
  /\ UNCHANGED injected

Over == recvPc = "ended" /\ UNCHANGED <<receiverVars, netVars, peerVars>>

AnyPeerNext == PeerSends \/ PeerReceives \/ ReceiverStep \/ Over

AnyPeerSpec == AnyPeerInit /\ [][AnyPeerNext]_<<receiverVars, netVars, peerVars>>

-----------------------------------------------------------------------------
(***************************************************************************)
(* "It can be converted to a vector of bytes and vice versa" (packet.hpp): *)
(* a packet that the receiver handles is the one that was sent, in its     *)
(* kind, sequence number and payload; no damaged byte and no missing end   *)
(* gets past the checksum and the length (to_bytes, from_bytes); and a     *)
(* packet that was not damaged is not rejected. It holds for packets that  *)
(* are Checkable.                                                          *)
(***************************************************************************)
IntactOrRejected ==
  toReceiver = IF origin = NoOrigin THEN <<>> ELSE <<origin>>

\* What the acknowledgement a means for a packet with sequence number s.
Acknowledges(a, s) == IF SelectiveRepeat THEN a.seq = s ELSE s < a.seq

\* p is the only packet of the peer with its number, as in a sender that
\* numbers its packets one by one.
OnlyOne(p) == \A q \in PeerPackets : q.seq = p.seq => q = p

(***************************************************************************)
(* "Reliable Data Transfer" (README.md): when a packet is acknowledged,    *)
(* that very packet is in the receiver's hands, in kind and payload, and   *)
(* no damaged one in its place, or the receiver was told to start above it *)
(* (Receiver::recv, from_bytes). It holds for packets that are             *)
(* OnlyOne: a second packet with the number of a kept one is acknowledged  *)
(* and dropped. And it holds if all packets are Checkable.                 *)
(***************************************************************************)
AckedPacketsKept ==
  \A a \in ToSet(toSender) : \A p \in PeerPackets :
     OnlyOne(p) /\ Acknowledges(a, p.seq) => p.seq \in skipped \/ p \in Kept
=============================================================================
