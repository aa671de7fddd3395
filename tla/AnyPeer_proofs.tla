--------------------------- MODULE AnyPeer_proofs ---------------------------
(***************************************************************************)
(* The receiver never acknowledges a sequence number under which it has    *)
(* kept nothing, whoever sends to it and whatever is damaged on the way,   *)
(* and no packet in whose place it kept another: for every window, width   *)
(* of the sequence numbers, mode, capacity and set of packets, and also    *)
(* when the sequence numbers wrap around.                                  *)
(***************************************************************************)
EXTENDS AnyPeer, Receiver_proofs, Codec_proofs

\* What the receiver can be handed.
Handled ==
  ({Parsed[p] : p \in PeerPackets} \cup UNION {ParsedDamaged[p] : p \in PeerPackets})
    \ {Rejected}

\* What the receiver can answer.
Answers == [kind : {get_ack_kind(q.kind) : q \in Handled}, seq : Nat, payload : {NoPayload}]

\* The receiver has what is below its window, and answers for nothing else.
PeerInv ==
  /\ toReceiver \in Seq(Handled)
  /\ toSender \in Seq(Answers)
  /\ recvBuffer \in SUBSET Handled
  /\ os \in Seq(Handled)
  /\ files \in Seq(Seq(Handled))
  /\ first \in Nat
  /\ \A s \in 0 .. first - 1 : Has(s)
  /\ AcksTruthful

-----------------------------------------------------------------------------
(* Parsing.                                                                *)

\* What the receiver makes of a packet and of its damaged bytes.
LEMMA PeerPacket ==
  ASSUME NEW p \in PeerPackets
  PROVE  /\ from_bytes(to_bytes(p)) = Packet(p.kind, p.seq, IF Carried(p) THEN p.payload ELSE <<>>)
         /\ \A d \in Damaged(to_bytes(p)) :
              \/ from_bytes(d) = Rejected
              \/ /\ WordSum(LengthAndPayload(p.payload)) % (WordBase - 1) = 0
                 /\ Len(to_bytes(p)) # 12
                 /\ from_bytes(d) = Packet(p.kind, p.seq, <<>>)
<1>1. p \in BytePackets
  BY PeerAssumption DEF BytePackets
<1>2. PICK b : b = to_bytes(p)
  OBVIOUS
<1>3. b \in Seq(Byte) /\ Len(b) \in Nat
  <2>1. Layout(p, b, Len(p.payload))
    BY <1>1, <1>2, PacketBytes
  <2> QED BY <2>1, LenProperties DEF Layout
<1>4. ASSUME NEW j \in DOMAIN b, NEW v \in Byte, [b EXCEPT ![j] = v] # b
      PROVE  from_bytes([b EXCEPT ![j] = v]) = Rejected
  <2>1. v # b[j]
    BY <1>3, <1>4
  <2> QED BY <1>1, <1>2, <2>1, ChangedByteRejected
<1>5. ASSUME NEW n \in 1 .. Len(b) - 1
      PROVE  \/ from_bytes(SubSeq(b, 1, n)) = Rejected
             \/ /\ WordSum(LengthAndPayload(p.payload)) % (WordBase - 1) = 0
                /\ Len(b) # 12
                /\ from_bytes(SubSeq(b, 1, n)) = Packet(p.kind, p.seq, <<>>)
  <2>1. from_bytes(SubSeq(b, 1, n)) =
           IF n = 12 /\ WordSum(LengthAndPayload(p.payload)) % (WordBase - 1) = 0
             THEN Packet(p.kind, p.seq, <<>>)
             ELSE Rejected
    BY <1>1, <1>2, CutEndRejected
  <2>2. n = 12 => Len(b) # 12
    <3>1. PICK L \in Nat : L = Len(b) /\ n \in 1 .. L - 1
      BY <1>3
    <3>2. n = 12 => L # 12
      BY <3>1
    <3> QED BY <3>1, <3>2
  <2> QED BY <2>1, <2>2, Zenon
<1>6. from_bytes(b) = Packet(p.kind, p.seq, IF Carried(p) THEN p.payload ELSE <<>>)
  BY <1>1, <1>2, Parse
<1>7. ASSUME NEW d \in Damaged(b)
      PROVE  \/ from_bytes(d) = Rejected
             \/ /\ WordSum(LengthAndPayload(p.payload)) % (WordBase - 1) = 0
                /\ Len(b) # 12
                /\ from_bytes(d) = Packet(p.kind, p.seq, <<>>)
  <2>1. CASE \E j \in DOMAIN b, v \in Byte : d = [b EXCEPT ![j] = v] /\ d # b
    BY <1>4, <2>1, Zenon
  <2>2. CASE \E n \in 1 .. Len(b) - 1 : d = SubSeq(b, 1, n)
    BY <1>5, <2>2, Zenon
  <2>3. \/ \E j \in DOMAIN b, v \in Byte : d = [b EXCEPT ![j] = v] /\ d # b
        \/ \E n \in 1 .. Len(b) - 1 : d = SubSeq(b, 1, n)
    BY DEF Damaged
  <2> QED BY <2>1, <2>2, <2>3, Zenon
<1> QED BY <1>2, <1>6, <1>7, Zenon

\* What gets past the parser has a sequence number, whichever byte was
\* changed and wherever the end was cut off.
LEMMA HandledType ==
  \A q \in Handled : q.seq \in Nat
<1> SUFFICES ASSUME NEW p \in PeerPackets,
                    NEW d \in Damaged(to_bytes(p)) \cup {to_bytes(p)},
                    from_bytes(d) # Rejected
             PROVE  from_bytes(d).seq \in Nat
  BY DEF Handled, Parsed, ParsedDamaged
<1>1. from_bytes(d).seq = p.seq
  BY PeerPacket DEF Packet
<1>2. p.seq \in SequenceNumber
  BY PeerAssumption
<1> QED BY <1>1, <1>2, PacketAssumption DEF SequenceNumber

-----------------------------------------------------------------------------
(* The invariant.                                                          *)

\* The steps of the peer leave the receiver alone.
LEMMA PeerSteps ==
  ASSUME PeerInv, PeerSends \/ PeerReceives
  PROVE  PeerInv'
<1>1. UNCHANGED receiverVars
  BY DEF PeerSends, PeerReceives
<1>2. /\ recvBuffer' \in SUBSET Handled /\ os' \in Seq(Handled)
      /\ files' \in Seq(Seq(Handled)) /\ first' \in Nat
      /\ \A s \in 0 .. first' - 1 : Has(s)'
  BY <1>1, HasFrame DEF PeerInv, receiverVars
<1>3. CASE PeerSends
  <2>1. PICK q : Arrives(q) /\ (q = Rejected \/ q \in Handled)
    BY <1>3 DEF PeerSends, Handled, Parsed, ParsedDamaged
  <2>2. toReceiver' \in Seq(Handled)
    BY <2>1 DEF Arrives
  <2>3. toSender' = toSender
    BY <1>3 DEF PeerSends
  <2>4. AcksTruthful'
    BY <1>1, <2>3, HasFrame DEF PeerInv, AcksTruthful
  <2> QED BY <1>2, <2>2, <2>3, <2>4 DEF PeerInv
<1>4. CASE PeerReceives
  <2>1. toReceiver' = toReceiver /\ toSender # <<>> /\ toSender' = Tail(toSender)
    BY <1>4 DEF PeerReceives
  <2>2. toSender' \in Seq(Answers)
    BY <2>1 DEF PeerInv
  <2>3. ToSet(toSender') \subseteq ToSet(toSender)
    <3>1. PICK c \in Seq(Answers) : c = toSender /\ c # <<>>
      BY <2>1 DEF PeerInv
    <3>2. Len(c) \in Nat \ {0} /\ DOMAIN c = 1 .. Len(c)
      BY <3>1, EmptySeq, LenProperties
    <3>3. /\ DOMAIN Tail(c) = 1 .. Len(c) - 1
          /\ \A i \in 1 .. Len(c) - 1 : Tail(c)[i] = c[i + 1]
      BY <3>1, <3>2
    <3>4. \A i \in 1 .. Len(c) - 1 : i + 1 \in DOMAIN c
      BY <3>2
    <3> QED BY <2>1, <3>1, <3>3, <3>4 DEF ToSet
  <2>4. AcksTruthful'
    BY <1>1, <2>3, HasFrame DEF PeerInv, AcksTruthful
  <2> QED BY <1>2, <2>1, <2>2, <2>4 DEF PeerInv
<1> QED BY <1>3, <1>4


\* A new acknowledgement is truthful if its sequence number is.
LEMMA AnswerTruthful ==
  ASSUME PeerInv, NEW p \in Handled, NEW known, NEW s \in Nat, Reply(known, p.kind, s),
         \A t : Has(t) => Has(t)',
         IF SelectiveRepeat THEN Has(s)' ELSE \A t \in 0 .. s - 1 : Has(t)'
  PROVE  toSender' \in Seq(Answers) /\ AcksTruthful'
<1>1. PICK a : a = Packet(get_ack_kind(p.kind), s, NoPayload)
  OBVIOUS
<1>2. a \in Answers /\ a.seq = s
  BY <1>1 DEF Answers, Packet
<1>3. toSender' = toSender \/ toSender' \in Sent(toSender, a)
  BY <1>1 DEF Reply
<1>4. toSender' \in Seq(Answers) /\ ToSet(toSender') \subseteq ToSet(toSender) \cup {a}
  BY <1>2, <1>3, SentType DEF PeerInv
<1>5. Truthful(a)'
  BY <1>2 DEF Truthful
<1>6. \A q : Truthful(q) => Truthful(q)'
  BY DEF Truthful
<1> QED BY <1>4, <1>5, <1>6 DEF PeerInv, AcksTruthful

\* A packet that is handled.
LEMMA PeerReceivePacket ==
  ASSUME PeerInv, ReceivePacket
  PROVE  PeerInv'
<1>1. PICK i \in Deliverable(toReceiver) :
        /\ toReceiver' \in Received(toReceiver, i)
        /\ \/ IgnoreAck(toReceiver[i])
           \/ AckDuplicate(toReceiver[i])
           \/ RefuseBeyond(toReceiver[i])
           \/ Accept(toReceiver[i])
  BY DEF ReceivePacket
<1>2. PICK p : p = toReceiver[i]
  OBVIOUS
<1>3. p \in Handled /\ p.seq \in Nat /\ toReceiver' \in Seq(Handled)
  BY <1>1, <1>2, ReceivedType, HandledType DEF PeerInv
<1>4. first \in Nat
  BY DEF PeerInv
<1>5. ASSUME UNCHANGED receiverVars, toSender' \in Seq(Answers) /\ AcksTruthful'
      PROVE  PeerInv'
  BY <1>3, <1>5, HasFrame DEF PeerInv, receiverVars
<1>6. CASE IgnoreAck(p)
  <2>1. UNCHANGED receiverVars /\ toSender' = toSender
    BY <1>6 DEF IgnoreAck
  <2> QED BY <1>5, <2>1, HasFrame DEF PeerInv, AcksTruthful
<1>7. CASE AckDuplicate(p)
  <2>1. UNCHANGED receiverVars /\ \A t : Has(t) => Has(t)'
    BY <1>7, HasFrame DEF AckDuplicate
  <2>2. p.seq \in 0 .. first - 1
    BY <1>3, <1>4, <1>7 DEF AckDuplicate, Below
  <2>3. Reply(peerKnown, p.kind, IF SelectiveRepeat THEN p.seq ELSE first)
    BY <1>7 DEF AckDuplicate
  <2> QED BY <1>3, <1>4, <1>5, <2>1, <2>2, <2>3, AnswerTruthful DEF PeerInv
<1>8. CASE RefuseBeyond(p)
  <2>1. UNCHANGED receiverVars /\ \A t : Has(t) => Has(t)'
    BY <1>8, HasFrame DEF RefuseBeyond
  <2>2. Reply(peerKnown /\ ~ SelectiveRepeat, p.kind, first)
    BY <1>8 DEF RefuseBeyond
  <2>3. CASE SelectiveRepeat
    <3>1. toSender' = toSender
      BY <2>2, <2>3 DEF Reply
    <3> QED BY <1>5, <2>1, <3>1, HasFrame DEF PeerInv, AcksTruthful
  <2>4. CASE ~ SelectiveRepeat
    BY <1>3, <1>4, <1>5, <2>1, <2>2, <2>4, AnswerTruthful DEF PeerInv
  <2> QED BY <2>3, <2>4
<1>9. CASE Accept(p)
  <2>1. /\ recvBuffer' \in SUBSET Handled /\ os' \in Seq(Handled) /\ first' \in Nat
        /\ \A s : Has(s) => Has(s)'
        /\ Has(p.seq)'
        /\ \A s \in 0 .. first' - 1 : Has(s)'
    BY <1>3, <1>9, HandledType, AcceptHas DEF PeerInv
  <2>2. files' = files /\ Reply(peerKnown', p.kind, IF SelectiveRepeat THEN p.seq ELSE first')
    BY <1>9 DEF Accept
  <2>3. toSender' \in Seq(Answers) /\ AcksTruthful'
    BY <1>3, <2>1, <2>2, AnswerTruthful
  <2> QED BY <1>3, <2>1, <2>2, <2>3 DEF PeerInv
<1> QED BY <1>1, <1>2, <1>6, <1>7, <1>8, <1>9

\* What the receiver does besides leaves it what it has.
LEMMA PeerReceiverStep ==
  ASSUME PeerInv, ReceiverNext
  PROVE  PeerInv'
<1>1. CASE ReceivePacket
  BY <1>1, PeerReceivePacket
<1>2. CASE ReceiveFatal
  <2>1. /\ UNCHANGED <<first, skipped, recvBuffer, os, files>>
        /\ toReceiver' = toReceiver /\ toSender' = toSender
    BY <1>2 DEF ReceiveFatal, netVars
  <2>2. \A s : Has(s)' <=> Has(s)
    BY <2>1 DEF Has, Kept
  <2>3. AcksTruthful'
    BY <2>1, <2>2 DEF PeerInv, AcksTruthful, Truthful
  <2> QED BY <2>1, <2>2, <2>3 DEF PeerInv
<1>3. CASE SaveFile
  <2>1. /\ first' = first /\ skipped' = skipped /\ recvBuffer' = recvBuffer
        /\ toReceiver' = toReceiver /\ toSender' = toSender
        /\ os' = <<>> /\ files' = Append(files, os)
    BY <1>3 DEF SaveFile, netVars
  <2>2. os' \in Seq(Handled) /\ files' \in Seq(Seq(Handled))
    BY <2>1, AppendType DEF PeerInv
  <2>3. Kept' = Kept
    <3>1. files \in Seq(Seq(Handled)) /\ os \in Seq(Handled)
      BY DEF PeerInv
    <3> QED BY <1>3, <2>1, <3>1, SaveKeeps DEF Kept
  <2>4. \A s : Has(s)' <=> Has(s)
    BY <2>1, <2>3 DEF Has
  <2>5. AcksTruthful'
    BY <2>1, <2>4 DEF PeerInv, AcksTruthful, Truthful
  <2> QED BY <2>1, <2>2, <2>4, <2>5 DEF PeerInv
<1> QED BY <1>1, <1>2, <1>3 DEF ReceiverNext

\* PeerInv is inductive.
LEMMA PeerInvInductive == AnyPeerSpec => []PeerInv
<1>1. AnyPeerInit => PeerInv
  <2> SUFFICES ASSUME AnyPeerInit PROVE PeerInv
    OBVIOUS
  <2>1. /\ toReceiver = <<>> /\ toSender = <<>> /\ recvBuffer = {} /\ os = <<>>
        /\ files = <<>> /\ first = 0
    BY DEF AnyPeerInit, ReceiverInit
  <2>2. ToSet(<<>>) = {}
    BY DEF ToSet
  <2> QED BY <2>1, <2>2 DEF PeerInv, AcksTruthful
<1>2. PeerInv /\ [AnyPeerNext]_<<receiverVars, netVars, peerVars>> => PeerInv'
  <2> SUFFICES ASSUME PeerInv, [AnyPeerNext]_<<receiverVars, netVars, peerVars>>
               PROVE  PeerInv'
    OBVIOUS
  <2>1. CASE PeerSends \/ PeerReceives
    BY <2>1, PeerSteps
  <2>2. CASE ReceiverStep
    BY <2>2, PeerReceiverStep DEF ReceiverStep
  <2>3. CASE UNCHANGED <<receiverVars, netVars>>
    <3>1. UNCHANGED receiverVars /\ toReceiver' = toReceiver /\ toSender' = toSender
      BY <2>3 DEF netVars
    <3> QED BY <3>1, HasFrame DEF PeerInv, AcksTruthful, receiverVars
  <2> QED BY <2>1, <2>2, <2>3 DEF AnyPeerNext, Over
<1> QED BY <1>1, <1>2, PTL DEF AnyPeerSpec

-----------------------------------------------------------------------------
\* Whatever a peer sends, in whatever order, damaged or not, the receiver only
\* acknowledges sequence numbers under which it has kept a packet, or below
\* which it was told to start (Reply in every branch of recv(), receiver.cpp).
\* Which packet it kept, AnyPeerAckedKept says.
THEOREM AnyPeerAcksTruthful == AnyPeerSpec => []AcksTruthful
<1>1. PeerInv => AcksTruthful
  BY DEF PeerInv
<1> QED BY <1>1, PeerInvInductive, PTL

-----------------------------------------------------------------------------
(* What the receiver parses is what was sent.                              *)

\* A checkable packet arrives as it is, or not at all.
LEMMA CheckablePacket ==
  ASSUME NEW p \in PeerPackets, Checkable(p)
  PROVE  Parsed[p] = p /\ p # Rejected /\ ParsedDamaged[p] \subseteq {Rejected}
<1>1. p \in BytePackets
  BY PeerAssumption DEF BytePackets
<1>2. Parsed[p] = p
  BY <1>1, RoundTrip DEF Checkable, Parsed
<1>3. p # Rejected
  <2>1. p.kind # "rejected"
    BY <1>1 DEF BytePackets, RequestKinds, AckKinds
  <2> QED BY <2>1 DEF Rejected, Packet
<1>4. \A d \in Damaged(to_bytes(p)) : from_bytes(d) = Rejected
  <2>1. CASE p.payload = <<>>
    <3>1. ~ Carried(p)
      BY <2>1 DEF Carried
    <3>2. Layout(p, to_bytes(p), Len(p.payload))
      BY <1>1, PacketBytes
    <3>3. Len(to_bytes(p)) = 12
      BY <3>1, <3>2 DEF Layout
    <3> QED BY <3>3, PeerPacket
  <2>2. CASE p.payload # <<>>
    BY <2>2, PeerPacket DEF Checkable
  <2> QED BY <2>1, <2>2
<1> QED BY <1>2, <1>3, <1>4 DEF ParsedDamaged

\* If all packets are checkable, the receiver handles what the peer sent.
LEMMA HandledAreSent ==
  ASSUME \A p \in PeerPackets : Checkable(p)
  PROVE  Handled \subseteq PeerPackets
BY CheckablePacket DEF Handled, Parsed, ParsedDamaged

\* What the receiver has kept is among what it handled.
LEMMA KeptWasHandled == PeerInv => Kept \subseteq Handled
<1> SUFFICES ASSUME PeerInv PROVE Kept \subseteq Handled
  OBVIOUS
<1>1. recvBuffer \subseteq Handled /\ os \in Seq(Handled) /\ files \in Seq(Seq(Handled))
  BY DEF PeerInv
<1>2. \A j \in DOMAIN files : files[j] \in Seq(Handled)
  BY <1>1
<1>3. \A c \in Seq(Handled) : ToSet(c) \subseteq Handled
  BY DEF ToSet
<1> QED BY <1>1, <1>2, <1>3 DEF Kept

\* Whatever a peer sends, in whatever order, damaged or not: a packet that has
\* its number for itself and is acknowledged is the one the receiver wrote or
\* buffered, in kind and payload, or is older than the connection request that
\* it answered (Receiver::recv, Packet::from_bytes).
THEOREM AnyPeerAckedKept ==
  ASSUME \A p \in PeerPackets : Checkable(p)
  PROVE  AnyPeerSpec => []AckedPacketsKept
<1>1. PeerInv => AckedPacketsKept
  <2> SUFFICES ASSUME PeerInv, NEW a \in ToSet(toSender), NEW p \in PeerPackets,
                      OnlyOne(p), Acknowledges(a, p.seq), p.seq \notin skipped
               PROVE  p \in Kept
    BY DEF AckedPacketsKept
  <2>1. Truthful(a)
    BY DEF PeerInv, AcksTruthful
  <2>2. p.seq \in Nat
    BY PeerAssumption, PacketAssumption DEF SequenceNumber
  <2>3. Has(p.seq)
    <3>1. CASE SelectiveRepeat
      BY <2>1, <3>1 DEF Truthful, Acknowledges
    <3>2. CASE ~ SelectiveRepeat
      <4>1. p.seq < a.seq
        BY <3>2 DEF Acknowledges
      <4>2. a.seq \in Nat
        <5>1. toSender \in Seq(Answers)
          BY DEF PeerInv
        <5>2. a \in Answers
          BY <5>1 DEF ToSet
        <5> QED BY <5>2 DEF Answers
      <4>3. p.seq \in 0 .. a.seq - 1
        BY <2>2, <4>1, <4>2
      <4> QED BY <2>1, <3>2, <4>3 DEF Truthful
    <3> QED BY <3>1, <3>2
  <2>4. PICK q \in Kept : q.seq = p.seq
    BY <2>3 DEF Has, SeqsOf
  <2>5. q \in PeerPackets
    BY KeptWasHandled, HandledAreSent
  <2> QED BY <2>4, <2>5 DEF OnlyOne
<1> QED BY <1>1, PeerInvInductive, PTL

\* The receiver takes packets off its socket and puts none there.
LEMMA ReceiverTakes ==
  ASSUME ReceiverNext
  PROVE  \/ toReceiver' = toReceiver
         \/ \E i \in DOMAIN toReceiver : toReceiver' = RemoveAt(toReceiver, i)
<1>1. CASE ReceivePacket
  BY <1>1 DEF ReceivePacket, Deliverable, Received
<1>2. CASE ReceiveFatal
  BY <1>2 DEF ReceiveFatal, netVars
<1>3. CASE SaveFile
  BY <1>3 DEF SaveFile, netVars
<1> QED BY <1>1, <1>2, <1>3 DEF ReceiverNext

\* Whatever is done to a datagram on its way, one changed byte or a missing
\* end, the receiver handles what the peer sent or nothing: the checksum and
\* the length find the damage (Packet::from_bytes, recv() of receiver.cpp).
THEOREM AnyPeerIntact ==
  ASSUME \A p \in PeerPackets : Checkable(p)
  PROVE  AnyPeerSpec => []IntactOrRejected
<1>1. AnyPeerInit => IntactOrRejected
  BY DEF AnyPeerInit, IntactOrRejected
<1>2. IntactOrRejected /\ [AnyPeerNext]_<<receiverVars, netVars, peerVars>> => IntactOrRejected'
  <2> SUFFICES ASSUME IntactOrRejected, [AnyPeerNext]_<<receiverVars, netVars, peerVars>>
               PROVE  IntactOrRejected'
    OBVIOUS
  <2>1. CASE PeerSends
    <3>1. PICK p \in PeerPackets :
            \/ Arrives(Parsed[p]) /\ origin' = p
            \/ \E q \in ParsedDamaged[p] :
                 Arrives(q) /\ origin' = IF q = Rejected THEN NoOrigin ELSE p
      BY <2>1 DEF PeerSends
    <3>2. Parsed[p] = p /\ p # Rejected /\ ParsedDamaged[p] \subseteq {Rejected}
      BY CheckablePacket
    <3>3. CASE Arrives(p) /\ origin' = p
      BY <3>2, <3>3 DEF Arrives, IntactOrRejected, NoOrigin
    <3>4. CASE Arrives(Rejected) /\ origin' = NoOrigin
      BY <3>4 DEF Arrives, IntactOrRejected
    <3> QED BY <3>1, <3>2, <3>3, <3>4
  <2>2. CASE ReceiverStep
    <3>1. origin' = IF toReceiver' = toReceiver THEN origin ELSE NoOrigin
      BY <2>2 DEF ReceiverStep
    <3>2. CASE toReceiver' = toReceiver
      BY <3>1, <3>2 DEF IntactOrRejected
    <3>3. CASE toReceiver' # toReceiver
      <4>1. PICK i \in DOMAIN toReceiver : toReceiver' = RemoveAt(toReceiver, i)
        BY <2>2, <3>3, ReceiverTakes DEF ReceiverStep
      <4>2. toReceiver = <<origin>> /\ i = 1
        BY <4>1 DEF IntactOrRejected
      <4>3. toReceiver' = <<>>
        BY <4>1, <4>2 DEF RemoveAt
      <4> QED BY <3>1, <3>3, <4>3 DEF IntactOrRejected
    <3> QED BY <3>2, <3>3
  <2>3. CASE PeerReceives \/ UNCHANGED <<receiverVars, netVars, peerVars>>
    BY <2>3 DEF PeerReceives, netVars, peerVars, IntactOrRejected
  <2> QED BY <2>1, <2>2, <2>3 DEF AnyPeerNext, Over
<1> QED BY <1>1, <1>2, PTL DEF AnyPeerSpec
=============================================================================
