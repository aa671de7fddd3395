------------------------ MODULE FileTransfer_proofs -------------------------
(***************************************************************************)
(* Proofs about FileTransfer for all values of its constants: its type     *)
(* invariant and, as long as sequence numbers do not wrap around, that the *)
(* sender never takes a packet for acknowledged that the receiver does not *)
(* have.                                                                   *)
(***************************************************************************)
EXTENDS FileTransfer, Receiver_proofs

-----------------------------------------------------------------------------
(* Sequence numbers, packets and commands.                                 *)

\* Addition on sequence numbers stays among them.
LEMMA PlusType ==
  ASSUME NEW a \in SequenceNumber, NEW b \in 0 .. SeqSpace
  PROVE  Plus(a, b) \in SequenceNumber
BY PacketAssumption DEF Plus, SequenceNumber

\* A packet made of a kind, a sequence number and a payload is a packet.
LEMMA PacketType ==
  ASSUME NEW k \in RequestKinds \cup AckKinds, NEW s \in SequenceNumber,
         NEW d \in Nat \X Nat
  PROVE  /\ Packet(k, s, d) \in Packets
         /\ Packet(k, s, d).kind = k
         /\ Packet(k, s, d).seq = s
BY DEF Packet, Packets

\* get_ack_kind maps the kind of a request to the kind of its answer.
LEMMA AckKindType ==
  ASSUME NEW k \in RequestKinds
  PROVE  get_ack_kind(k) \in AckKinds
BY DEF get_ack_kind, RequestKinds, AckKinds

\* The receiver answers with a packet.
LEMMA AnswerType ==
  ASSUME NEW p \in Packets, ~ is_ack(p), NEW s \in SequenceNumber
  PROVE  /\ Packet(get_ack_kind(p.kind), s, NoPayload) \in Packets
         /\ Packet(get_ack_kind(p.kind), s, NoPayload).seq = s
<1>1. p.kind \in RequestKinds
  BY DEF Packets, is_ack
<1>2. NoPayload \in Nat \X Nat
  BY DEF NoPayload
<1> QED BY <1>1, <1>2, AckKindType, PacketType

\* The fields of a packet.
LEMMA FieldType ==
  ASSUME NEW p \in Packets
  PROVE  p.seq \in SequenceNumber /\ p.kind \in RequestKinds \cup AckKinds
BY DEF Packets

\* The fields of a command.
LEMMA CommandType ==
  ASSUME NEW c \in Seq(Commands), c # <<>>
  PROVE  Head(c).chunks \in Nat /\ Tail(c) \in Seq(Commands)
<1>1. Head(c) \in Commands /\ Tail(c) \in Seq(Commands)
  BY HeadTailProperties
<1> QED BY <1>1 DEF Commands

-----------------------------------------------------------------------------
(* Type correctness.                                                       *)

\* What keeps the types: send_packet has a packet to enqueue, the send thread
\* a sequence number to give up, and the receive thread sets the state only
\* for an acknowledgement that has one.
TypeInv ==
  /\ TypeOK
  /\ mainPc = "pool" => log # <<>>
  /\ sendPc \in {"popped", "exhausted"} => sendSeq \in SequenceNumber
  /\ ackPc = "state" => \E s \in SenderStates : Awaited(s, ackPacket.kind)

\* The types hold initially; the next lemmas show that each thread of the
\* sender and the receiver preserve them.
LEMMA TypeInit == Init => TypeInv
<1> SUFFICES ASSUME Init PROVE TypeInv
  OBVIOUS
<1> USE PacketAssumption, NetworkAssumption, SenderAssumption, ReceiverAssumption
<1>1. NoPacket \in Packets
  <2>1. 0 \in SequenceNumber /\ "ConnAck" \in AckKinds /\ NoPayload \in Nat \X Nat
    BY DEF NoPayload, AckKinds, SequenceNumber
  <2> QED BY <2>1, PacketType DEF NoPacket
<1>2. SenderTypeOK
  BY <1>1 DEF Init, SenderInit, TimerInit, SenderTypeOK, SenderStates, RequestKinds, SequenceNumber, NoSeq, NoEntry
<1>3. ReceiverTypeOK
  <2>1. peerKnown \in BOOLEAN
    BY Zenon DEF Init, ReceiverInit
  <2> QED BY <2>1 DEF Init, ReceiverInit, ReceiverTypeOK, SequenceNumber
<1> QED BY <1>2, <1>3 DEF Init, SenderInit, TypeInv, TypeOK

\* The main thread: connect, send, disconnect, stop and send_packet.
LEMMA TypeMain == TypeInv /\ MainNext /\ UNCHANGED receiverVars => TypeInv'
<1> SUFFICES ASSUME TypeInv, MainNext, UNCHANGED receiverVars PROVE TypeInv'
  OBVIOUS
<1> USE PacketAssumption, SenderAssumption DEF TypeInv, TypeOK, SenderTypeOK,
        MainNext, mainVars, packetVars, fileVars, timerVars, sendVars, ackVars, netVars
<1>1. ReceiverTypeOK'
  BY DEF ReceiverTypeOK, receiverVars
<1>2. CASE connect
  BY <1>1, <1>2 DEF connect, Typed, StartControl, SenderStates, RequestKinds
<1>3. CASE send
  <2>1. Head(script).chunks \in Nat /\ Tail(script) \in Seq(Commands)
    BY <1>3, CommandType DEF send, Typed
  <2> QED BY <1>1, <1>3, <2>1 DEF send, Typed, StartControl, SenderStates, RequestKinds
<1>4. CASE disconnect
  BY <1>1, <1>4 DEF disconnect, Typed, StartControl, SenderStates, RequestKinds
<1>5. CASE stop
  <2>1. running' \in BOOLEAN
    BY <1>5, Zenon DEF stop
  <2> QED BY <1>1, <1>5, <2>1 DEF stop, Typed
<1>6. CASE join
  BY <1>1, <1>6 DEF join
<1>13. CASE StopTimer
  BY <1>1, <1>13 DEF StopTimer
<1>7. CASE TakeSequenceNumber
  <2>1. NewPacket \in Packets
    <3>1. (IF kind = "Data" THEN <<file, chunk>> ELSE NoPayload) \in Nat \X Nat
      BY DEF NoPayload
    <3> QED BY <3>1, PacketType DEF NewPacket
  <2>2. Plus(upper, 1) \in SequenceNumber
    BY PlusType
  <2>3. Append(log, NewPacket) \in Seq(Packets) /\ Append(log, NewPacket) # <<>>
    BY <2>1, AppendType
  <2> QED BY <1>1, <1>7, <2>2, <2>3 DEF TakeSequenceNumber
<1>14. CASE FindRoom
  BY <1>1, <1>14 DEF FindRoom
<1>8. CASE GiveUpWindow
  BY <1>1, <1>8 DEF GiveUpWindow
<1>9. CASE Enqueue
  <2> DEFINE p == log[Len(log)]
  <2>1. p \in Packets /\ p.seq \in SequenceNumber
    BY <1>9, LastType, FieldType DEF Enqueue
  <2>2. Insert(pool, p) \in SUBSET Packets
    BY <2>1 DEF Insert
  <2> HIDE DEF p
  <2> QED BY <1>1, <1>9, <2>1, <2>2 DEF Enqueue, p
<1>10. CASE WaitState
  BY <1>1, <1>10 DEF WaitState
<1>11. CASE NextChunk
  BY <1>1, <1>11 DEF NextChunk, RequestKinds
<1>12. CASE Drain
  BY <1>1, <1>12 DEF Drain, StartControl, SenderStates, RequestKinds
<1> QED BY <1>2, <1>3, <1>4, <1>5, <1>6, <1>7, <1>8, <1>9, <1>10, <1>11, <1>12, <1>13,
            <1>14

\* The send thread: send_handler.
LEMMA TypeSend == TypeInv /\ SendNext /\ UNCHANGED receiverVars => TypeInv'
<1> SUFFICES ASSUME TypeInv, SendNext, UNCHANGED receiverVars PROVE TypeInv'
  OBVIOUS
<1> USE PacketAssumption, SenderAssumption DEF TypeInv, TypeOK, SenderTypeOK,
        SendNext, mainVars, fileVars, timerVars, sendVars, ackVars
<1>1. ReceiverTypeOK'
  BY DEF ReceiverTypeOK, receiverVars
<1>2. CASE Pop
  BY <1>1, <1>2 DEF Pop
<1>3. CASE SendExit
  BY <1>1, <1>3 DEF SendExit
<1>4. CASE CleanUp
  BY <1>1, <1>4 DEF CleanUp, remove_event, LoopOrExit, NoEntry, NoSeq
<1>5. CASE SkipEmptyWindow
  BY <1>1, <1>5 DEF SkipEmptyWindow, LoopOrExit, NoSeq
<1>6. CASE Transmit
  <2>1. retry' \in [SequenceNumber -> Nat \cup {NoEntry}]
    <3>1. \A n \in Nat \cup {NoEntry} : Retried(n) \in Nat \cup {NoEntry}
      BY DEF Retried, NoEntry
    <3>2. retry' = [retry EXCEPT ![sendSeq] = Retried(retry[sendSeq])]
      BY <1>6 DEF Transmit
    <3> QED BY <3>1, <3>2
  <2>2. /\ toReceiver' \in Seq(Packets)
        /\ timer' \in SUBSET SequenceNumber
        /\ timedOut' \in SUBSET SequenceNumber
    <3>1. CASE sendSeq \in SeqsOf(pool)
      <4> DEFINE p == CHOOSE q \in pool : q.seq = sendSeq
      <4>1. p \in pool /\ p.seq = sendSeq
        BY <3>1 DEF SeqsOf
      <4>2. p \in Packets /\ sendSeq \in SequenceNumber
        BY <4>1, FieldType
      <4>3. toReceiver' \in Sent(toReceiver, p) /\ timer' = timer \cup {sendSeq} /\ timedOut' = timedOut
        BY <1>6, <3>1 DEF Transmit, register_event
      <4> HIDE DEF p
      <4> QED BY <4>2, <4>3, SentType
    <3>2. CASE sendSeq \notin SeqsOf(pool)
      BY <1>6, <3>2 DEF Transmit, remove_event
    <3> QED BY <3>1, <3>2
  <2> QED BY <1>1, <1>6, <2>1, <2>2 DEF Transmit, LoopOrExit, NoSeq
<1>7. CASE Exhaust
  BY <1>1, <1>7 DEF Exhaust
<1>8. CASE GiveUpPacket
  <2>1. running' \in BOOLEAN
    BY <1>8, Zenon DEF GiveUpPacket
  <2> QED BY <1>1, <1>8, <2>1 DEF GiveUpPacket, LoopOrExit, NoSeq, SenderStates
<1> QED BY <1>2, <1>3, <1>4, <1>5, <1>6, <1>7, <1>8

\* The timer's thread and timeout_handler.
LEMMA TypeTimer ==
  TypeInv /\ (TimerNext \/ TimeoutNext) /\ UNCHANGED receiverVars => TypeInv'
<1> SUFFICES ASSUME TypeInv, TimerNext \/ TimeoutNext, UNCHANGED receiverVars PROVE TypeInv'
  OBVIOUS
<1> USE DEF TypeInv, TypeOK, SenderTypeOK, TimerNext, TimeoutNext, TimeoutFrame,
        mainVars, fileVars, timerVars, sendVars, ackVars, netVars
<1>1. ReceiverTypeOK'
  BY DEF ReceiverTypeOK, receiverVars
<1>2. CASE TimerNext
  BY <1>1, <1>2 DEF Expire, time_out
<1>3. CASE TimeoutNext
  BY <1>1, <1>3 DEF Repend, map_timed_out_events, TimeoutExit, LoopOrExit
<1> QED BY <1>2, <1>3

\* The receive thread: recv_handler.
LEMMA TypeAck == TypeInv /\ AckNext /\ UNCHANGED receiverVars => TypeInv'
<1> SUFFICES ASSUME TypeInv, AckNext, UNCHANGED receiverVars PROVE TypeInv'
  OBVIOUS
<1> USE PacketAssumption, SenderAssumption DEF TypeInv, TypeOK, SenderTypeOK,
        AckNext, mainVars, fileVars, timerVars, sendVars, ackVars
<1>1. ReceiverTypeOK'
  BY DEF ReceiverTypeOK, receiverVars
<1>2. CASE ReceiveAck
  <2>1. ackPacket' \in Packets /\ toSender' \in Seq(Packets)
    BY <1>2, ReceivedType DEF ReceiveAck
  <2>2. ackPc' = "state" => Awaited(state', ackPacket'.kind)
    BY <1>2 DEF ReceiveAck
  <2> QED BY <1>1, <1>2, <2>1, <2>2 DEF ReceiveAck
<1>3. CASE SetState
  <2>1. StateAcked(ackPacket.kind) \in SenderStates
    BY <1>3, Zenon DEF SetState, StateAcked, Awaited, SenderStates
  <2> QED BY <1>1, <1>3, <2>1 DEF SetState
<1>4. CASE HandleAck
  <2>1. lower' \in SequenceNumber /\ acked' \in SUBSET SequenceNumber
    <3>1. ackPacket.seq \in SequenceNumber
      BY FieldType
    <3>2. CASE RepeatedAck \/ CumulativeAck \/ OldAck
      BY <3>1, <3>2 DEF RepeatedAck, CumulativeAck, OldAck
    <3>3. CASE SelectiveAck
      <4>1. PICK n \in 0 .. SeqSpace - 1 :
              /\ lower' = Plus(lower, n)
              /\ acked' = (acked \cup {ackPacket.seq}) \ {Plus(lower, i) : i \in 0 .. n - 1}
        BY <3>3 DEF SelectiveAck
      <4>2. lower' \in SequenceNumber
        BY <4>1, PlusType
      <4> QED BY <3>1, <4>1, <4>2
    <3> QED BY <1>4, <3>2, <3>3 DEF HandleAck
  <2>2. pending' \in SUBSET SequenceNumber
    BY <1>4 DEF HandleAck, RepeatedAck, CumulativeAck, OldAck, SelectiveAck
  <2>3. dupTimes' \in Nat
    BY <1>4 DEF HandleAck, RepeatedAck, CumulativeAck, OldAck, SelectiveAck
  <2>4. ackPacket' \in Packets
    <3>1. 0 \in SequenceNumber /\ "ConnAck" \in AckKinds /\ NoPayload \in Nat \X Nat
      BY DEF NoPayload, AckKinds, SequenceNumber
    <3> QED BY <1>4, <3>1, PacketType DEF HandleAck, NoPacket
  <2> QED BY <1>1, <1>4, <2>1, <2>2, <2>3, <2>4 DEF HandleAck, LoopOrExit
<1>5. CASE AckExit
  BY <1>1, <1>5 DEF AckExit
<1>6. CASE AckFatal
  <2>1. running' \in BOOLEAN
    BY <1>6, Zenon DEF AckFatal
  <2> QED BY <1>1, <1>6, <2>1 DEF AckFatal
<1> QED BY <1>2, <1>3, <1>4, <1>5, <1>6

\* The state machine of the receiver stays among its states.
LEMMA StateAfterType ==
  ASSUME NEW s \in {"Idle", "Connected", "Receiving"}, NEW k
  PROVE  StateAfter(s, k) \in {"Idle", "Connected", "Receiving"}
BY Zenon DEF StateAfter

\* The receiver: Receiver::recv and its client.
LEMMA TypeReceiver == TypeInv /\ ReceiverNext /\ UNCHANGED senderVars => TypeInv'
<1> SUFFICES ASSUME TypeInv, ReceiverNext, UNCHANGED senderVars PROVE TypeInv'
  OBVIOUS
<1> USE PacketAssumption, ReceiverAssumption DEF TypeInv, TypeOK, ReceiverTypeOK, netVars
<1>1. SenderTypeOK'
  BY DEF SenderTypeOK, senderVars
<1>2. /\ mainPc' = "pool" => log' # <<>>
      /\ sendPc' \in {"popped", "exhausted"} => sendSeq' \in SequenceNumber
      /\ ackPc' = "state" => \E s \in SenderStates : Awaited(s, ackPacket'.kind)
  BY DEF senderVars
<1>3. CASE ReceivePacket
  <2>1. PICK i \in Deliverable(toReceiver) :
          /\ toReceiver' \in Received(toReceiver, i)
          /\ \/ IgnoreAck(toReceiver[i])
             \/ AckDuplicate(toReceiver[i])
             \/ RefuseBeyond(toReceiver[i])
             \/ Accept(toReceiver[i])
    BY <1>3 DEF ReceivePacket
  <2> DEFINE p == toReceiver[i]
  <2>2. p \in Packets /\ p.seq \in SequenceNumber /\ toReceiver' \in Seq(Packets)
    BY <2>1, ReceivedType, FieldType
  <2> HIDE DEF p
  <2>3. ASSUME NEW known, NEW s \in SequenceNumber, ~ is_ack(p), Reply(known, p.kind, s)
        PROVE  toSender' \in Seq(Packets)
    BY <2>2, <2>3, AnswerType, SentType DEF Reply
  <2>4. CASE IgnoreAck(p)
    BY <1>1, <1>2, <2>2, <2>4 DEF IgnoreAck, receiverVars
  <2>5. CASE AckDuplicate(p)
    BY <1>1, <1>2, <2>2, <2>3, <2>5 DEF AckDuplicate, receiverVars
  <2>6. CASE RefuseBeyond(p)
    BY <1>1, <1>2, <2>2, <2>3, <2>6 DEF RefuseBeyond, receiverVars
  <2>7. CASE Accept(p)
    <3> DEFINE sync == recvState = "Idle" /\ p.kind = "ConnReq"
               lo == IF sync THEN p.seq ELSE first
               hi == IF sync THEN Plus(p.seq, RecvWindow) ELSE second
               buffer == Insert(recvBuffer, p)
               written(n) == [j \in 1 .. n |-> PacketAt(buffer, lo + j - 1)]
    <3>1. lo \in SequenceNumber /\ hi \in SequenceNumber
      BY <2>2, PlusType
    <3>2. buffer \in SUBSET Packets
      BY <2>2, InsertType
    <3>3. PICK n \in 0 .. SeqSpace :
            /\ Slides(buffer, lo, n)
            /\ first' = Plus(lo, n)
            /\ second' = Plus(hi, n)
            /\ os' = os \o written(n)
            /\ recvBuffer' = {q \in buffer : q.seq < lo \/ q.seq >= lo + n}
      BY <2>7 DEF Accept
    <3>4. recvState' \in {"Idle", "Connected", "Receiving"}
      BY <2>7, StateAfterType DEF Accept
    <3>5. peerKnown' \in BOOLEAN
      BY <2>7, Zenon DEF Accept
    <3>6. skipped' \in SUBSET SequenceNumber
      <4>1. 0 .. p.seq - 1 \subseteq SequenceNumber
        BY <2>2 DEF SequenceNumber
      <4> QED BY <2>7, <4>1 DEF Accept
    <3>7. recvPc' \in {"loop", "yielded", "ended"} /\ files' = files
      BY <2>7 DEF Accept
    <3>8. Reply(peerKnown', p.kind, IF SelectiveRepeat THEN p.seq ELSE first') /\ ~ is_ack(p)
      BY <2>7 DEF Accept
    <3> HIDE DEF lo, hi, buffer
    <3>9. first' \in SequenceNumber /\ second' \in SequenceNumber
      BY <3>1, <3>3, PlusType
    <3>10. written(n) \in Seq(Packets)
      <4>1. lo \in Nat /\ n \in Nat
        BY <3>1 DEF SequenceNumber
      <4> QED BY <3>2, <3>3, <4>1, SlideType
    <3> HIDE DEF written
    <3>11. os' \in Seq(Packets)
      BY <3>3, <3>10, ConcatProperties
    <3>12. recvBuffer' \in SUBSET Packets
      BY <3>2, <3>3
    <3>13. toSender' \in Seq(Packets)
      BY <2>2, <2>3, <3>8, <3>9
    <3> QED BY <1>1, <1>2, <2>2, <3>4, <3>5, <3>6, <3>7, <3>9, <3>11, <3>12, <3>13
  <2> QED BY <2>1, <2>4, <2>5, <2>6, <2>7 DEF p
<1>4. CASE ReceiveFatal
  BY <1>1, <1>2, <1>4 DEF ReceiveFatal
<1>5. CASE SaveFile
  BY <1>1, <1>2, <1>5, AppendType, EmptySeq DEF SaveFile
<1> QED BY <1>3, <1>4, <1>5 DEF ReceiverNext

\* Whatever the constants are, and also when sequence numbers wrap around,
\* every variable of both programs and of the path between them keeps its
\* type: no handler leaves the range of a sequence number, dequeues what is
\* not there or loses an acknowledgement's state.
THEOREM TypeCorrect == Spec => []TypeOK
<1>1. Init => TypeInv
  BY TypeInit
<1>2. TypeInv /\ [Next]_vars => TypeInv'
  <2> SUFFICES ASSUME TypeInv, [Next]_vars PROVE TypeInv'
    OBVIOUS
  <2>1. CASE SenderNext /\ UNCHANGED receiverVars
    BY <2>1, TypeMain, TypeSend, TypeAck, TypeTimer DEF SenderNext
  <2>2. CASE ReceiverNext /\ UNCHANGED senderVars
    BY <2>2, TypeReceiver
  <2>3. CASE UNCHANGED vars
    BY <2>3 DEF vars, senderVars, receiverVars, netVars, TypeInv, TypeOK,
                SenderTypeOK, ReceiverTypeOK
  <2> QED BY <2>1, <2>2, <2>3 DEF Next, Idle
<1>3. TypeInv => TypeOK
  BY DEF TypeInv
<1> QED BY <1>1, <1>2, <1>3, PTL DEF Spec

-----------------------------------------------------------------------------
(* Acknowledgements. While sequence numbers do not wrap around, AckInv of  *)
(* FileTransfer is an invariant.                                           *)

\* AckInv holds initially: no packet exists.
LEMMA AckInit == Init => AckInv
<1> SUFFICES ASSUME Init PROVE AckInv
  OBVIOUS
<1>1. ToSet(<<>>) = {} /\ Len(<<>>) = 0 /\ DOMAIN <<>> = {}
  BY DEF ToSet
<1>2. Kept = {}
  <2>1. recvBuffer = {} /\ os = <<>> /\ files = <<>>
    BY DEF Init, ReceiverInit
  <2> QED BY <1>1, <2>1 DEF Kept
<1>3. Numbered
  BY <1>1, SenderAssumption DEF Init, SenderInit, Numbered
<1>4. Intact
  BY <1>1, <1>2 DEF Init, SenderInit, Intact
<1>5. ReceiverHas
  BY <1>1 DEF Init, SenderInit, ReceiverInit, ReceiverHas
<1>6. AcksTruthful
  BY <1>1 DEF Init, AcksTruthful
<1>7. SenderTruthful
  BY DEF Init, SenderInit, SenderTruthful
<1>8. WindowOK /\ RoomKept
  BY <1>1, SenderAssumption DEF Init, SenderInit, WindowOK, RoomKept
<1> QED BY <1>3, <1>4, <1>5, <1>6, <1>7, <1>8 DEF AckInv

\* The receiver has only what was sent.
LEMMA HasBound ==
  ASSUME TypeInv, Numbered, Intact, ReceiverHas, NEW s, Has(s)
  PROVE  /\ s \in 0 .. Len(log) - 1
         /\ s \in skipped \/ log[s + 1] \in Kept
<1>1. log \in Seq(Packets)
  BY DEF TypeInv, TypeOK, SenderTypeOK
<1>2. CASE s \in skipped
  BY <1>2 DEF ReceiverHas
<1>3. CASE s \in SeqsOf(Kept)
  <2>1. PICK p \in Kept : p.seq = s
    BY <1>3 DEF SeqsOf
  <2>2. PICK i \in DOMAIN log : p = log[i]
    BY <2>1 DEF Intact, ToSet
  <2>3. i \in 1 .. Len(log) /\ Len(log) \in Nat
    BY <1>1, <2>2, LenProperties
  <2>4. s = i - 1
    BY <2>1, <2>2 DEF Numbered
  <2>5. s \in 0 .. Len(log) - 1 /\ s + 1 = i
    BY <2>3, <2>4
  <2> QED BY <2>1, <2>2, <2>5
<1> QED BY <1>2, <1>3 DEF Has

\* The main thread makes and enqueues packets.
LEMMA AckMain ==
  ASSUME NoWrap, TypeInv, AckInv, MainNext, UNCHANGED receiverVars
  PROVE  AckInv'
<1> USE DEF TypeInv, TypeOK, SenderTypeOK
<1>1. /\ UNCHANGED <<toReceiver, toSender, acked, lower, ackPc, ackPacket>>
      /\ UNCHANGED <<first, skipped>>
  BY DEF MainNext, netVars, ackVars, receiverVars
<1>2. AcksTruthful' /\ SenderTruthful'
  BY <1>1, HasFrame DEF AckInv, AcksTruthful, SenderTruthful
<1>3. CASE TakeSequenceNumber
  <2> DEFINE p == NewPacket
  <2>1. /\ upper = Len(log) /\ upper \in Nat /\ lower \in Nat /\ upper + 1 < SeqSpace
        /\ MaxPackets \in Nat
    BY <1>3, PacketAssumption, SenderAssumption
       DEF AckInv, WindowOK, Numbered, TakeSequenceNumber, NoWrap, SequenceNumber
  <2>2. upper' = upper + 1
    BY <1>3, <2>1 DEF TakeSequenceNumber, Plus
  <2>3. p \in Packets /\ p.seq = upper
    <3>1. (IF kind = "Data" THEN <<file, chunk>> ELSE NoPayload) \in Nat \X Nat
      BY DEF NoPayload
    <3> QED BY <3>1, PacketType DEF NewPacket
  <2>4. log' = Append(log, p) /\ pool' = pool /\ Len(log) < MaxPackets
    BY <1>3 DEF TakeSequenceNumber
  <2> HIDE DEF p
  <2>5. /\ Len(log') = Len(log) + 1 /\ DOMAIN log' = 1 .. Len(log) + 1 /\ DOMAIN log = 1 .. Len(log)
        /\ ToSet(log') = ToSet(log) \cup {p}
        /\ \A i \in 1 .. Len(log) : log'[i] = log[i]
        /\ log'[Len(log) + 1] = p
    BY <2>3, <2>4, AppendType, AppendElements, LenProperties
  <2>6. Numbered'
    <3>1. Len(log') <= MaxPackets
      BY <2>1, <2>4, <2>5
    <3>2. ASSUME NEW i \in DOMAIN log' PROVE log'[i].seq = i - 1
      <4> i \in 1 .. Len(log) + 1
        BY <2>5
      <4>1. CASE i = Len(log) + 1
        BY <2>1, <2>3, <2>5, <4>1
      <4>2. CASE i # Len(log) + 1
        <5>1. i \in 1 .. Len(log)
          BY <2>1, <4>2
        <5> QED BY <2>5, <5>1 DEF AckInv, Numbered
      <4> QED BY <4>1, <4>2
    <3> QED BY <3>1, <3>2 DEF Numbered
  <2>7. Intact'
    BY <1>1, <2>4, <2>5, HasFrame DEF AckInv, Intact
  <2>8. ReceiverHas'
    <3>1. first' <= Len(log') /\ skipped' \subseteq 0 .. Len(log') - 1
      BY <1>1, <2>1, <2>5 DEF AckInv, ReceiverHas, ReceiverTypeOK, SequenceNumber
    <3> QED BY <1>1, <3>1, HasFrame DEF AckInv, ReceiverHas
  <2>9. WindowOK' /\ RoomKept'
    BY <1>1, <1>3, <2>1, <2>2, <2>5, SenderAssumption
       DEF AckInv, WindowOK, RoomKept, TakeSequenceNumber
  <2> QED BY <1>2, <2>6, <2>7, <2>8, <2>9 DEF AckInv
<1>4. CASE /\ UNCHANGED <<log, upper>>
           /\ pool' \subseteq pool \cup ToSet(log)
           /\ mainPc' = "number" => WindowAvailable
  <2>1. Numbered' /\ WindowOK'
    BY <1>1, <1>4 DEF AckInv, Numbered, WindowOK
  <2>2. ReceiverHas'
    BY <1>1, <1>4, HasFrame DEF AckInv, ReceiverHas
  <2>3. Intact'
    BY <1>1, <1>4, HasFrame DEF AckInv, Intact
  <2>4. RoomKept'
    BY <1>1, <1>4, SenderAssumption
       DEF AckInv, WindowOK, RoomKept, WindowAvailable, Minus, SequenceNumber
  <2> QED BY <1>2, <2>1, <2>2, <2>3, <2>4 DEF AckInv
<1>5. CASE Enqueue
  <2> DEFINE p == log[Len(log)]
  <2>1. p \in ToSet(log)
    BY <1>5, LastType, LenProperties DEF Enqueue, ToSet
  <2>2. pool' \subseteq pool \cup {p} /\ UNCHANGED <<log, upper>> /\ mainPc' # "number"
    BY <1>5 DEF Enqueue, Insert
  <2> QED BY <1>4, <2>1, <2>2
<1>6. CASE connect \/ send \/ disconnect \/ stop \/ StopTimer \/ join \/ FindRoom
             \/ GiveUpWindow \/ WaitState \/ NextChunk \/ Drain
  <2>1. UNCHANGED packetVars /\ (mainPc' = "number" => WindowAvailable)
    BY <1>6 DEF connect, send, disconnect, stop, StopTimer, join, FindRoom, GiveUpWindow,
                WaitState, NextChunk, Drain, Typed, StartControl
  <2> QED BY <1>4, <2>1 DEF packetVars
<1> QED BY <1>3, <1>5, <1>6 DEF MainNext

\* The send thread transmits packets of the pool and forgets others.
LEMMA AckSend ==
  ASSUME TypeInv, AckInv, SendNext, UNCHANGED receiverVars
  PROVE  AckInv'
<1> USE DEF TypeInv, TypeOK, SenderTypeOK
<1>1. /\ UNCHANGED <<log, upper, lower, acked, ackPc, ackPacket, toSender, mainPc>>
      /\ UNCHANGED <<first, skipped>>
  BY DEF SendNext, mainVars, ackVars, receiverVars
<1>2. AcksTruthful' /\ SenderTruthful' /\ ReceiverHas' /\ Numbered' /\ WindowOK' /\ RoomKept'
  BY <1>1, HasFrame DEF AckInv, AcksTruthful, SenderTruthful, ReceiverHas, Numbered, WindowOK,
                        RoomKept
<1>3. pool' \subseteq pool /\ ToSet(toReceiver') \subseteq ToSet(toReceiver) \cup pool
  <2>1. CASE Transmit
    <3>1. CASE sendSeq \in SeqsOf(pool)
      <4> DEFINE p == CHOOSE q \in pool : q.seq = sendSeq
      <4>1. p \in pool
        BY <3>1 DEF SeqsOf
      <4>2. toReceiver' \in Sent(toReceiver, p)
        BY <2>1, <3>1 DEF Transmit
      <4> HIDE DEF p
      <4>3. ToSet(toReceiver') \subseteq ToSet(toReceiver) \cup {p}
        BY <4>1, <4>2, SentType
      <4> QED BY <2>1, <4>1, <4>3 DEF Transmit
    <3>2. CASE sendSeq \notin SeqsOf(pool)
      BY <2>1, <3>2 DEF Transmit
    <3> QED BY <3>1, <3>2
  <2>2. CASE Pop \/ SendExit \/ CleanUp \/ SkipEmptyWindow \/ Exhaust \/ GiveUpPacket
    BY <2>2 DEF Pop, SendExit, CleanUp, SkipEmptyWindow, Exhaust, GiveUpPacket
  <2> QED BY <2>1, <2>2 DEF SendNext
<1>4. Intact'
  BY <1>1, <1>3, HasFrame DEF AckInv, Intact
<1> QED BY <1>2, <1>4 DEF AckInv

\* The timer changes nothing of what AckInv is about.
LEMMA AckTimer ==
  ASSUME AckInv, TimeoutFrame, UNCHANGED receiverVars
  PROVE  AckInv'
<1>1. /\ UNCHANGED <<log, upper, lower, pool, acked, ackPc, ackPacket, toSender, toReceiver>>
      /\ UNCHANGED <<first, skipped, mainPc>>
  BY DEF TimeoutFrame, mainVars, ackVars, netVars, receiverVars
<1>2. /\ AcksTruthful' /\ SenderTruthful' /\ ReceiverHas' /\ Numbered' /\ Intact'
      /\ WindowOK' /\ RoomKept'
  BY <1>1, HasFrame DEF AckInv, AcksTruthful, SenderTruthful, ReceiverHas, Numbered, Intact,
                        WindowOK, RoomKept
<1> QED BY <1>2 DEF AckInv

\* The receive thread moves the lower bound over what is acknowledged: never
\* back, and never past a packet that the receiver does not have.
LEMMA LowerMoves ==
  ASSUME NoWrap, TypeInv, AckInv, HandleAck, UNCHANGED receiverVars
  PROVE  /\ lower' >= lower
         /\ lower' <= Len(log)
         /\ \A s \in 0 .. lower' - 1 : Has(s)
         /\ \A s \in acked' : Has(s)
<1> USE DEF TypeInv, TypeOK, SenderTypeOK
<1> DEFINE a == ackPacket.seq
<1>1. /\ lower \in Nat /\ a \in Nat /\ Len(log) \in Nat /\ SeqSpace \in Nat
      /\ lower <= Len(log) /\ Len(log) < SeqSpace
  <2>1. lower \in Nat /\ SeqSpace \in Nat
    BY PacketAssumption DEF SequenceNumber
  <2>2. a \in Nat
    BY FieldType, PacketAssumption DEF SequenceNumber
  <2>3. Len(log) \in Nat /\ Len(log) <= MaxPackets /\ lower <= Len(log)
    BY LenProperties DEF AckInv, Numbered, WindowOK
  <2> QED BY <2>1, <2>2, <2>3, SenderAssumption DEF NoWrap
<1>2. /\ \A s \in 0 .. lower - 1 : Has(s)
      /\ \A s \in acked : Has(s)
      /\ Truthful(ackPacket)
  BY DEF AckInv, SenderTruthful, HandleAck
<1>3. ~ Has(Len(log))
  BY <1>1, HasBound DEF AckInv
<1>4. CASE ~ SelectiveRepeat
  <2>1. \A s \in 0 .. a - 1 : Has(s)
    BY <1>2, <1>4 DEF Truthful
  <2>2. a <= Len(log)
    BY <1>1, <1>3, <2>1
  <2>3. acked' \subseteq acked /\ (lower' = lower \/ (lower < a /\ lower' = a))
    BY <1>4 DEF HandleAck, RepeatedAck, CumulativeAck, OldAck
  <2> HIDE DEF a
  <2> QED BY <1>1, <1>2, <2>1, <2>2, <2>3
<1>5. CASE SelectiveRepeat
  <2>1. \A s \in acked \cup {a} : Has(s)
    BY <1>2, <1>5 DEF Truthful
  <2>2. PICK n \in 0 .. SeqSpace - 1 :
          /\ \A i \in 0 .. n - 1 : Plus(lower, i) \in acked \cup {a}
          /\ lower' = Plus(lower, n)
          /\ acked' \subseteq acked \cup {a}
    BY <1>5 DEF HandleAck, SelectiveAck
  <2> HIDE DEF a
  <2>3. \A i \in 0 .. n - 1 : Has(Plus(lower, i))
    BY <2>1, <2>2
  <2>4. \A i \in Nat : lower + i < SeqSpace => Plus(lower, i) = lower + i
    BY <1>1 DEF Plus
  <2>5. lower + n <= Len(log)
    <3> SUFFICES ASSUME lower + n > Len(log) PROVE FALSE
      BY <1>1
    <3>1. /\ Len(log) - lower \in 0 .. n - 1
          /\ Len(log) - lower \in Nat
          /\ lower + (Len(log) - lower) = Len(log)
      BY <1>1
    <3>2. Plus(lower, Len(log) - lower) = Len(log)
      BY <1>1, <2>4, <3>1
    <3> QED BY <1>3, <2>3, <3>1, <3>2
  <2>6. lower' = lower + n
    BY <1>1, <2>2, <2>4, <2>5
  <2>7. ASSUME NEW s \in 0 .. lower' - 1 PROVE Has(s)
    <3>1. CASE s < lower
      BY <1>1, <1>2, <3>1
    <3>2. CASE s >= lower
      <4>1. s - lower \in 0 .. n - 1 /\ s - lower \in Nat /\ lower + (s - lower) = s /\ s < SeqSpace
        BY <1>1, <2>5, <2>6, <3>2
      <4>2. Plus(lower, s - lower) = s
        BY <2>4, <4>1
      <4> QED BY <2>3, <4>1, <4>2
    <3> QED BY <1>1, <3>1, <3>2
  <2> QED BY <1>1, <2>1, <2>2, <2>5, <2>6, <2>7
<1> QED BY <1>4, <1>5

\* The receive thread takes acknowledgements off the path and applies them.
LEMMA AckAck ==
  ASSUME NoWrap, TypeInv, AckInv, AckNext, UNCHANGED receiverVars
  PROVE  AckInv'
<1> USE DEF TypeInv, TypeOK, SenderTypeOK
<1>1. UNCHANGED <<pool, toReceiver, first, skipped>>
  BY DEF AckNext, receiverVars
<1>2. UNCHANGED <<log, upper>>
  BY DEF AckNext, ReceiveAck, SetState, HandleAck, AckExit, AckFatal, mainVars
<1>3. Numbered' /\ Intact' /\ ReceiverHas'
  BY <1>1, <1>2, HasFrame DEF AckInv, Numbered, Intact, ReceiverHas
<1>4. CASE ReceiveAck
  <2>1. PICK i \in Deliverable(toSender) :
          toSender' \in Received(toSender, i) /\ ackPacket' = toSender[i]
    BY <1>4 DEF ReceiveAck
  <2>2. ToSet(toSender') \subseteq ToSet(toSender) /\ ackPacket' \in ToSet(toSender)
    BY <2>1, ReceivedType
  <2>3. AcksTruthful' /\ Truthful(ackPacket)'
    <3>1. Truthful(ackPacket)' <=> Truthful(ackPacket')
      BY HasFrame DEF Truthful
    <3> QED BY <2>2, <3>1, HasFrame DEF AckInv, AcksTruthful
  <2>4. SenderTruthful'
    BY <1>4, <2>3, HasFrame DEF AckInv, SenderTruthful, ReceiveAck
  <2>5. WindowOK' /\ RoomKept'
    BY <1>2, <1>4 DEF AckInv, WindowOK, RoomKept, ReceiveAck, mainVars
  <2> QED BY <1>3, <2>3, <2>4, <2>5 DEF AckInv
<1>5. CASE HandleAck
  <2>1. AcksTruthful'
    BY <1>5, HasFrame DEF AckInv, AcksTruthful, HandleAck
  <2>2. ackPc' \notin {"state", "ack"}
    BY <1>5 DEF HandleAck, LoopOrExit
  <2>3. SenderTruthful'
    BY <1>5, <2>2, HasFrame, LowerMoves DEF SenderTruthful
  <2>4. WindowOK' /\ RoomKept'
    <3>1. lower \in Nat /\ lower' \in Nat /\ Len(log) \in Nat
      <4>1. TypeInv'
        BY TypeAck
      <4> QED BY <4>1, LenProperties, PacketAssumption DEF SequenceNumber
    <3>2. lower' >= lower /\ lower' <= Len(log)
      BY <1>5, LowerMoves
    <3>3. upper' = upper /\ Len(log') = Len(log) /\ upper = Len(log) /\ upper <= lower + SendWindow
      BY <1>2 DEF AckInv, WindowOK
    <3>4. SendWindow \in Nat
      BY SenderAssumption
    <3>5. upper' <= lower' + SendWindow
      BY <3>1, <3>2, <3>3, <3>4
    <3>6. mainPc' = mainPc /\ upper \in Nat
      BY <1>5, PacketAssumption DEF HandleAck, mainVars, SequenceNumber
    <3>7. mainPc = "number" => upper' < lower' + SendWindow
      BY <3>1, <3>2, <3>3, <3>4, <3>6 DEF AckInv, RoomKept
    <3> QED BY <3>2, <3>3, <3>5, <3>6, <3>7 DEF WindowOK, RoomKept
  <2> QED BY <1>3, <2>1, <2>3, <2>4 DEF AckInv
<1>6. CASE SetState \/ AckExit \/ AckFatal
  <2>1. /\ UNCHANGED <<toSender, acked, lower, ackPacket>>
        /\ ackPc' \in {"state", "ack"} => ackPc \in {"state", "ack"}
        /\ mainPc' \in {mainPc, "crashed"}
    BY <1>6 DEF SetState, AckExit, AckFatal, ackVars, mainVars
  <2>2. AcksTruthful' /\ SenderTruthful' /\ WindowOK' /\ RoomKept'
    BY <1>2, <2>1, HasFrame DEF AckInv, AcksTruthful, SenderTruthful, WindowOK, RoomKept
  <2> QED BY <1>3, <2>2 DEF AckInv
<1> QED BY <1>4, <1>5, <1>6 DEF AckNext

\* Accepting a packet that the sender made.
LEMMA AcceptKeeps ==
  ASSUME TypeInv, AckInv, UNCHANGED senderVars,
         NEW p \in Packets, p \in ToSet(log), Accept(p)
  PROVE  /\ Kept' \subseteq ToSet(log)
         /\ \A s : Has(s) => Has(s)'
         /\ Has(p.seq)'
         /\ ReceiverHas'
<1> USE DEF TypeInv, TypeOK, ReceiverTypeOK
<1>1. /\ log \in Seq(Packets) /\ Len(log) \in Nat /\ DOMAIN log = 1 .. Len(log) /\ log' = log
  <2>1. log \in Seq(Packets) /\ log' = log
    BY DEF SenderTypeOK, senderVars
  <2> QED BY <2>1, LenProperties
<1>2. \A q \in ToSet(log) : q.seq \in 0 .. Len(log) - 1
  <2> SUFFICES ASSUME NEW i \in DOMAIN log PROVE log[i].seq \in 0 .. Len(log) - 1
    BY DEF ToSet
  <2> QED BY <1>1 DEF AckInv, Numbered
<1>3. /\ recvBuffer \subseteq ToSet(log) /\ Kept \subseteq ToSet(log)
      /\ first <= Len(log) /\ \A s \in 0 .. first - 1 : Has(s)
  BY DEF Kept, AckInv, Intact, ReceiverHas
<1>4. first \in Nat /\ \A q \in Packets : q.seq \in Nat
  BY FieldType, PacketAssumption DEF SequenceNumber
<1>5. /\ Kept' \subseteq Kept \cup {p}
      /\ \A s : Has(s) => Has(s)'
      /\ Has(p.seq)'
      /\ \A s \in 0 .. first' - 1 : Has(s)'
      /\ \A m \in Nat : first <= m /\ (\A q \in recvBuffer \cup {p} : q.seq < m) => first' <= m
  BY <1>3, <1>4, AcceptHas
<1>6. first' <= Len(log')
  <2>1. \A q \in recvBuffer \cup {p} : q.seq < Len(log)
    BY <1>1, <1>2, <1>3
  <2> QED BY <1>1, <1>3, <1>5, <2>1
<1>7. skipped' \subseteq 0 .. Len(log') - 1
  <2>1. p.seq \in 0 .. Len(log) - 1
    BY <1>2
  <2>2. 0 .. p.seq - 1 \subseteq 0 .. Len(log) - 1
    BY <1>1, <2>1
  <2>3. skipped' \subseteq skipped \cup 0 .. p.seq - 1
    BY DEF Accept
  <2> QED BY <1>1, <2>2, <2>3 DEF AckInv, ReceiverHas
<1>8. ReceiverHas'
  BY <1>5, <1>6, <1>7 DEF ReceiverHas
<1> QED BY <1>3, <1>5, <1>8

\* The receiver only acknowledges what it has, and loses nothing it has.
LEMMA AckReceiver ==
  ASSUME NoWrap, TypeInv, AckInv, ReceiverNext, UNCHANGED senderVars
  PROVE  AckInv'
<1> USE DEF TypeInv, TypeOK
<1>1. /\ UNCHANGED <<log, upper, lower, pool, acked, ackPc, ackPacket>>
      /\ Numbered' /\ WindowOK' /\ RoomKept'
  BY DEF senderVars, AckInv, Numbered, WindowOK, RoomKept
\* What a step of the receiver has to show.
<1>2. ASSUME Kept' \subseteq ToSet(log), \A s : Has(s) => Has(s)', ReceiverHas',
             ToSet(toReceiver') \subseteq ToSet(toReceiver),
             \A q \in ToSet(toSender') : q \in ToSet(toSender) \/ Truthful(q)'
      PROVE  AckInv'
  <2>1. \A q : Truthful(q) => Truthful(q)'
    BY <1>2 DEF Truthful
  <2>2. AcksTruthful'
    BY <1>2, <2>1 DEF AckInv, AcksTruthful
  <2>3. SenderTruthful'
    BY <1>1, <1>2, <2>1 DEF AckInv, SenderTruthful
  <2>4. Intact'
    BY <1>1, <1>2 DEF AckInv, Intact
  <2> QED BY <1>1, <1>2, <2>2, <2>3, <2>4 DEF AckInv
<1>3. CASE ReceivePacket
  <2>1. PICK i \in Deliverable(toReceiver) :
          /\ toReceiver' \in Received(toReceiver, i)
          /\ \/ IgnoreAck(toReceiver[i])
             \/ AckDuplicate(toReceiver[i])
             \/ RefuseBeyond(toReceiver[i])
             \/ Accept(toReceiver[i])
    BY <1>3 DEF ReceivePacket
  <2>0. PICK p : p = toReceiver[i]
    OBVIOUS
  <2>2. /\ p \in Packets /\ p.seq \in SequenceNumber
        /\ p \in ToSet(toReceiver)
        /\ ToSet(toReceiver') \subseteq ToSet(toReceiver)
    BY <2>1, <2>0, ReceivedType, FieldType
  <2>3. p \in ToSet(log)
    BY <2>2 DEF AckInv, Intact
  \* A new acknowledgement is truthful if its sequence number is.
  <2>4. ASSUME NEW known, NEW s \in SequenceNumber, ~ is_ack(p), Reply(known, p.kind, s),
               IF SelectiveRepeat THEN Has(s)' ELSE \A t \in 0 .. s - 1 : Has(t)'
        PROVE  \A q \in ToSet(toSender') : q \in ToSet(toSender) \/ Truthful(q)'
    <3>0. PICK a : a = Packet(get_ack_kind(p.kind), s, NoPayload)
      OBVIOUS
    <3>1. a \in Packets /\ a.seq = s
      BY <2>2, <2>4, <3>0, AnswerType
    <3>2. toSender' = toSender \/ toSender' \in Sent(toSender, a)
      BY <2>4, <3>0 DEF Reply
    <3>3. ToSet(toSender') \subseteq ToSet(toSender) \cup {a}
      BY <3>1, <3>2, SentType
    <3>4. Truthful(a)'
      BY <2>4, <3>1 DEF Truthful
    <3> QED BY <3>3, <3>4
  \* The cases in which the receiver itself stays as it is.
  <2>5. ASSUME UNCHANGED receiverVars
        PROVE  /\ Kept' \subseteq ToSet(log)
               /\ \A s : Has(s) => Has(s)'
               /\ ReceiverHas'
               /\ \A s \in 0 .. first - 1 : Has(s)'
    <3>1. first' = first /\ skipped' = skipped
      BY <2>5 DEF receiverVars
    <3> QED BY <1>1, <2>5, <3>1, HasFrame DEF AckInv, Intact, ReceiverHas
  <2>6. CASE IgnoreAck(p)
    BY <1>2, <2>2, <2>5, <2>6 DEF IgnoreAck
  <2>7. CASE AckDuplicate(p)
    <3>1. UNCHANGED receiverVars /\ ~ is_ack(p)
      BY <2>7 DEF AckDuplicate
    <3>2. p.seq \in 0 .. first - 1
      BY <2>2, <2>7, PacketAssumption DEF AckDuplicate, Below, ReceiverTypeOK, SequenceNumber
    <3>3. \A q \in ToSet(toSender') : q \in ToSet(toSender) \/ Truthful(q)'
      BY <2>2, <2>4, <2>5, <2>7, <3>1, <3>2 DEF AckDuplicate, ReceiverTypeOK
    <3> QED BY <1>2, <2>2, <2>5, <3>1, <3>3
  <2>8. CASE RefuseBeyond(p)
    <3>1. UNCHANGED receiverVars /\ ~ is_ack(p)
      BY <2>8 DEF RefuseBeyond
    <3>2. \A q \in ToSet(toSender') : q \in ToSet(toSender) \/ Truthful(q)'
      <4>1. CASE SelectiveRepeat
        BY <2>8, <4>1 DEF RefuseBeyond, Reply
      <4>2. CASE ~ SelectiveRepeat
        BY <2>4, <2>5, <2>8, <3>1, <4>2 DEF RefuseBeyond, ReceiverTypeOK
      <4> QED BY <4>1, <4>2
    <3> QED BY <1>2, <2>2, <2>5, <3>1, <3>2
  <2>9. CASE Accept(p)
    <3>1. /\ Kept' \subseteq ToSet(log) /\ ReceiverHas' /\ Has(p.seq)'
          /\ \A s : Has(s) => Has(s)'
      BY <2>2, <2>3, <2>9, AcceptKeeps
    <3>2. /\ Reply(peerKnown', p.kind, IF SelectiveRepeat THEN p.seq ELSE first')
          /\ ~ is_ack(p)
      BY <2>9 DEF Accept
    <3>3. first' \in SequenceNumber
      <4>1. TypeInv'
        BY TypeReceiver
      <4> QED BY <4>1 DEF ReceiverTypeOK
    <3>4. \A q \in ToSet(toSender') : q \in ToSet(toSender) \/ Truthful(q)'
      <4>1. CASE SelectiveRepeat
        BY <2>2, <2>4, <3>1, <3>2, <4>1
      <4>2. CASE ~ SelectiveRepeat
        BY <2>4, <3>1, <3>2, <3>3, <4>2 DEF ReceiverHas
      <4> QED BY <4>1, <4>2
    <3> QED BY <1>2, <2>2, <3>1, <3>4
  <2> QED BY <2>1, <2>0, <2>6, <2>7, <2>8, <2>9
<1>4. CASE ReceiveFatal
  <2>1. UNCHANGED <<first, skipped, recvBuffer, os, files, toReceiver, toSender>>
    BY <1>4 DEF ReceiveFatal, netVars
  <2>2. Kept' = Kept
    BY <2>1 DEF Kept
  <2>3. \A s : Has(s) <=> Has(s)'
    BY <2>1, <2>2 DEF Has
  <2>4. ReceiverHas'
    BY <1>1, <2>1, <2>3 DEF AckInv, ReceiverHas
  <2> QED BY <1>2, <2>1, <2>2, <2>3, <2>4 DEF AckInv, Intact
<1>5. CASE SaveFile
  <2>1. UNCHANGED <<first, skipped, recvBuffer, toReceiver, toSender>>
    BY <1>5 DEF SaveFile, netVars
  <2>2. Kept' = Kept
    BY <1>5, <2>1, SaveKeeps DEF Kept, ReceiverTypeOK
  <2>3. \A s : Has(s) <=> Has(s)'
    BY <2>1, <2>2 DEF Has
  <2>4. ReceiverHas'
    BY <1>1, <2>1, <2>3 DEF AckInv, ReceiverHas
  <2> QED BY <1>2, <2>1, <2>2, <2>3, <2>4 DEF AckInv, Intact
<1> QED BY <1>3, <1>4, <1>5 DEF ReceiverNext

\* Types and AckInv together are inductive.
LEMMA AckInductive ==
  ASSUME NoWrap
  PROVE  TypeInv /\ AckInv /\ [Next]_vars => TypeInv' /\ AckInv'
<1> SUFFICES ASSUME TypeInv, AckInv, [Next]_vars PROVE TypeInv' /\ AckInv'
  OBVIOUS
<1>1. CASE SenderNext /\ UNCHANGED receiverVars
  <2>1. TypeInv'
    BY <1>1, TypeMain, TypeSend, TypeAck, TypeTimer DEF SenderNext
  <2>2. CASE MainNext
    BY <1>1, <2>1, <2>2, AckMain
  <2>3. CASE SendNext
    BY <1>1, <2>1, <2>3, AckSend
  <2>4. CASE AckNext
    BY <1>1, <2>1, <2>4, AckAck
  <2>5. CASE TimerNext \/ TimeoutNext
    BY <1>1, <2>1, <2>5, AckTimer DEF TimerNext, TimeoutNext
  <2> QED BY <1>1, <2>2, <2>3, <2>4, <2>5 DEF SenderNext
<1>2. CASE ReceiverNext /\ UNCHANGED senderVars
  BY <1>2, TypeReceiver, AckReceiver
<1>3. CASE UNCHANGED vars
  <2>1. TypeInv'
    BY <1>3 DEF vars, senderVars, receiverVars, netVars, TypeInv, TypeOK,
                SenderTypeOK, ReceiverTypeOK
  <2>2. /\ UNCHANGED receiverVars
        /\ UNCHANGED <<log, upper, lower, pool, acked, ackPc, ackPacket, toSender, toReceiver>>
        /\ UNCHANGED <<first, skipped, mainPc>>
    BY <1>3 DEF vars, senderVars, receiverVars, netVars
  <2>3. /\ AcksTruthful' /\ SenderTruthful' /\ ReceiverHas' /\ Numbered' /\ Intact'
        /\ WindowOK' /\ RoomKept'
    BY <2>2, HasFrame DEF AckInv, AcksTruthful, SenderTruthful, ReceiverHas,
                          Numbered, Intact, WindowOK, RoomKept
  <2> QED BY <2>1, <2>3 DEF AckInv
<1> QED BY <1>1, <1>2, <1>3 DEF Next, Idle

\* As long as no sequence number is used twice, for any window sizes, retry
\* limit, number of packets and path (lossy, reordering, duplicating), in
\* go-back-n and in selective repeat, the invariant holds that ties what the
\* sender counts as acknowledged to what the receiver has.
THEOREM AckInvariant == ASSUME NoWrap PROVE Spec => []AckInv
<1>1. Init => TypeInv /\ AckInv
  BY TypeInit, AckInit
<1> QED BY <1>1, AckInductive, PTL DEF Spec

\* Under the same conditions a packet that the sender's window has passed
\* (recv_handler) is at the receiver, unchanged.
THEOREM AckedIsReceived == ASSUME NoWrap PROVE Spec => []NoFalseAck
<1>1. TypeInv /\ AckInv => NoFalseAck
  <2> SUFFICES ASSUME TypeInv, AckInv, NEW s \in 0 .. lower - 1
               PROVE  s \in skipped \/ (s < Len(log) /\ log[s + 1] \in Kept)
    BY DEF NoFalseAck
  <2>1. Has(s) /\ log \in Seq(Packets)
    BY DEF AckInv, SenderTruthful, TypeInv, TypeOK, SenderTypeOK
  <2>2. s \in 0 .. Len(log) - 1 /\ (s \in skipped \/ log[s + 1] \in Kept)
    BY <2>1, HasBound DEF AckInv
  <2> QED BY <2>1, <2>2
<1>2. Init => TypeInv /\ AckInv
  BY TypeInit, AckInit
<1> QED BY <1>1, <1>2, AckInductive, PTL DEF Spec

\* Under the same conditions the two bounds of ConcurrentWindow, moved by two
\* threads, enclose exactly the packets sent and not yet passed, and never
\* more than the maximum window size of them.
THEOREM WindowBounded == ASSUME NoWrap PROVE Spec => []WindowOK
<1>1. AckInv => WindowOK
  BY DEF AckInv
<1> QED BY <1>1, AckInvariant, PTL

\* No step moves the lower bound of the sender's window back.
LEMMA LowerForward ==
  ASSUME NoWrap, TypeInv, AckInv, [Next]_vars
  PROVE  lower' >= lower
<1>1. lower \in Int
  BY PacketAssumption DEF TypeInv, TypeOK, SenderTypeOK, SequenceNumber
<1>2. CASE HandleAck /\ UNCHANGED receiverVars
  BY <1>2, LowerMoves
<1>3. CASE UNCHANGED lower
  BY <1>1, <1>3
<1>4. AckNext => HandleAck \/ UNCHANGED lower
  BY DEF AckNext, ReceiveAck, SetState, AckExit, AckFatal
<1>5. MainNext \/ SendNext \/ TimerNext \/ TimeoutNext => UNCHANGED lower
  BY DEF MainNext, SendNext, TimerNext, TimeoutNext, TimeoutFrame
<1>6. UNCHANGED senderVars => UNCHANGED lower
  BY DEF senderVars
<1> QED BY <1>2, <1>3, <1>4, <1>5, <1>6 DEF Next, SenderNext, Idle, vars

\* Under the same conditions the lower bound of the sender's window never
\* moves back: no late, repeated or overtaken acknowledgement makes
\* recv_handler reopen what it has passed.
THEOREM LowerNeverBack == ASSUME NoWrap PROVE Spec => [][lower' >= lower]_vars
<1>1. TypeInv /\ AckInv /\ [Next]_vars => [lower' >= lower]_vars
  BY LowerForward
<1>2. Init => TypeInv /\ AckInv
  BY TypeInit, AckInit
<1> QED BY <1>1, <1>2, AckInductive, PTL DEF Spec

\* Under the same conditions what the receiver answers as a duplicate, without
\* looking at it (Receiver::recv), is a packet that it has: it does not tell
\* the sender to forget a packet that it never saw.
THEOREM DuplicatesKnown == ASSUME NoWrap PROVE Spec => []DuplicateIsKnown
<1>1. TypeInv /\ AckInv => DuplicateIsKnown
  <2> SUFFICES ASSUME TypeInv, AckInv, NEW p \in ToSet(toReceiver), Below(p)
               PROVE  p.seq \in skipped \/ p \in Kept
    BY DEF DuplicateIsKnown
  <2>1. log \in Seq(Packets) /\ first \in Int
    BY PacketAssumption DEF TypeInv, TypeOK, SenderTypeOK, ReceiverTypeOK, SequenceNumber
  <2>2. PICK i \in 1 .. Len(log) : p = log[i]
    <3>1. p \in ToSet(log)
      BY DEF AckInv, Intact
    <3> QED BY <2>1, <3>1, LenProperties DEF ToSet
  <2>3. p.seq = i - 1
    BY <2>1, <2>2 DEF AckInv, Numbered
  <2>4. Has(p.seq)
    BY <2>1, <2>2, <2>3 DEF AckInv, ReceiverHas, Below
  <2>5. p.seq \in skipped \/ log[p.seq + 1] \in Kept
    BY <2>1, <2>4, HasBound DEF AckInv
  <2> QED BY <2>2, <2>3, <2>5
<1>2. Init => TypeInv /\ AckInv
  BY TypeInit, AckInit
<1> QED BY <1>1, <1>2, AckInductive, PTL DEF Spec

-----------------------------------------------------------------------------
\* Whatever the constants are, and also when sequence numbers wrap around and
\* a packet takes the place of another one in the pool, a registered timer
\* event has a packet to send again (send_handler): only the send thread
\* takes packets out of the pool, and the timer forgets them with it.
THEOREM TimersHavePackets == Spec => []TimerHasPacket
<1>1. Init => TimerHasPacket
  BY DEF Init, SenderInit, TimerInit, TimerHasPacket
<1>2. TimerHasPacket /\ [Next]_vars => TimerHasPacket'
  <2> SUFFICES ASSUME TimerHasPacket, [Next]_vars PROVE TimerHasPacket'
    OBVIOUS
  <2> USE DEF TimerHasPacket, SeqsOf
  <2>1. CASE MainNext
    <3>1. timer' = timer
      BY <2>1 DEF MainNext, timerVars
    <3>2. pool \subseteq pool'
      BY <2>1 DEF MainNext, connect, send, disconnect, stop, StopTimer, join,
                  FindRoom, TakeSequenceNumber, GiveUpWindow, Enqueue, WaitState,
                  NextChunk, Drain, packetVars, Insert
    <3> QED BY <3>1, <3>2
  <2>2. CASE SendNext
    <3>1. CASE Transmit
      BY <3>1 DEF Transmit, register_event, remove_event
    <3>2. CASE CleanUp
      BY <3>2 DEF CleanUp, remove_event
    <3>3. CASE Pop \/ SendExit \/ SkipEmptyWindow \/ Exhaust \/ GiveUpPacket
      BY <3>3 DEF Pop, SendExit, SkipEmptyWindow, Exhaust, GiveUpPacket, timerVars
    <3> QED BY <2>2, <3>1, <3>2, <3>3 DEF SendNext
  <2>3. CASE AckNext
    BY <2>3 DEF AckNext, timerVars
  <2>4. CASE TimerNext \/ TimeoutNext
    BY <2>4 DEF TimerNext, TimeoutNext, TimeoutFrame, Expire, time_out, Repend,
                map_timed_out_events, TimeoutExit, timerVars
  <2>5. CASE UNCHANGED senderVars
    BY <2>5 DEF senderVars
  <2> QED BY <2>1, <2>2, <2>3, <2>4, <2>5 DEF Next, SenderNext, Idle, vars
<1> QED BY <1>1, <1>2, PTL DEF Spec
=============================================================================
