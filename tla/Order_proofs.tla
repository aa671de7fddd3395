---------------------------- MODULE Order_proofs ----------------------------
(***************************************************************************)
(* The order in which the receiver takes packets, for all values of the    *)
(* constants as long as sequence numbers do not wrap around. With a        *)
(* receive window of 1 its window never moves back, and without a retry    *)
(* limit the two programs implement ReliableStream.                        *)
(***************************************************************************)
EXTENDS FileTransfer_proofs

-----------------------------------------------------------------------------
(* What one datagram does to a receiver that is in order.                  *)

\* A packet that was made is at the place its number says.
LEMMA LogAt ==
  ASSUME TypeInv, Numbered, NEW q \in ToSet(log)
  PROVE  q.seq \in 0 .. Len(log) - 1 /\ q = log[q.seq + 1]
<1>1. log \in Seq(Packets)
  BY DEF TypeInv, TypeOK, SenderTypeOK
<1>2. PICK i \in 1 .. Len(log) : q = log[i]
  BY <1>1 DEF ToSet
<1>3. q.seq = i - 1
  BY <1>1, <1>2 DEF Numbered
<1> QED BY <1>1, <1>2, <1>3

\* A step of the receiver that accepts packet p while the window takes n.
Takes(p, n) ==
  /\ first' = first + n
  /\ first + n <= Len(log)
  /\ n = 0 <=> p.seq # first
  /\ os' = os \o [i \in 1 .. n |-> log[first + i]]
  /\ recvBuffer' \subseteq recvBuffer \cup {p}
  /\ \A q \in recvBuffer' : q.seq > first + n
  /\ \A i \in first + 2 .. first + n : log[i] \in recvBuffer

\* A receiver whose buffer holds nothing at or below the lower end of its
\* window, and that is idle only before its first packet, takes what is in
\* order: the packet at the lower end and those of the buffer that follow it.
LEMMA AcceptInOrder ==
  ASSUME NoWrap, TypeInv, AckInv,
         NEW p \in ToSet(log), Accept(p),
         recvState = "Idle" => p.seq = first,
         \A q \in recvBuffer : q.seq > first
  PROVE  \E n \in Nat :
           /\ Takes(p, n)
           /\ second' = Plus(IF recvState = "Idle" /\ p.kind = "ConnReq"
                               THEN Plus(p.seq, RecvWindow) ELSE second, n)
<1> DEFINE sync == recvState = "Idle" /\ p.kind = "ConnReq"
           lo == IF sync THEN p.seq ELSE first
           hi == IF sync THEN Plus(p.seq, RecvWindow) ELSE second
           buffer == Insert(recvBuffer, p)
           written(n) == [j \in 1 .. n |-> PacketAt(buffer, lo + j - 1)]
<1>1. PICK n \in 0 .. SeqSpace :
        /\ Slides(buffer, lo, n)
        /\ first' = Plus(lo, n)
        /\ second' = Plus(hi, n)
        /\ os' = os \o written(n)
        /\ recvBuffer' = {q \in buffer : q.seq < lo \/ q.seq >= lo + n}
  BY DEF Accept
<1>2. lo = first
  OBVIOUS
<1>3. /\ log \in Seq(Packets) /\ Len(log) \in Nat /\ Len(log) < SeqSpace /\ SeqSpace \in Nat
      /\ first \in Nat /\ first \in SequenceNumber /\ recvBuffer \in SUBSET Packets
      /\ first <= Len(log) /\ n \in Nat
  <2>1. log \in Seq(Packets) /\ first \in SequenceNumber /\ recvBuffer \in SUBSET Packets
    BY DEF TypeInv, TypeOK, SenderTypeOK, ReceiverTypeOK
  <2>2. first <= Len(log) /\ Len(log) <= MaxPackets
    BY DEF AckInv, ReceiverHas, Numbered
  <2> QED BY <2>1, <2>2, LenProperties, PacketAssumption, SenderAssumption
          DEF NoWrap, SequenceNumber
<1>4. p \in Packets
  BY <1>3 DEF ToSet
<1>5. /\ buffer \in SUBSET Packets
      /\ buffer \subseteq recvBuffer \cup {p}
      /\ p.seq \in SeqsOf(buffer)
  BY <1>3, <1>4, InsertType
<1>6. buffer \subseteq ToSet(log)
  BY <1>5 DEF AckInv, Intact, Kept
<1>7. \A q \in buffer : q.seq \in Nat /\ q.seq < Len(log) /\ q = log[q.seq + 1]
  BY <1>3, <1>6, LogAt DEF AckInv
<1>8. p.seq \in Nat /\ p.seq >= first
  <2>1. p.seq \in Nat
    BY <1>3, LogAt DEF AckInv
  <2> QED BY <1>3, <2>1 DEF Accept, Below
<1> HIDE DEF lo, hi, buffer
<1>9. \A s \in SeqsOf(buffer) : s \in Nat /\ s >= first
  BY <1>3, <1>5, <1>7, <1>8 DEF SeqsOf
<1>10. /\ \A s \in first .. first + n - 1 : s \in SeqsOf(buffer)
       /\ first + n \notin SeqsOf(buffer)
  BY <1>1, <1>2, <1>3, <1>9 DEF Slides
<1>11. \A s \in first .. first + n - 1 :
         PacketAt(buffer, s) \in buffer /\ PacketAt(buffer, s) = log[s + 1]
               /\ log[s + 1].seq = s
  <2>1. \A s \in first .. first + n - 1 : PacketAt(buffer, s) \in buffer /\ PacketAt(buffer, s).seq = s
    BY <1>1, <1>2, <1>3, <1>5, SlideType
  <2> QED BY <1>7, <2>1
<1>12. first + n <= Len(log)
  <2>1. CASE n = 0
    BY <1>3, <2>1
  <2>2. CASE n # 0
    <3>1. first + n - 1 \in first .. first + n - 1
      BY <1>3, <2>2
    <3>2. first + n - 1 < Len(log)
      BY <1>7, <1>11, <3>1
    <3> QED BY <1>3, <3>2
  <2> QED BY <2>1, <2>2
<1>13. first' = first + n
  BY <1>1, <1>2, <1>3, <1>12 DEF Plus
<1>14. n = 0 <=> p.seq # first
  <2>1. CASE p.seq = first
    BY <1>3, <1>5, <1>10, <2>1
  <2>2. CASE p.seq # first
    <3>1. first \notin SeqsOf(buffer)
      BY <1>3, <1>5, <1>7, <2>2 DEF SeqsOf
    <3> QED BY <1>3, <1>10, <2>2, <3>1
  <2> QED BY <2>1, <2>2
<1>15. written(n) = [i \in 1 .. n |-> log[first + i]]
  <2>1. \A i \in 1 .. n : /\ first + i - 1 \in first .. first + n - 1
                          /\ (first + i - 1) + 1 = first + i
    BY <1>3
  <2>2. \A i \in 1 .. n : PacketAt(buffer, lo + i - 1) = log[first + i]
    BY <1>2, <1>11, <2>1
  <2> QED BY <2>2
<1>16. recvBuffer' \subseteq recvBuffer \cup {p}
  BY <1>1, <1>5
<1>17. ASSUME NEW q \in recvBuffer' PROVE q.seq > first + n
  <2>1. q \in buffer /\ (q.seq < first \/ q.seq >= first + n)
    BY <1>1, <1>2
  <2>2. q.seq \in SeqsOf(buffer) /\ q.seq \in Nat
    BY <1>9, <2>1 DEF SeqsOf
  <2> QED BY <1>3, <1>9, <1>10, <2>1, <2>2
<1>18. ASSUME NEW i \in first + 2 .. first + n PROVE log[i] \in recvBuffer
  <2>1. i - 1 \in first .. first + n - 1 /\ (i - 1) + 1 = i /\ n # 0 /\ i - 1 # first
    BY <1>3
  <2>2. log[i] \in buffer /\ log[i].seq = i - 1
    BY <1>11, <2>1
  <2> QED BY <1>5, <1>14, <2>1, <2>2
<1>19. Takes(p, n)
  BY <1>1, <1>12, <1>13, <1>14, <1>15, <1>16, <1>17, <1>18 DEF Takes
<1> QED BY <1>1, <1>3, <1>19 DEF hi

-----------------------------------------------------------------------------
(* With a receive window of 1 no window moves back.                        *)

\* The buffer holds a packet below the window, which has no room but for a
\* connection request that the receiver has: the window does not slide.
Stuck == /\ \E q \in recvBuffer : q.seq < first
         /\ first < Len(log)
         /\ log[first + 1].kind = "ConnReq"

\* A receiver with a window of 1 is idle only before its first packet in
\* order, and afterwards in order or stuck.
BackInv ==
  recvPc # "ended" =>
    IF recvState = "Idle"
      THEN recvPc = "loop" /\ first = 0 /\ 0 \notin SeqsOf(recvBuffer)
      ELSE second = Plus(first, 1) /\ (Stuck \/ \A q \in recvBuffer : q.seq > first)

\* Accepting a packet with a window of 1.
LEMMA AcceptForward ==
  ASSUME NoWrap, RecvWindow = 1, TypeInv, AckInv, BackInv, recvPc = "loop",
         NEW p \in ToSet(log), Accept(p), UNCHANGED senderVars
  PROVE  BackInv' /\ first' >= first
<1>1. /\ log \in Seq(Packets) /\ Len(log) \in Nat /\ Len(log) < SeqSpace /\ SeqSpace \in Nat
      /\ first \in Nat /\ recvBuffer \in SUBSET Packets /\ first <= Len(log)
  <2>1. log \in Seq(Packets) /\ first \in SequenceNumber /\ recvBuffer \in SUBSET Packets
    BY DEF TypeInv, TypeOK, SenderTypeOK, ReceiverTypeOK
  <2>2. first <= Len(log) /\ Len(log) <= MaxPackets
    BY DEF AckInv, ReceiverHas, Numbered
  <2> QED BY <2>1, <2>2, LenProperties, PacketAssumption, SenderAssumption
          DEF NoWrap, SequenceNumber
<1>2. log' = log
  BY DEF senderVars
<1>3. p.seq \in Nat /\ p.seq < Len(log) /\ p = log[p.seq + 1] /\ p \in Packets
  BY <1>1, LogAt DEF AckInv, ToSet
<1>4. recvState' = StateAfter(recvState, p.kind)
  BY DEF Accept
<1> DEFINE buffer == Insert(recvBuffer, p)
<1>5. buffer \in SUBSET Packets /\ p.seq \in SeqsOf(buffer) /\ recvBuffer \subseteq buffer
      /\ buffer \subseteq recvBuffer \cup {p} /\ buffer \subseteq ToSet(log)
  BY <1>1, <1>3, InsertType DEF AckInv, Intact, Kept
<1>6. \A s \in SeqsOf(buffer) : s \in Nat /\ s < Len(log)
  BY <1>1, <1>5, LogAt DEF SeqsOf, AckInv
<1>7. CASE recvState = "Idle" /\ p.kind # "ConnReq"
  <2>1. PICK n \in 0 .. SeqSpace :
          /\ Slides(buffer, first, n)
          /\ first' = Plus(first, n)
          /\ recvBuffer' = {q \in buffer : q.seq < first \/ q.seq >= first + n}
    BY <1>7 DEF Accept
  <2>2. first = 0 /\ 0 \notin SeqsOf(recvBuffer)
    BY <1>7 DEF BackInv
  <2>3. recvState' = "Idle"
    BY <1>4, <1>7 DEF StateAfter
  <2>4. recvPc' = IF p.seq >= first' THEN "loop" ELSE "ended"
    BY <1>7, <2>3 DEF Accept
  <2> HIDE DEF buffer
  <2>5. /\ \A s \in 0 .. n - 1 : s \in SeqsOf(buffer)
        /\ n \notin SeqsOf(buffer)
    BY <1>1, <1>6, <2>1, <2>2 DEF Slides
  <2>6. n <= Len(log)
    <3>1. n # 0 => n - 1 \in 0 .. n - 1
      OBVIOUS
    <3> QED BY <1>1, <1>6, <2>5, <3>1
  <2>7. first' = n
    BY <1>1, <2>1, <2>2, <2>6 DEF Plus
  <2>8. n # 0 => p.seq = 0
    <3>1. n # 0 => 0 \in SeqsOf(buffer)
      BY <2>5
    <3> QED BY <1>5, <2>2, <3>1 DEF SeqsOf
  <2>9. recvPc' # "ended" => n = 0
    BY <2>4, <2>7, <2>8
  <2>10. n = 0 => 0 \notin SeqsOf(recvBuffer')
    BY <2>1, <2>5 DEF SeqsOf
  <2> QED BY <2>2, <2>3, <2>4, <2>7, <2>9, <2>10 DEF BackInv
<1>8. CASE recvState = "Idle" /\ p.kind = "ConnReq"
  <2>1. PICK n \in 0 .. SeqSpace :
          /\ Slides(buffer, p.seq, n)
          /\ first' = Plus(p.seq, n)
          /\ second' = Plus(Plus(p.seq, 1), n)
          /\ recvBuffer' = {q \in buffer : q.seq < p.seq \/ q.seq >= p.seq + n}
    BY <1>8 DEF Accept
  <2>2. first = 0
    BY <1>8 DEF BackInv
  <2>3. recvState' = "Connected"
    BY <1>4, <1>8 DEF StateAfter
  <2> HIDE DEF buffer
  <2>4. CASE \E s \in SeqsOf(buffer) : s < p.seq
    <3>1. n = 0
      BY <2>1, <2>4 DEF Slides
    <3>2. first' = p.seq /\ second' = Plus(first', 1)
      BY <1>1, <1>3, <2>1, <3>1 DEF Plus
    <3>3. Stuck'
      BY <1>2, <1>3, <1>8, <2>1, <2>4, <3>1, <3>2 DEF Stuck, SeqsOf
    <3> QED BY <1>3, <2>2, <2>3, <3>2, <3>3 DEF BackInv
  <2>5. CASE ~ \E s \in SeqsOf(buffer) : s < p.seq
    <3>1. /\ \A s \in p.seq .. p.seq + n - 1 : s \in SeqsOf(buffer)
          /\ p.seq + n \notin SeqsOf(buffer)
      BY <2>1, <2>5 DEF Slides
    <3>2. p.seq + n <= Len(log)
      <4>1. n # 0 => p.seq + n - 1 \in p.seq .. p.seq + n - 1
        BY <1>3
      <4> QED BY <1>1, <1>3, <1>6, <3>1, <4>1
    <3>3. first' = p.seq + n
      BY <1>1, <1>3, <2>1, <3>2 DEF Plus
    <3>4. second' = Plus(first', 1)
      <4>1. Plus(p.seq, 1) = p.seq + 1
        BY <1>1, <1>3 DEF Plus
      <4>2. second' = Plus(p.seq + 1, n) /\ (p.seq + 1) + n = (p.seq + n) + 1
        BY <1>3, <2>1, <4>1
      <4> QED BY <1>1, <1>3, <3>3, <4>2 DEF Plus
    <3>5. ASSUME NEW q \in recvBuffer' PROVE q.seq > first'
      <4>1. q.seq \in SeqsOf(buffer) /\ (q.seq < p.seq \/ q.seq >= p.seq + n)
        BY <2>1 DEF SeqsOf
      <4> QED BY <1>3, <1>6, <2>5, <3>1, <3>3, <4>1
    <3> QED BY <1>3, <2>2, <2>3, <3>3, <3>4, <3>5 DEF BackInv
  <2> QED BY <2>4, <2>5
<1>9. CASE recvState # "Idle"
  <2>1. p.seq = first /\ second = Plus(first, 1)
    <3>1. second = Plus(first, 1)
      BY <1>9 DEF BackInv
    <3>2. ~ (p.seq < first) /\ ~ (p.seq >= second)
      BY <1>9 DEF Accept, Below, Beyond
    <3> QED BY <1>1, <1>3, <3>1, <3>2 DEF Plus
  <2>2. CASE Stuck
    <3>1. p.kind = "ConnReq"
      BY <1>3, <2>1, <2>2 DEF Stuck
    <3>2. recvState' = recvState
      BY <1>4, <1>9, <3>1 DEF StateAfter
    <3>3. PICK n \in 0 .. SeqSpace :
            /\ Slides(buffer, first, n)
            /\ first' = Plus(first, n)
            /\ second' = Plus(second, n)
            /\ recvBuffer' = {q \in buffer : q.seq < first \/ q.seq >= first + n}
      BY <1>9 DEF Accept
    <3>4. \E q \in recvBuffer : q.seq < first /\ q \in buffer /\ q.seq \in SeqsOf(buffer)
      BY <1>5, <2>2 DEF Stuck, SeqsOf
    <3> HIDE DEF buffer
    <3>5. n = 0
      BY <3>3, <3>4 DEF Slides
    <3>6. second \in Nat /\ second < SeqSpace
      BY <1>1, <2>1 DEF Plus
    <3>7. first' = first /\ second' = second
      BY <1>1, <3>3, <3>5, <3>6 DEF Plus
    <3>8. Stuck'
      BY <1>2, <2>2, <3>3, <3>4, <3>7 DEF Stuck
    <3> QED BY <1>1, <1>9, <2>1, <3>2, <3>7, <3>8 DEF BackInv
  <2>3. CASE \A q \in recvBuffer : q.seq > first
    <3>1. PICK n \in Nat : Takes(p, n) /\ second' = Plus(second, n)
      BY <1>9, <2>3, AcceptInOrder
    <3>2. first' = first + n /\ n # 0 /\ first + n <= Len(log)
          /\ \A q \in recvBuffer' : q.seq > first'
      BY <2>1, <3>1 DEF Takes
    <3>3. second' = Plus(first', 1)
      BY <1>1, <2>1, <3>1, <3>2 DEF Plus
    <3>4. recvState' = "Idle" => recvPc' = "ended"
      <4>1. recvState = "Receiving" /\ p.kind = "DataStop" => recvState' # "Idle"
        BY <1>4 DEF StateAfter
      <4>2. ~ (p.seq >= first')
        BY <1>1, <2>1, <3>2
      <4> QED BY <4>1, <4>2 DEF Accept
    <3> QED BY <1>1, <3>2, <3>3, <3>4 DEF BackInv
  <2> QED BY <1>9, <2>2, <2>3 DEF BackInv
<1> QED BY <1>7, <1>8, <1>9

\* The receiver's window with a receive window of 1.
LEMMA BackReceiver ==
  ASSUME NoWrap, RecvWindow = 1, TypeInv, AckInv, BackInv, ReceiverNext, UNCHANGED senderVars
  PROVE  BackInv' /\ first' >= first
<1>0. first \in Int
  BY PacketAssumption DEF TypeInv, TypeOK, ReceiverTypeOK, SequenceNumber
<1>1. log' = log
  BY DEF senderVars
<1>2. CASE ReceivePacket
  <2>1. PICK i \in Deliverable(toReceiver) :
          /\ toReceiver' \in Received(toReceiver, i)
          /\ \/ IgnoreAck(toReceiver[i])
             \/ AckDuplicate(toReceiver[i])
             \/ RefuseBeyond(toReceiver[i])
             \/ Accept(toReceiver[i])
    BY <1>2 DEF ReceivePacket
  <2>2. toReceiver[i] \in ToSet(log)
    <3>1. toReceiver[i] \in ToSet(toReceiver)
      BY <2>1, ReceivedType DEF TypeInv, TypeOK
    <3> QED BY <3>1 DEF AckInv, Intact
  <2>3. CASE Accept(toReceiver[i])
    BY <1>2, <2>2, <2>3, AcceptForward DEF ReceivePacket
  <2>4. CASE UNCHANGED receiverVars
    BY <1>0, <1>1, <2>4 DEF receiverVars, BackInv, Stuck
  <2> QED BY <2>1, <2>3, <2>4 DEF IgnoreAck, AckDuplicate, RefuseBeyond
<1>3. CASE ReceiveFatal
  BY <1>0, <1>3 DEF ReceiveFatal, BackInv
<1>4. CASE SaveFile
  <2>1. /\ UNCHANGED <<recvState, first, second, recvBuffer>>
        /\ recvPc = "yielded" /\ recvPc' = "loop"
    BY <1>4 DEF SaveFile
  <2> QED BY <1>0, <1>1, <2>1 DEF BackInv, Stuck
<1> QED BY <1>2, <1>3, <1>4 DEF ReceiverNext

\* The sender makes packets; it does not change the ones that exist.
LEMMA LogGrows ==
  ASSUME TypeInv, SenderNext
  PROVE  /\ Len(log) \in Nat /\ Len(log') \in Nat
         /\ Len(log') >= Len(log)
         /\ \A i \in 1 .. Len(log) : log'[i] = log[i]
<1>1. log \in Seq(Packets) /\ Len(log) \in Nat
  BY DEF TypeInv, TypeOK, SenderTypeOK
<1>2. CASE TakeSequenceNumber
  <2>1. NewPacket \in Packets
    <3>1. (IF kind = "Data" THEN <<file, chunk>> ELSE NoPayload) \in Nat \X Nat
      BY DEF NoPayload, TypeInv, TypeOK, SenderTypeOK
    <3> QED BY <3>1, PacketType DEF NewPacket, TypeInv, TypeOK, SenderTypeOK
  <2> QED BY <1>1, <1>2, <2>1, AppendType DEF TakeSequenceNumber
<1>3. CASE log' = log
  BY <1>1, <1>3
<1>4. MainNext => TakeSequenceNumber \/ log' = log
  BY DEF MainNext, connect, send, disconnect, stop, StopTimer, join, FindRoom,
         GiveUpWindow, Enqueue, WaitState, NextChunk, Drain, packetVars
<1>5. SendNext \/ TimerNext \/ TimeoutNext => log' = log
  BY DEF SendNext, TimerNext, TimeoutNext, TimeoutFrame, mainVars
<1>6. AckNext => log' = log
  BY DEF AckNext, ReceiveAck, SetState, HandleAck, AckExit, AckFatal, mainVars
<1> QED BY <1>2, <1>3, <1>4, <1>5, <1>6 DEF SenderNext

\* BackInv with the types and AckInv is inductive.
LEMMA BackInductive ==
  ASSUME NoWrap, RecvWindow = 1
  PROVE  TypeInv /\ AckInv /\ BackInv /\ [Next]_vars => BackInv' /\ first' >= first
<1> SUFFICES ASSUME TypeInv, AckInv, BackInv, [Next]_vars PROVE BackInv' /\ first' >= first
  OBVIOUS
<1>0. first \in Nat /\ first <= Len(log)
  BY PacketAssumption DEF TypeInv, TypeOK, ReceiverTypeOK, SequenceNumber, AckInv, ReceiverHas
<1>1. CASE SenderNext /\ UNCHANGED receiverVars
  <2>1. UNCHANGED <<recvPc, recvState, first, second, recvBuffer>>
    BY <1>1 DEF receiverVars
  <2>2. Stuck => Stuck'
    <3> SUFFICES ASSUME Stuck PROVE Stuck'
      OBVIOUS
    <3>1. first + 1 \in 1 .. Len(log) /\ Len(log) \in Nat
      BY <1>0, <1>1, LogGrows DEF Stuck
    <3>2. first' < Len(log') /\ log'[first' + 1] = log[first + 1]
      BY <1>0, <1>1, <2>1, <3>1, LogGrows
    <3> QED BY <2>1, <3>2 DEF Stuck
  <2> QED BY <1>0, <2>1, <2>2 DEF BackInv
<1>2. CASE ReceiverNext /\ UNCHANGED senderVars
  BY <1>2, BackReceiver
<1>3. CASE UNCHANGED vars
  <2>1. UNCHANGED <<recvPc, recvState, first, second, recvBuffer, log>>
    BY <1>3 DEF vars, senderVars, receiverVars
  <2> QED BY <1>0, <2>1 DEF BackInv, Stuck
<1> QED BY <1>1, <1>2, <1>3 DEF Next, Idle

\* With a receive window of 1 and as long as no sequence number is used twice,
\* neither window ever moves back, whatever the retry limit, the commands the
\* user types and the path: no late connection request makes Receiver::recv
\* start again at a packet it has written.
THEOREM WindowsNeverBack == ASSUME NoWrap, RecvWindow = 1 PROVE Spec => NeverBack
<1>1. Init => TypeInv /\ AckInv /\ BackInv
  <2>1. Init => BackInv
    BY DEF Init, ReceiverInit, BackInv, SeqsOf
  <2> QED BY <2>1, TypeInit, AckInit
<1>2. TypeInv /\ AckInv /\ BackInv /\ [Next]_vars =>
        BackInv' /\ [lower' >= lower /\ first' >= first]_vars
  <2> SUFFICES ASSUME TypeInv, AckInv, BackInv, [Next]_vars
               PROVE  BackInv' /\ [lower' >= lower /\ first' >= first]_vars
    OBVIOUS
  <2>1. BackInv' /\ first' >= first
    BY BackInductive
  <2>2. lower' >= lower
    BY LowerForward
  <2> QED BY <2>1, <2>2
<1> QED BY <1>1, <1>2, AckInductive, PTL DEF Spec, NeverBack

-----------------------------------------------------------------------------
(* What the main thread makes, and the receiver's state machine, without a *)
(* retry limit.                                                            *)

\* One of the first a packets begins a file, and up to the b-th packet only
\* chunks follow it.
Pushed(a, b) ==
  \E i \in 1 .. a : /\ log[i].kind = "DataPush"
                    /\ \A j \in i + 1 .. b : log[j].kind = "Data"

\* The main thread sends chunks and the end of a file only after its begin,
\* and nothing else in between; it waits for the packet it made last.
MainInv ==
  /\ sendPc # "exhausted"
  /\ ~ running => mainPc \in {"stop", "join", "exited", "crashed"}
  /\ mainPc \in {"pool", "wait"} => log # <<>> /\ log[Len(log)].kind = kind
  /\ (\/ mainPc \in {"data", "drain"}
      \/ mainPc \in {"window", "number"} /\ kind \in {"Data", "DataStop"}) => Pushed(Len(log), Len(log))
  /\ \A m \in 1 .. Len(log) : log[m].kind \in {"Data", "DataStop"} => Pushed(m - 1, m - 1)

\* Main is in connect, or in a send that was typed before any connect.
InFirstCommand == \/ kind = "ConnReq" /\ state = "Connecting"
                  \/ kind = "DataPush" /\ state = "Pushing"

\* The receiver has received nothing, and the sender has at most one packet.
Fresh ==
  /\ first = 0 /\ recvBuffer = {} /\ toSender = <<>> /\ ~ peerKnown
  /\ ackPc \notin {"state", "ack"}
  /\ Len(log) <= 1
  /\ \/ mainPc = "prompt" /\ state = "Idle" /\ log = <<>>
     \/ mainPc \in {"window", "number"} /\ InFirstCommand /\ log = <<>>
     \/ mainPc \in {"pool", "wait"} /\ InFirstCommand
     \/ mainPc \in {"stop", "join", "exited", "crashed"}

\* The state of the receiver follows from what it has taken in order: idle
\* before its first packet, and receiving between begin and end of a file.
StateInv ==
  /\ recvState = "Idle" /\ recvPc = "loop" => Fresh
  /\ recvState # "Idle" => peerKnown
  /\ recvPc = "yielded" => recvState # "Idle"
  /\ peerKnown /\ Pushed(first, first) => recvState = "Receiving"

\* What was made stays, so its begins and chunks do.
LEMMA PushedFrame ==
  ASSUME TypeInv, \A i \in 1 .. Len(log) : log'[i] = log[i]
  PROVE  \A a, b \in 0 .. Len(log) : Pushed(a, b)' <=> Pushed(a, b)
<1> SUFFICES ASSUME NEW a \in 0 .. Len(log), NEW b \in 0 .. Len(log)
             PROVE  Pushed(a, b)' <=> Pushed(a, b)
  OBVIOUS
<1>1. Len(log) \in Nat
  BY DEF TypeInv, TypeOK, SenderTypeOK
<1>2. \A i \in 1 .. a : i \in 1 .. Len(log) /\ \A j \in i + 1 .. b : j \in 1 .. Len(log)
  BY <1>1
<1> QED BY <1>2 DEF Pushed

\* The main thread keeps MainInv.
LEMMA MainMain ==
  ASSUME MaxRetry = Unlimited, TypeInv, MainInv, MainNext
  PROVE  MainInv'
<1> USE DEF TypeInv, TypeOK, SenderTypeOK
<1>1. /\ sendPc' # "exhausted"
      /\ log \in Seq(Packets) /\ Len(log) \in Nat
  BY DEF MainNext, sendVars, MainInv
<1>2. CASE TakeSequenceNumber
  <2>1. NewPacket \in Packets /\ NewPacket.kind = kind
    <3>1. (IF kind = "Data" THEN <<file, chunk>> ELSE NoPayload) \in Nat \X Nat
      BY DEF NoPayload
    <3> QED BY <3>1, PacketType DEF NewPacket
  <2>2. /\ Len(log') = Len(log) + 1 /\ log' # <<>>
        /\ \A i \in 1 .. Len(log) : log'[i] = log[i]
        /\ log'[Len(log) + 1].kind = kind
    BY <1>1, <1>2, <2>1, AppendType DEF TakeSequenceNumber
  <2>3. mainPc = "number" /\ mainPc' = "pool" /\ kind' = kind /\ running' = running
    BY <1>2 DEF TakeSequenceNumber
  <2>5. ASSUME NEW m \in 1 .. Len(log'), log'[m].kind \in {"Data", "DataStop"}
        PROVE  Pushed(m - 1, m - 1)'
    <3>1. m - 1 \in 0 .. Len(log)
      BY <1>1, <2>2
    <3>2. CASE m = Len(log) + 1
      <4>1. Pushed(Len(log), Len(log)) /\ m - 1 = Len(log)
        BY <1>1, <2>2, <2>3, <2>5, <3>2 DEF MainInv
      <4> QED BY <2>2, <3>1, <4>1, PushedFrame
    <3>3. CASE m # Len(log) + 1
      <4>1. m \in 1 .. Len(log)
        BY <1>1, <2>2, <3>3
      <4>2. Pushed(m - 1, m - 1)
        BY <2>2, <2>5, <4>1 DEF MainInv
      <4> QED BY <2>2, <3>1, <4>2, PushedFrame
    <3> QED BY <3>2, <3>3
  <2> QED BY <1>1, <2>2, <2>3, <2>5 DEF MainInv
<1>3. ASSUME log' = log
      PROVE  \A m \in 1 .. Len(log') :
               log'[m].kind \in {"Data", "DataStop"} => Pushed(m - 1, m - 1)'
  BY <1>3 DEF MainInv, Pushed
<1>4. log' = log => (Pushed(Len(log), Len(log)) => Pushed(Len(log), Len(log))')
  BY DEF Pushed
<1>5. CASE connect \/ send \/ disconnect \/ stop \/ StopTimer \/ join
  <2>1. log' = log
    BY <1>5 DEF connect, send, disconnect, stop, StopTimer, join, packetVars
  <2>2. /\ mainPc' \in {"window", "prompt", "stop", "join", "exited"}
        /\ mainPc' = "window" => kind' \in {"ConnReq", "DataPush", "DisconnReq"} /\ running' = running
        /\ mainPc' = "prompt" => running' = running
        /\ mainPc \in {"prompt", "stop", "join"}
        /\ mainPc # "prompt" => mainPc' \in {"join", "exited"}
    BY <1>5 DEF connect, send, disconnect, stop, StopTimer, join, Typed, StartControl
  <2>3. ~ running' => mainPc' \in {"stop", "join", "exited", "crashed"}
    BY <2>2 DEF MainInv
  <2> QED BY <1>1, <1>3, <2>1, <2>2, <2>3 DEF MainInv
<1>6. CASE FindRoom \/ GiveUpWindow
  <2>1. CASE FindRoom
    <3>1. UNCHANGED <<log, kind, running>> /\ mainPc = "window" /\ mainPc' = "number"
      BY <2>1 DEF FindRoom, packetVars
    <3> QED BY <1>1, <1>3, <1>4, <3>1 DEF MainInv
  <2>2. CASE GiveUpWindow
    BY <2>2 DEF GiveUpWindow, MainInv
  <2> QED BY <1>6, <2>1, <2>2
<1>7. CASE Enqueue
  <2>1. /\ UNCHANGED <<log, kind, running>> /\ mainPc = "pool"
        /\ mainPc' = IF kind = "Data" THEN "data" ELSE "wait"
    BY <1>7 DEF Enqueue
  <2>2. log # <<>> /\ log[Len(log)].kind = kind
    BY <2>1 DEF MainInv
  <2>3. kind = "Data" => Pushed(Len(log), Len(log))
    <3> SUFFICES ASSUME kind = "Data" PROVE Pushed(Len(log), Len(log))
      OBVIOUS
    <3>1. Len(log) \in 1 .. Len(log)
      BY <1>1, <2>2, LastType
    <3>2. Pushed(Len(log) - 1, Len(log) - 1)
      BY <2>2, <3>1 DEF MainInv
    <3>3. PICK i \in 1 .. Len(log) - 1 :
            /\ log[i].kind = "DataPush"
            /\ \A j \in i + 1 .. Len(log) - 1 : log[j].kind = "Data"
      BY <3>2 DEF Pushed
    <3>4. i \in 1 .. Len(log) /\ \A j \in i + 1 .. Len(log) : j = Len(log) \/ j \in i + 1 .. Len(log) - 1
      BY <1>1
    <3> QED BY <2>2, <3>3, <3>4 DEF Pushed
  <2>4. ~ running' => mainPc' \in {"stop", "join", "exited", "crashed"}
    BY <2>1 DEF MainInv
  <2> QED BY <1>1, <1>3, <1>4, <2>1, <2>2, <2>3, <2>4 DEF MainInv
<1>8. CASE WaitState
  <2>1. /\ UNCHANGED <<log, kind, running>> /\ mainPc = "wait"
        /\ mainPc' \in {"prompt", "data"}
        /\ mainPc' = "data" => kind = "DataPush"
    BY <1>8 DEF WaitState, packetVars
  <2>2. mainPc' = "data" => Pushed(Len(log), Len(log))
    <3>1. log # <<>> /\ log[Len(log)].kind = kind
      BY <2>1 DEF MainInv
    <3>2. Len(log) \in 1 .. Len(log) /\ Len(log) + 1 .. Len(log) = {}
      BY <1>1, <3>1, LastType
    <3> QED BY <2>1, <3>1, <3>2 DEF Pushed
  <2>3. running'
    BY <2>1 DEF MainInv
  <2> QED BY <1>1, <1>3, <1>4, <2>1, <2>2, <2>3 DEF MainInv
<1>9. CASE NextChunk
  <2>1. /\ UNCHANGED <<log, running>> /\ mainPc = "data"
        /\ mainPc' \in {"window", "drain"}
    BY <1>9 DEF NextChunk, packetVars
  <2>2. running' /\ Pushed(Len(log), Len(log))
    BY <2>1 DEF MainInv
  <2> QED BY <1>1, <1>3, <1>4, <2>1, <2>2 DEF MainInv
<1>10. CASE Drain
  <2>1. UNCHANGED <<log, running>> /\ mainPc = "drain" /\ mainPc' \in {"window", "crashed", "prompt"}
    BY <1>10 DEF Drain, StartControl, packetVars
  <2>2. running' /\ Pushed(Len(log), Len(log))
    BY <2>1 DEF MainInv
  <2> QED BY <1>1, <1>3, <1>4, <2>1, <2>2 DEF MainInv
<1> QED BY <1>2, <1>5, <1>6, <1>7, <1>8, <1>9, <1>10 DEF MainNext

\* The other threads keep MainInv: without a limit no packet is given up.
LEMMA MainThreads ==
  ASSUME MaxRetry = Unlimited, TypeInv, MainInv,
         SendNext \/ AckNext \/ TimerNext \/ TimeoutNext
  PROVE  MainInv'
<1>1. /\ UNCHANGED <<log, kind>>
      /\ mainPc' = mainPc \/ mainPc' = "crashed"
      /\ mainPc' = mainPc => running' = running
      /\ sendPc' # "exhausted"
  <2>1. CASE SendNext
    <3>1. UNCHANGED <<log, kind, mainPc>>
      BY <2>1 DEF SendNext, mainVars
    <3>2. running' = running /\ sendPc' # "exhausted"
      BY <2>1 DEF SendNext, Pop, SendExit, CleanUp, SkipEmptyWindow, Transmit, Exhaust,
                  GiveUpPacket, RetriesExhausted, LoopOrExit, MainInv
    <3> QED BY <3>1, <3>2
  <2>2. CASE AckNext
    BY <2>2 DEF AckNext, Alive, ReceiveAck, SetState, HandleAck, AckExit, AckFatal, mainVars,
                sendVars, MainInv
  <2>3. CASE TimerNext \/ TimeoutNext
    BY <2>3 DEF TimerNext, TimeoutNext, TimeoutFrame, mainVars, sendVars, MainInv
  <2> QED BY <2>1, <2>2, <2>3
<1>2. \A a, b : Pushed(a, b)' <=> Pushed(a, b)
  BY <1>1 DEF Pushed
<1>3. \A m \in 1 .. Len(log') :
        log'[m].kind \in {"Data", "DataStop"} => Pushed(m - 1, m - 1)'
  BY <1>1, <1>2 DEF MainInv
<1>4. (\/ mainPc' \in {"data", "drain"}
       \/ mainPc' \in {"window", "number"} /\ kind' \in {"Data", "DataStop"}) => Pushed(Len(log), Len(log))'
  BY <1>1, <1>2 DEF MainInv
<1> QED BY <1>1, <1>3, <1>4 DEF MainInv

\* The sender does not end the fresh state: it waits for an answer.
LEMMA FreshSender ==
  ASSUME MaxRetry = Unlimited, TypeInv, MainInv, Fresh, SenderNext, UNCHANGED receiverVars
  PROVE  Fresh'
<1> USE DEF TypeInv, TypeOK, SenderTypeOK
<1>1. first' = 0 /\ recvBuffer' = {} /\ ~ peerKnown'
  BY DEF Fresh, receiverVars
<1>2. CASE MainNext
  <2>1. toSender' = <<>> /\ ackPc' \notin {"state", "ack"}
    BY <1>2 DEF MainNext, netVars, ackVars, Fresh
  <2>2. CASE TakeSequenceNumber
    <3>1. Len(<<>>) = 0
      OBVIOUS
    <3>2. NewPacket \in Packets
      <4>1. (IF kind = "Data" THEN <<file, chunk>> ELSE NoPayload) \in Nat \X Nat
        BY DEF NoPayload
      <4> QED BY <4>1, PacketType DEF NewPacket
    <3>3. log = <<>> /\ InFirstCommand
      BY <2>2 DEF TakeSequenceNumber, Fresh
    <3>4. Len(log') = 1
      BY <2>2, <3>1, <3>2, <3>3, AppendType DEF TakeSequenceNumber
    <3> QED BY <1>1, <2>1, <2>2, <3>3, <3>4 DEF Fresh, InFirstCommand, TakeSequenceNumber
  <2>3. CASE Enqueue
    BY <1>1, <2>1, <2>3 DEF Enqueue, Fresh, InFirstCommand
  <2>4. CASE connect \/ send \/ disconnect \/ stop \/ StopTimer \/ join
    BY <1>1, <2>1, <2>4 DEF connect, send, disconnect, stop, StopTimer, join, Typed,
                            StartControl, packetVars, Fresh, InFirstCommand
  <2>6. CASE FindRoom
    BY <1>1, <2>1, <2>6 DEF FindRoom, packetVars, Fresh, InFirstCommand
  <2>5. CASE GiveUpWindow \/ WaitState \/ NextChunk \/ Drain
    BY <2>5 DEF GiveUpWindow, WaitState, NextChunk, Drain, Fresh, InFirstCommand, MainInv
  <2> QED BY <1>2, <2>2, <2>3, <2>4, <2>5, <2>6 DEF MainNext
<1>3. CASE AckNext
  <2>1. ~ ReceiveAck
    BY DEF Fresh, ReceiveAck, Deliverable
  <2>2. ~ SetState /\ ~ HandleAck
    BY DEF Fresh, SetState, HandleAck
  <2> QED BY <1>1, <1>3, <2>1, <2>2 DEF AckNext, AckExit, AckFatal, mainVars, ackVars,
                                        Fresh, InFirstCommand
<1>4. CASE SendNext
  <2>1. UNCHANGED <<toSender, ackPc, log, mainPc, kind>>
    BY <1>4 DEF SendNext, mainVars, ackVars
  <2>2. state' = state
    BY <1>4 DEF SendNext, Pop, SendExit, CleanUp, SkipEmptyWindow, Transmit, Exhaust,
                GiveUpPacket, MainInv
  <2> QED BY <1>1, <2>1, <2>2 DEF Fresh, InFirstCommand
<1>5. CASE TimerNext \/ TimeoutNext
  <2>1. UNCHANGED <<toSender, ackPc, log, mainPc, kind, state>>
    BY <1>5 DEF TimerNext, TimeoutNext, TimeoutFrame, mainVars, ackVars, netVars
  <2> QED BY <1>1, <2>1 DEF Fresh, InFirstCommand
<1> QED BY <1>2, <1>3, <1>4, <1>5 DEF SenderNext

\* The sender does not change the receiver's state machine.
LEMMA StateSender ==
  ASSUME MaxRetry = Unlimited, TypeInv, AckInv, MainInv, StateInv, SenderNext,
         UNCHANGED receiverVars
  PROVE  StateInv'
<1>1. UNCHANGED <<recvPc, recvState, peerKnown, first>>
  BY DEF receiverVars
<1>2. first \in 0 .. Len(log)
  <2>1. first \in Nat /\ Len(log) \in Nat
    BY PacketAssumption DEF TypeInv, TypeOK, SenderTypeOK, ReceiverTypeOK, SequenceNumber
  <2> QED BY <2>1 DEF AckInv, ReceiverHas
<1>3. Pushed(first, first)' <=> Pushed(first, first)
  <2>1. \A a, b \in 0 .. Len(log) : Pushed(a, b)' <=> Pushed(a, b)
    BY LogGrows, PushedFrame
  <2>2. PICK f : f = first
    OBVIOUS
  <2>3. Pushed(f, f)' <=> Pushed(f, f)
    BY <1>2, <2>1, <2>2
  <2>4. Pushed(first, first)' <=> Pushed(f, f)'
    BY <1>1, <2>2 DEF Pushed
  <2> QED BY <2>2, <2>3, <2>4
<1>4. Fresh => Fresh'
  BY FreshSender
<1> QED BY <1>1, <1>3, <1>4 DEF StateInv

\* A receiver that takes what is in order follows the files of the sender, if
\* only chunks come out of order; it yields with the end of a file.
LEMMA AcceptState ==
  ASSUME TypeInv, AckInv, MainInv, StateInv, recvPc = "loop", UNCHANGED senderVars,
         NEW p \in ToSet(log), Accept(p), NEW n \in Nat, Takes(p, n),
         n = 0 => p.kind = "Data",
         \A i \in first + 2 .. first + n : log[i].kind = "Data"
  PROVE  /\ StateInv'
         /\ recvPc' = "yielded" <=> n # 0 /\ p.kind = "DataStop"
<1>1. /\ log \in Seq(Packets) /\ Len(log) \in Nat /\ first \in Nat /\ first <= Len(log)
      /\ recvState \in {"Idle", "Connected", "Receiving"}
  <2>1. log \in Seq(Packets) /\ first \in SequenceNumber
        /\ recvState \in {"Idle", "Connected", "Receiving"}
    BY DEF TypeInv, TypeOK, SenderTypeOK, ReceiverTypeOK
  <2> QED BY <2>1, LenProperties, PacketAssumption DEF AckInv, ReceiverHas, SequenceNumber
<1>2. log' = log
  BY DEF senderVars
<1>3. p.seq \in 0 .. Len(log) - 1 /\ p = log[p.seq + 1]
  BY LogAt DEF AckInv
<1>4. /\ first' = first + n /\ first + n <= Len(log)
      /\ n = 0 <=> p.seq # first
  BY DEF Takes
<1>5. /\ recvState' = StateAfter(recvState, p.kind)
      /\ peerKnown' = (peerKnown \/ (recvState = "Idle" /\ p.kind = "ConnReq"))
      /\ recvPc' = IF p.seq >= first' THEN "loop"
                   ELSE IF recvState = "Receiving" /\ p.kind = "DataStop" THEN "yielded"
                   ELSE IF recvState' = "Idle" THEN "ended" ELSE "loop"
      /\ ~ (recvState # "Idle" /\ p.seq < first)
  BY DEF Accept, Below
<1>6. n # 0 => p = log[first + 1] /\ ~ (p.seq >= first') /\ first + 1 \in 1 .. Len(log)
  BY <1>1, <1>3, <1>4
<1>7. n = 0 => p.seq >= first'
  <2>1. recvState = "Idle" => first = 0
    BY DEF StateInv, Fresh
  <2> QED BY <1>1, <1>3, <1>4, <1>5, <2>1
<1>8. CASE recvState = "Idle"
  <2>1. Fresh
    BY <1>8 DEF StateInv
  <2>0. first = 0 /\ Len(log) <= 1
    BY <2>1 DEF Fresh
  <2>2. first = 0 /\ Len(log) = 1 /\ p.seq = 0 /\ n = 1 /\ ~ peerKnown
    <3>0. p.seq \in Nat /\ p.seq < Len(log) /\ Len(log) \in Nat
      BY <1>1, <1>3
    <3>1. Len(log) = 1 /\ p.seq = 0
      <4>1. \A a, b \in Nat : a < b /\ b <= 1 => b = 1 /\ a = 0
        OBVIOUS
      <4> QED BY <2>0, <3>0, <4>1
    <3>2. n # 0 /\ n <= 1
      BY <1>1, <1>4, <2>0, <3>1
    <3>3. ~ peerKnown
      BY <2>1 DEF Fresh
    <3> QED BY <2>0, <3>1, <3>2, <3>3
  <2>3. p = log[1] /\ first' = 1
    BY <1>3, <1>4, <2>2
  <2>4. p.kind # "DataStop"
    <3>1. ~ Pushed(0, 0)
      BY DEF Pushed
    <3> QED BY <2>2, <2>3, <3>1 DEF MainInv
  <2>5. recvPc' # "yielded"
    BY <1>5, <1>8
  <2>6. CASE p.kind = "ConnReq"
    <3>1. recvState' = "Connected" /\ peerKnown'
      BY <1>5, <1>8, <2>6 DEF StateAfter
    <3>2. ~ Pushed(first, first)'
      BY <1>2, <2>3, <2>6 DEF Pushed
    <3> QED BY <2>4, <2>5, <3>1, <3>2 DEF StateInv
  <2>7. CASE p.kind # "ConnReq"
    <3>1. recvState' = "Idle" /\ ~ peerKnown'
      BY <1>5, <1>8, <2>2, <2>7 DEF StateAfter
    <3>2. recvPc' = "ended"
      BY <1>5, <1>6, <1>8, <2>2, <3>1
    <3> QED BY <2>4, <3>1, <3>2 DEF StateInv
  <2> QED BY <2>6, <2>7
<1>9. CASE recvState # "Idle"
  <2>1. peerKnown /\ peerKnown'
    BY <1>5, <1>9 DEF StateInv
  <2>2. CASE n = 0
    <3>1. recvState' = recvState /\ recvPc' = "loop" /\ first' = first
      BY <1>1, <1>4, <1>5, <1>7, <2>2 DEF StateAfter
    <3>2. Pushed(first, first)' <=> Pushed(first, first)
      BY <1>2, <3>1 DEF Pushed
    <3> QED BY <1>9, <2>1, <2>2, <3>1, <3>2 DEF StateInv
  <2>3. CASE n # 0
    <3>1. recvState' = "Idle" => recvPc' = "ended"
      BY <1>1, <1>5, <1>6, <1>9, <2>3 DEF StateAfter
    <3>2. p.kind = "DataStop" => recvState = "Receiving"
      <4>1. p.kind = "DataStop" => Pushed((first + 1) - 1, (first + 1) - 1)
        BY <1>6, <2>3 DEF MainInv
      <4>2. (first + 1) - 1 = first
        BY <1>1
      <4> QED BY <2>1, <4>1, <4>2 DEF StateInv
    <3>3. recvPc' = "yielded" <=> p.kind = "DataStop"
      BY <1>5, <1>6, <2>3, <3>2
    <3>4. recvPc' = "yielded" => recvState' # "Idle"
      BY <3>1
    <3>5. Pushed(first, first)' => recvState' = "Receiving"
      <4> SUFFICES ASSUME Pushed(first, first)' PROVE recvState' = "Receiving"
        OBVIOUS
      <4>1. PICK i \in 1 .. first + n :
              /\ log[i].kind = "DataPush"
              /\ \A j \in i + 1 .. first + n : log[j].kind = "Data"
        BY <1>2, <1>4 DEF Pushed
      <4>2. i \notin first + 2 .. first + n
        BY <4>1
      <4>3. CASE i = first + 1
        <5>1. p.kind = "DataPush"
          BY <1>6, <2>3, <4>1, <4>3
        <5> QED BY <1>1, <1>5, <1>9, <5>1 DEF StateAfter
      <4>4. CASE i # first + 1
        <5>1. i \in 1 .. first /\ \A j \in i + 1 .. first : j \in i + 1 .. first + n
          BY <1>1, <4>2, <4>4
        <5>2. Pushed(first, first)
          BY <4>1, <5>1 DEF Pushed
        <5>3. recvState = "Receiving"
          BY <2>1, <5>2 DEF StateInv
        <5>4. first + 1 \in i + 1 .. first + n
          BY <1>1, <2>3, <5>1
        <5>5. p.kind = "Data"
          BY <1>6, <2>3, <4>1, <5>4
        <5> QED BY <1>5, <5>3, <5>5 DEF StateAfter
      <4> QED BY <4>3, <4>4
    <3> QED BY <2>1, <2>3, <3>1, <3>3, <3>4, <3>5 DEF StateInv
  <2> QED BY <2>2, <2>3
<1> QED BY <1>8, <1>9

-----------------------------------------------------------------------------
(* With a receive window of 1 the programs implement ReliableStream.       *)

\* What is left of a sequence after f elements.
LEMMA Suffix ==
  ASSUME NEW S, NEW s \in Seq(S), NEW f \in Nat, f <= Len(s)
  PROVE  LET rest == SubSeq(s, f + 1, Len(s))
         IN  /\ rest \in Seq(S)
             /\ Len(rest) = Len(s) - f
             /\ \A i \in 1 .. Len(s) - f : rest[i] = s[f + i]
<1> DEFINE rest == SubSeq(s, f + 1, Len(s))
<1>1. Len(s) \in Nat /\ \A i \in f + 1 .. Len(s) : s[i] \in S
  OBVIOUS
<1>2. /\ rest \in Seq(S)
      /\ Len(rest) = IF f + 1 <= Len(s) THEN Len(s) - (f + 1) + 1 ELSE 0
      /\ \A i \in 1 .. Len(s) - (f + 1) + 1 : rest[i] = s[(f + 1) + i - 1]
  BY <1>1, SubSeqProperties
<1> HIDE DEF rest
<1>3. rest \in Seq(S) /\ Len(rest) = Len(s) - f /\ \A i \in 1 .. Len(s) - f : rest[i] = s[f + i]
  BY <1>1, <1>2
<1> QED BY <1>3 DEF rest

\* What is left of a sequence after f elements, cut after n of them.
LEMMA SuffixCut ==
  ASSUME NEW S, NEW s \in Seq(S), NEW f \in Nat, NEW n \in Nat, f + n <= Len(s)
  PROVE  LET rest == SubSeq(s, f + 1, Len(s))
         IN  /\ Len(rest) = Len(s) - f
             /\ \A i \in 1 .. n : rest[i] = s[f + i]
             /\ SubSeq(rest, 1, n) = [i \in 1 .. n |-> s[f + i]]
             /\ SubSeq(rest, n + 1, Len(rest)) = SubSeq(s, (f + n) + 1, Len(s))
<1> DEFINE rest == SubSeq(s, f + 1, Len(s))
           taken == [i \in 1 .. n |-> s[f + i]]
           front == SubSeq(rest, 1, n)
           after == SubSeq(rest, n + 1, Len(rest))
           left == SubSeq(s, (f + n) + 1, Len(s))
<1>1. Len(s) \in Nat
  OBVIOUS
<1>2. rest \in Seq(S) /\ Len(rest) = Len(s) - f /\ \A i \in 1 .. Len(s) - f : rest[i] = s[f + i]
  BY <1>1, Suffix
<1> HIDE DEF rest
<1>3. \A i \in 1 .. n : i \in 1 .. Len(s) - f
  BY <1>1
<1>4. front = taken
  <2>1. /\ front \in Seq(S)
        /\ Len(front) = IF 1 <= n THEN n - 1 + 1 ELSE 0
        /\ \A i \in 1 .. n - 1 + 1 : front[i] = rest[1 + i - 1]
    <3>1. \A i \in 1 .. n : rest[i] \in S
      BY <1>1, <1>2, <1>3
    <3> QED BY <3>1, SubSeqProperties
  <2>2. taken \in Seq(S) /\ Len(taken) = n
    <3>1. \A i \in 1 .. n : s[f + i] \in S
      BY <1>1
    <3> QED BY <3>1
  <2>3. \A i \in 1 .. n : taken[i] = rest[i]
    BY <1>2, <1>3
  <2> HIDE DEF front, taken
  <2>4. Len(front) = n /\ \A i \in 1 .. n : front[i] = taken[i]
    BY <2>1, <2>3
  <2> QED BY <2>1, <2>2, <2>4, SeqEqual
<1>5. after = left
  <2>1. /\ after \in Seq(S) /\ Len(after) = Len(rest) - n
        /\ \A i \in 1 .. Len(rest) - n : after[i] = rest[n + i]
    BY <1>1, <1>2, Suffix
  <2>2. /\ left \in Seq(S) /\ Len(left) = Len(s) - (f + n)
        /\ \A i \in 1 .. Len(s) - (f + n) : left[i] = s[(f + n) + i]
    BY <1>1, Suffix
  <2> HIDE DEF after, left
  <2>3. Len(rest) - n = Len(s) - (f + n)
    BY <1>1, <1>2
  <2>4. \A i \in 1 .. Len(s) - (f + n) : after[i] = left[i]
    <3> SUFFICES ASSUME NEW i \in 1 .. Len(s) - (f + n) PROVE after[i] = left[i]
      OBVIOUS
    <3>1. n + i \in 1 .. Len(s) - f /\ f + (n + i) = (f + n) + i
      BY <1>1
    <3> QED BY <1>2, <2>1, <2>2, <2>3, <3>1
  <2> QED BY <2>1, <2>2, <2>3, <2>4, SeqEqual
<1> QED BY <1>2, <1>3, <1>4, <1>5 DEF rest, taken, front, after, left

\* Appending to a sequence appends to what is left of it after f elements.
LEMMA SuffixFront ==
  ASSUME NEW S, NEW s \in Seq(S), NEW x \in S, NEW f \in Nat, f <= Len(s)
  PROVE  LET t == Append(s, x)
         IN  /\ SubSeq(t, f + 1, Len(t)) # <<>>
             /\ Front(SubSeq(t, f + 1, Len(t))) = SubSeq(s, f + 1, Len(s))
<1> DEFINE t == Append(s, x)
<1>1. /\ t \in Seq(S) /\ Len(t) = Len(s) + 1 /\ Len(s) \in Nat
      /\ \A i \in 1 .. Len(s) : t[i] = s[i]
  BY AppendType
<1> HIDE DEF t
<1> DEFINE long == SubSeq(t, f + 1, Len(t))
           short == SubSeq(s, f + 1, Len(s))
           front == SubSeq(long, 1, Len(long) - 1)
<1>2. /\ long \in Seq(S) /\ Len(long) = Len(s) + 1 - f
      /\ \A i \in 1 .. Len(s) + 1 - f : long[i] = t[f + i]
  BY <1>1, Suffix
<1>3. /\ short \in Seq(S) /\ Len(short) = Len(s) - f
      /\ \A i \in 1 .. Len(s) - f : short[i] = s[f + i]
  BY <1>1, Suffix
<1> HIDE DEF long, short
<1>4. /\ front \in Seq(S) /\ Len(front) = Len(s) - f
      /\ \A i \in 1 .. Len(s) - f : front[i] = long[i]
  <2>1. \A i \in 1 .. Len(long) - 1 : long[i] \in S
    BY <1>1, <1>2
  <2>2. /\ front \in Seq(S)
        /\ Len(front) = IF 1 <= Len(long) - 1 THEN Len(long) - 1 - 1 + 1 ELSE 0
        /\ \A i \in 1 .. Len(long) - 1 - 1 + 1 : front[i] = long[1 + i - 1]
    BY <1>1, <1>2, <2>1, SubSeqProperties
  <2> QED BY <1>1, <1>2, <2>2
<1> HIDE DEF front
<1>5. \A i \in 1 .. Len(s) - f : front[i] = short[i]
  <2> SUFFICES ASSUME NEW i \in 1 .. Len(s) - f PROVE front[i] = short[i]
    OBVIOUS
  <2>1. i \in 1 .. Len(s) + 1 - f /\ f + i \in 1 .. Len(s)
    BY <1>1
  <2> QED BY <1>1, <1>2, <1>3, <1>4, <2>1
<1>6. front = short
  BY <1>3, <1>4, <1>5, SeqEqual
<1>7. long # <<>>
  BY <1>1, <1>2
<1> QED BY <1>6, <1>7 DEF Front, front, long, short, t

\* With a window of 1 nothing waits in the buffer.
OneInv == /\ MainInv
          /\ StateInv
          /\ recvBuffer = {}
          /\ second = Plus(first, 1)

\* What the programs show of the stream.
Queue == SubSeq(log, first + 1, Len(log))
Arrived == IF recvPc = "yielded" THEN <<>> ELSE os

\* The receiver keeps MainInv, which is about the sender.
LEMMA MainFrame == ASSUME MainInv, UNCHANGED senderVars PROVE MainInv'
<1>1. UNCHANGED <<sendPc, running, mainPc, kind, log>>
  BY DEF senderVars
<1>2. \A a, b : Pushed(a, b)' <=> Pushed(a, b)
  BY <1>1 DEF Pushed
<1>3. \A m \in 1 .. Len(log') :
        log'[m].kind \in {"Data", "DataStop"} => Pushed(m - 1, m - 1)'
  BY <1>1, <1>2 DEF MainInv
<1>4. (\/ mainPc' \in {"data", "drain"}
       \/ mainPc' \in {"window", "number"} /\ kind' \in {"Data", "DataStop"}) => Pushed(Len(log), Len(log))'
  BY <1>1, <1>2 DEF MainInv
<1> QED BY <1>1, <1>3, <1>4 DEF MainInv

\* The state machine is as it was when nothing but the client moved.
LEMMA StateFrame ==
  ASSUME StateInv, UNCHANGED <<senderVars, recvState, first, peerKnown, recvBuffer>>,
         recvState = "Idle" => UNCHANGED toSender,
         \/ recvPc' = recvPc
         \/ recvPc' = "ended"
         \/ recvPc = "yielded" /\ recvPc' = "loop"
  PROVE  StateInv'
<1>1. Pushed(first, first)' <=> Pushed(first, first)
  BY DEF Pushed, senderVars
<1>2. recvState = "Idle" /\ Fresh => Fresh'
  BY DEF Fresh, InFirstCommand, senderVars
<1> QED BY <1>1, <1>2 DEF StateInv

\* Taking packets in order, of which all but the first are chunks, is
\* receiving them from the stream.
LEMMA TakesGets ==
  ASSUME NoWrap, TypeInv, AckInv, MainInv, recvPc = "loop",
         NEW p \in ToSet(log), NEW n \in Nat, n # 0, Takes(p, n), p = log[first + 1],
         \A i \in first + 2 .. first + n : log[i].kind = "Data",
         recvPc' = "yielded" <=> p.kind = "DataStop", UNCHANGED <<log, files>>
  PROVE  Stream!Get
<1>1. log \in Seq(Packets) /\ Len(log) \in Nat /\ first \in Nat /\ first + n <= Len(log)
  <2>1. log \in Seq(Packets) /\ first \in SequenceNumber
    BY DEF TypeInv, TypeOK, SenderTypeOK, ReceiverTypeOK
  <2> QED BY <2>1, PacketAssumption DEF SequenceNumber, Takes
<1> DEFINE taken == [i \in 1 .. n |-> log[first + i]]
<1>2. PICK rest : rest = Queue
  OBVIOUS
<1>3. /\ Len(rest) = Len(log) - first
      /\ \A i \in 1 .. n : rest[i] = log[first + i]
      /\ SubSeq(rest, 1, n) = taken
      /\ SubSeq(rest, n + 1, Len(rest)) = SubSeq(log, (first + n) + 1, Len(log))
  <2> DEFINE whole == SubSeq(log, first + 1, Len(log))
  <2>1. /\ Len(whole) = Len(log) - first
        /\ \A i \in 1 .. n : whole[i] = log[first + i]
        /\ SubSeq(whole, 1, n) = taken
        /\ SubSeq(whole, n + 1, Len(whole)) = SubSeq(log, (first + n) + 1, Len(log))
    BY <1>1, SuffixCut, Zenon
  <2>2. rest = whole
    BY <1>2 DEF Queue
  <2> HIDE DEF whole
  <2> QED BY <2>1, <2>2
<1>4. n \in 1 .. Len(rest)
  BY <1>1, <1>3
<1>5. Queue' = SubSeq(rest, n + 1, Len(rest))
  BY <1>3 DEF Takes, Queue
<1>6. os' = os \o SubSeq(rest, 1, n)
  BY <1>3 DEF Takes
<1>7. rest[1] = p /\ \A i \in 2 .. n : rest[i].kind = "Data"
  <2>1. 1 \in 1 .. n /\ \A i \in 2 .. n : i \in 1 .. n /\ first + i \in first + 2 .. first + n
    BY <1>1
  <2>2. \A i \in 2 .. n : log[first + i].kind = "Data"
    BY <2>1
  <2> HIDE DEF taken
  <2> QED BY <1>3, <2>1, <2>2
\* The end of a file is not followed by a chunk.
<1>8. ASSUME n > 1 PROVE p.kind # "DataStop"
  <2>1. first + 2 \in first + 2 .. first + n /\ first + 2 \in 1 .. Len(log)
        /\ (first + 2) - 1 = first + 1
    BY <1>1, <1>8
  <2>2. Pushed(first + 1, first + 1)
    BY <2>1 DEF MainInv
  <2>3. PICK i \in 1 .. first + 1 : /\ log[i].kind = "DataPush"
                                    /\ \A j \in i + 1 .. first + 1 : log[j].kind = "Data"
    BY <2>2 DEF Pushed
  <2>4. i = first + 1 \/ first + 1 \in i + 1 .. first + 1
    BY <1>1
  <2> QED BY <2>3, <2>4
<1>9. \A i \in 1 .. n - 1 : ~ IsDataStop(rest[i])
  <2> SUFFICES ASSUME NEW i \in 1 .. n - 1 PROVE rest[i].kind # "DataStop"
    BY DEF IsDataStop
  <2>1. n > 1 /\ (i = 1 \/ i \in 2 .. n)
    OBVIOUS
  <2> QED BY <1>7, <1>8, <2>1
<1>10. IsDataStop(rest[n]) <=> p.kind = "DataStop"
  <2>1. CASE n = 1
    BY <1>7, <2>1 DEF IsDataStop
  <2>2. CASE n > 1
    <3>1. n \in 2 .. n
      BY <2>2
    <3> QED BY <1>7, <1>8, <2>2, <3>1 DEF IsDataStop
  <2> QED BY <2>1, <2>2
<1>11. IF IsDataStop(rest[n])
         THEN Arrived' = <<>> /\ Yielded' = Append(Yielded, Arrived \o SubSeq(rest, 1, n))
         ELSE Arrived' = Arrived \o SubSeq(rest, 1, n) /\ Yielded' = Yielded
  BY <1>6, <1>10 DEF Arrived, Yielded
<1> QED BY <1>2, <1>4, <1>5, <1>9, <1>11 DEF Stream!Get, Queue, Arrived

\* Accepting a packet takes the oldest one that was not taken.
LEMMA AcceptGets ==
  ASSUME NoWrap, RecvWindow = 1, TypeInv, AckInv, OneInv, recvPc = "loop",
         NEW p \in ToSet(log), Accept(p), UNCHANGED senderVars
  PROVE  OneInv' /\ Stream!Get
<1>1. /\ log \in Seq(Packets) /\ Len(log) \in Nat /\ Len(log) < SeqSpace /\ SeqSpace \in Nat
      /\ first \in Nat /\ first <= Len(log) /\ os \in Seq(Packets)
  <2>1. log \in Seq(Packets) /\ first \in SequenceNumber /\ os \in Seq(Packets)
    BY DEF TypeInv, TypeOK, SenderTypeOK, ReceiverTypeOK
  <2>2. first <= Len(log) /\ Len(log) <= MaxPackets
    BY DEF AckInv, ReceiverHas, Numbered
  <2> QED BY <2>1, <2>2, LenProperties, PacketAssumption, SenderAssumption
          DEF NoWrap, SequenceNumber
<1>2. log' = log
  BY DEF senderVars
<1>3. p.seq \in Nat /\ p.seq < Len(log) /\ p = log[p.seq + 1] /\ p \in Packets
  BY <1>1, LogAt DEF AckInv, ToSet
<1>4. p.seq = first
  <2>1. CASE recvState = "Idle"
    <3>1. first = 0 /\ Len(log) <= 1
      BY <2>1 DEF OneInv, StateInv, Fresh
    <3>2. \A a, b \in Nat : a < b /\ b <= 1 => a = 0
      OBVIOUS
    <3> QED BY <1>1, <1>3, <3>1, <3>2
  <2>2. CASE recvState # "Idle"
    <3>1. ~ (p.seq < first) /\ ~ (p.seq >= Plus(first, 1))
      BY <2>2 DEF Accept, Below, Beyond, OneInv
    <3> QED BY <1>1, <1>3, <3>1 DEF Plus
  <2> QED BY <2>1, <2>2
<1>5. PICK n \in Nat : /\ Takes(p, n)
                       /\ second' = Plus(Plus(first, 1), n)
  <2>1. PICK n \in Nat :
          /\ Takes(p, n)
          /\ second' = Plus(IF recvState = "Idle" /\ p.kind = "ConnReq"
                              THEN Plus(p.seq, RecvWindow) ELSE second, n)
    BY <1>4, AcceptInOrder DEF OneInv
  <2> QED BY <1>4, <2>1 DEF OneInv
<1>6. n # 0 /\ first + n <= Len(log) /\ first' = first + n
  BY <1>4, <1>5 DEF Takes
<1>7. n = 1
  <2>1. \A i \in first + 2 .. first + n : log[i] \in {}
    BY <1>5 DEF Takes, OneInv
  <2> QED BY <1>1, <1>6, <2>1
<1>8. recvBuffer' = {}
  <2>1. recvBuffer' \subseteq {p} /\ \A q \in recvBuffer' : q.seq > first + 1
    BY <1>5, <1>7 DEF Takes, OneInv
  <2> QED BY <1>1, <1>4, <2>1
<1>9. second' = Plus(first', 1)
  <2>1. Plus(first, 1) = first + 1
    BY <1>1, <1>6, <1>7 DEF Plus
  <2> QED BY <1>5, <1>6, <1>7, <2>1
<1>10. /\ StateInv'
       /\ recvPc' = "yielded" <=> p.kind = "DataStop"
  <2>1. first + 2 .. first + n = {}
    BY <1>1, <1>7
  <2> QED BY <1>5, <1>6, <1>7, <2>1, AcceptState DEF OneInv
<1>11. OneInv'
  BY <1>8, <1>9, <1>10, MainFrame DEF OneInv
<1>12. /\ p = log[first + 1] /\ files' = files
       /\ \A i \in first + 2 .. first + n : log[i].kind = "Data"
  BY <1>1, <1>3, <1>4, <1>7 DEF Accept
<1>13. Stream!Get
  BY <1>2, <1>5, <1>6, <1>10, <1>12, TakesGets DEF OneInv
<1> QED BY <1>11, <1>13

\* A step of the receiver takes one packet, or is none of the stream.
LEMMA OneReceiver ==
  ASSUME NoWrap, RecvWindow = 1, TypeInv, AckInv, OneInv, ReceiverNext, UNCHANGED senderVars
  PROVE  OneInv' /\ (Stream!Get \/ UNCHANGED <<Queue, Arrived, Yielded>>)
<1>1. log' = log
  BY DEF senderVars
<1>2. MainInv'
  BY MainFrame DEF OneInv
<1>3. CASE ReceivePacket
  <2>1. PICK i \in Deliverable(toReceiver) :
          /\ toReceiver' \in Received(toReceiver, i)
          /\ \/ IgnoreAck(toReceiver[i])
             \/ AckDuplicate(toReceiver[i])
             \/ RefuseBeyond(toReceiver[i])
             \/ Accept(toReceiver[i])
    BY <1>3 DEF ReceivePacket
  <2>2. toReceiver[i] \in ToSet(log)
    <3>1. toReceiver[i] \in ToSet(toReceiver)
      BY <2>1, ReceivedType DEF TypeInv, TypeOK
    <3> QED BY <3>1 DEF AckInv, Intact
  <2>3. CASE Accept(toReceiver[i])
    BY <1>3, <2>2, <2>3, AcceptGets DEF ReceivePacket
  <2>4. CASE IgnoreAck(toReceiver[i]) \/ AckDuplicate(toReceiver[i]) \/ RefuseBeyond(toReceiver[i])
    <3>1. UNCHANGED receiverVars /\ (recvState = "Idle" => UNCHANGED toSender)
      BY <2>4 DEF IgnoreAck, AckDuplicate, RefuseBeyond, Below, Beyond
    <3>2. UNCHANGED <<recvPc, recvState, first, second, peerKnown, recvBuffer, os, files>>
      BY <3>1 DEF receiverVars
    <3>3. StateInv'
      BY <3>1, <3>2, StateFrame DEF OneInv
    <3> QED BY <1>1, <1>2, <3>2, <3>3 DEF OneInv, Queue, Arrived, Yielded
  <2> QED BY <2>1, <2>3, <2>4
<1>4. CASE ReceiveFatal
  <2>1. /\ UNCHANGED <<recvState, first, second, peerKnown, recvBuffer, os, files, toSender>>
        /\ recvPc = "loop" /\ recvPc' = "ended"
    BY <1>4 DEF ReceiveFatal, netVars
  <2>2. StateInv'
    BY <2>1, StateFrame DEF OneInv
  <2> QED BY <1>1, <1>2, <2>1, <2>2 DEF OneInv, Queue, Arrived, Yielded
<1>5. CASE SaveFile
  <2>1. /\ UNCHANGED <<recvState, first, second, peerKnown, recvBuffer, toSender>>
        /\ recvPc = "yielded" /\ recvPc' = "loop"
        /\ os' = <<>> /\ files' = Append(files, os)
    BY <1>5 DEF SaveFile, netVars
  <2>2. StateInv'
    BY <2>1, StateFrame DEF OneInv
  <2> QED BY <1>1, <1>2, <2>1, <2>2 DEF OneInv, Queue, Arrived, Yielded
<1> QED BY <1>3, <1>4, <1>5 DEF ReceiverNext

\* A step of the sender makes one packet, or is none of the stream.
LEMMA SenderPuts ==
  ASSUME TypeInv, AckInv, SenderNext, UNCHANGED receiverVars
  PROVE  Stream!Put \/ UNCHANGED <<Queue, Arrived, Yielded>>
<1>1. UNCHANGED <<recvPc, first, os, files>>
  BY DEF receiverVars
<1>2. Arrived' = Arrived /\ Yielded' = Yielded
  BY <1>1 DEF Arrived, Yielded
<1>5. CASE log' = log
  BY <1>1, <1>2, <1>5 DEF Queue
<1>6. CASE TakeSequenceNumber
  <2>1. NewPacket \in Packets
    <3>1. (IF kind = "Data" THEN <<file, chunk>> ELSE NoPayload) \in Nat \X Nat
      BY DEF NoPayload, TypeInv, TypeOK, SenderTypeOK
    <3> QED BY <3>1, PacketType DEF NewPacket, TypeInv, TypeOK, SenderTypeOK
  <2>2. log \in Seq(Packets) /\ first \in Nat /\ first <= Len(log)
    BY PacketAssumption
       DEF TypeInv, TypeOK, SenderTypeOK, ReceiverTypeOK, SequenceNumber, AckInv, ReceiverHas
  <2>3. log' = Append(log, NewPacket)
    BY <1>6 DEF TakeSequenceNumber
  <2>4. Queue' # <<>> /\ Front(Queue') = Queue
    <3> DEFINE t == Append(log, NewPacket)
    <3>1. /\ SubSeq(t, first + 1, Len(t)) # <<>>
          /\ Front(SubSeq(t, first + 1, Len(t))) = SubSeq(log, first + 1, Len(log))
      BY <2>1, <2>2, SuffixFront
    <3>2. Queue' = SubSeq(t, first + 1, Len(t))
      BY <1>1, <2>3 DEF Queue
    <3> QED BY <3>1, <3>2 DEF Queue
  <2>5. Stream!Put
    BY <1>2, <2>4 DEF Stream!Put, Stream!Front, Front, Queue, Arrived
  <2> QED BY <1>2, <2>5
<1>7. MainNext => TakeSequenceNumber \/ log' = log
  BY DEF MainNext, connect, send, disconnect, stop, StopTimer, join, FindRoom,
         GiveUpWindow, Enqueue, WaitState, NextChunk, Drain, packetVars
<1>8. SendNext \/ TimerNext \/ TimeoutNext => log' = log
  BY DEF SendNext, TimerNext, TimeoutNext, TimeoutFrame, mainVars
<1>9. AckNext => log' = log
  BY DEF AckNext, ReceiveAck, SetState, HandleAck, AckExit, AckFatal, mainVars
<1> QED BY <1>5, <1>6, <1>7, <1>8, <1>9 DEF SenderNext

\* A step of the sender keeps the invariant.
LEMMA OneSender ==
  ASSUME MaxRetry = Unlimited, TypeInv, AckInv, OneInv, SenderNext, UNCHANGED receiverVars
  PROVE  OneInv' /\ (Stream!Put \/ UNCHANGED <<Queue, Arrived, Yielded>>)
<1>1. UNCHANGED <<second, recvBuffer, first>>
  BY DEF receiverVars
<1>2. MainInv'
  BY MainMain, MainThreads DEF OneInv, SenderNext
<1>3. StateInv'
  BY StateSender DEF OneInv
<1> QED BY <1>1, <1>2, <1>3, SenderPuts DEF OneInv

\* Nothing is made or received at the start.
LEMMA StateInit == Init => MainInv /\ StateInv
<1> SUFFICES ASSUME Init PROVE MainInv /\ StateInv
  OBVIOUS
<1>1. log = <<>> /\ Len(<<>>) = 0
  BY DEF Init, SenderInit
<1>2. MainInv
  BY <1>1 DEF Init, SenderInit, MainInv
<1>3. StateInv
  BY <1>1 DEF Init, SenderInit, ReceiverInit, StateInv, Fresh
<1> QED BY <1>2, <1>3

\* So the stream is empty.
LEMMA StreamStart == Init => Stream!StreamInit
<1> SUFFICES ASSUME Init PROVE Stream!StreamInit
  OBVIOUS
<1>1. log = <<>> /\ first = 0 /\ Len(<<>>) = 0
  BY DEF Init, SenderInit, ReceiverInit
<1>2. SubSeq(log, first + 1, Len(log)) = <<>>
  BY <1>1, SubSeqEmpty
<1> QED BY <1>2 DEF Stream!StreamInit, Init, ReceiverInit, Yielded

\* With a receive window of 1 and no retry limit, and as long as no sequence
\* number is used twice, the two programs implement the stream of files,
\* whatever the user types and the path does to datagrams: Receiver::recv
\* yields what send() was given, each chunk once and in order, file by file.
THEOREM StreamRefined ==
  ASSUME NoWrap, RecvWindow = 1, MaxRetry = Unlimited
  PROVE  Spec => StreamOK
<1>1. Init => TypeInv /\ AckInv /\ OneInv
  <2> SUFFICES ASSUME Init PROVE OneInv
    BY TypeInit, AckInit
  <2>1. Plus(0, 1) = 1
    BY ReceiverAssumption, PacketAssumption DEF Plus
  <2> QED BY <2>1, StateInit DEF Init, ReceiverInit, OneInv
<1>2. Init => Stream!StreamInit
  BY StreamStart
<1>3. TypeInv /\ AckInv /\ OneInv /\ [Next]_vars =>
        OneInv' /\ [Stream!Put \/ Stream!Get]_<<Queue, Arrived, Yielded>>
  <2> SUFFICES ASSUME TypeInv, AckInv, OneInv, [Next]_vars
               PROVE  OneInv' /\ [Stream!Put \/ Stream!Get]_<<Queue, Arrived, Yielded>>
    OBVIOUS
  <2>1. CASE SenderNext /\ UNCHANGED receiverVars
    BY <2>1, OneSender
  <2>2. CASE ReceiverNext /\ UNCHANGED senderVars
    BY <2>2, OneReceiver
  <2>3. CASE UNCHANGED vars
    <3>1. UNCHANGED senderVars /\ UNCHANGED receiverVars /\ toSender' = toSender
      BY <2>3 DEF vars, netVars
    <3>2. UNCHANGED <<recvPc, recvState, first, second, peerKnown, recvBuffer, os, files, log>>
      BY <3>1 DEF senderVars, receiverVars
    <3>3. MainInv' /\ StateInv'
      BY <3>1, <3>2, MainFrame, StateFrame DEF OneInv
    <3> QED BY <3>2, <3>3 DEF OneInv, Queue, Arrived, Yielded
  <2> QED BY <2>1, <2>2, <2>3 DEF Next, Idle
<1> QED BY <1>1, <1>2, <1>3, AckInductive, PTL
        DEF Spec, StreamOK, Stream!StreamSpec, Queue, Arrived
=============================================================================
