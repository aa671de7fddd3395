---------------------------- MODULE FileTransfer ----------------------------
(***************************************************************************)
(* A sender and a receiver of nkurdt at the two ends of a lossy path: the  *)
(* programs file_sender and file_receiver with the router between them.    *)
(***************************************************************************)
EXTENDS Sender, Receiver

vars == <<senderVars, receiverVars, netVars>>

Init ==
  /\ SenderInit
  /\ ReceiverInit
  /\ toReceiver = <<>>
  /\ toSender = <<>>

\* The sender's program is over, or waits for a user who types nothing more.
Finished == \/ mainPc \in {"exited", "crashed"}
            \/ mainPc = "prompt" /\ script = <<>>

Idle == Finished /\ UNCHANGED vars

Next == \/ SenderNext /\ UNCHANGED receiverVars
        \/ ReceiverNext /\ UNCHANGED senderVars
        \/ Idle

Spec == Init /\ [][Next]_vars

-----------------------------------------------------------------------------
(* Fairness. The operating system runs every thread, and every wait in     *)
(* them has a timeout or a notification: weak fairness of each thread; for *)
(* the timer, of each event, as the module ConcurrentTimer provides. The   *)
(* router draws the loss of each datagram independently and with a         *)
(* probability below 1: a datagram that is sent again and again gets       *)
(* through, which is strong fairness of sending it successfully.           *)

TransmitOk(s) ==
  /\ SendNext
  /\ Transmit
  /\ sendSeq = s
  /\ Len(toReceiver') > Len(toReceiver)
  /\ UNCHANGED receiverVars

ReplyOk(s) ==
  /\ ReceivePacket
  /\ toReceiver[1].seq = s
  /\ Len(toSender') > Len(toSender)
  /\ UNCHANGED senderVars

TimesOut(s) ==
  /\ TimerNext
  /\ s \in timer \ timer'
  /\ UNCHANGED receiverVars

Fairness ==
  /\ WF_vars(MainNext /\ UNCHANGED receiverVars)
  /\ WF_vars(SendNext /\ UNCHANGED receiverVars)
  /\ WF_vars(AckNext /\ UNCHANGED receiverVars)
  /\ WF_vars(TimeoutNext /\ UNCHANGED receiverVars)
  /\ WF_vars(ReceiverNext /\ UNCHANGED senderVars)
  /\ \A s \in 0 .. MaxPackets - 1 :
       WF_vars(TimesOut(s)) /\ SF_vars(TransmitOk(s)) /\ SF_vars(ReplyOk(s))

FairSpec == Spec /\ Fairness

-----------------------------------------------------------------------------
\* Every variable has a value of its type.
TypeOK ==
  /\ SenderTypeOK
  /\ ReceiverTypeOK
  /\ toReceiver \in Seq(Packets)
  /\ toSender \in Seq(Packets)

\* Sequence numbers do not wrap around while a behaviour lasts.
NoWrap == MaxPackets < SeqSpace

(***************************************************************************)
(* "If seq < lower, the seq is already acked" (sender.hpp): whatever the   *)
(* network loses, repeats or reorders, a packet that the sender's window   *)
(* has passed is at the receiver, unchanged; or it is older than the       *)
(* connection request that the receiver answered.                          *)
(***************************************************************************)
NoFalseAck ==
  \A s \in 0 .. lower - 1 :
     s \in skipped \/ (s < Len(log) /\ log[s + 1] \in Kept)

(***************************************************************************)
(* "seq lower than `lower` is already received" (receiver.hpp): a packet   *)
(* below the window of a receiver that is not idle, which it answers as a  *)
(* duplicate, is one that it has, or older than the connection request it  *)
(* answered.                                                               *)
(***************************************************************************)
DuplicateIsKnown ==
  \A p \in ToSet(toReceiver) : Below(p) => p.seq \in skipped \/ p \in Kept

(***************************************************************************)
(* "[lower, upper) is the used sequence number" and never more than        *)
(* max_window_size of them (sender.hpp, ConcurrentWindow), although the    *)
(* bounds are moved by two threads with separate calls.                    *)
(***************************************************************************)
WindowOK ==
  /\ upper = Len(log)
  /\ lower <= upper
  /\ upper <= lower + SendWindow

(***************************************************************************)
(* Neither window moves back: no late, repeated or overtaken datagram makes *)
(* the sender resend what was acknowledged or the receiver write again     *)
(* what it wrote (recv_handler, Receiver::recv).                           *)
(***************************************************************************)
NeverBack == [][lower' >= lower /\ first' >= first]_vars

\* A file is with the client from the moment recv() yields it.
Yielded == IF recvPc = "yielded" THEN Append(files, os) ELSE files

IsDataStop(p) == p.kind = "DataStop"

Stream == INSTANCE ReliableStream
  WITH EndsFile <- IsDataStop,
       queue <- SubSeq(log, first + 1, Len(log)),
       arrived <- IF recvPc = "yielded" THEN <<>> ELSE os,
       delivered <- Yielded

(***************************************************************************)
(* The two programs implement a stream of files: the client gets the       *)
(* chunks handed to send(), each once and in order, and it gets a file     *)
(* when its last chunk has arrived and before the first one of the next    *)
(* (send(), Receiver::recv and the loop around it).                        *)
(***************************************************************************)
StreamOK == Stream!StreamSpec

(***************************************************************************)
(* While the sender is in the data phase the receiver is in it too: the    *)
(* two state machines are only coupled by datagrams. It holds without a    *)
(* retry limit, in a session where no command is typed twice or, on a path *)
(* that keeps the order, where two files are sent; late answers can break  *)
(* it in the third send().                                                 *)
(***************************************************************************)
InStep == state = "Sending" => recvState = "Receiving"

(***************************************************************************)
(* "all packets are sent." (sender.cpp): when send() has returned success, *)
(* the client has the file or is about to be given it.                     *)
(***************************************************************************)
Delivered == okSends <= Len(Yielded)

(***************************************************************************)
(* "because set is ordered, we can just check the first element"           *)
(* (receiver.cpp): after the slide loop the buffer does not hold the       *)
(* packet at the lower end of the window.                                  *)
(***************************************************************************)
NextIsMissing == first \notin SeqsOf(recvBuffer)

(***************************************************************************)
(* "[lower, upper) indicates the ready-to-receive seq range"               *)
(* (receiver.hpp): the packet that the receiver waits for is in it.        *)
(***************************************************************************)
ReadyForNext == first < second

(***************************************************************************)
(* No packet is forgotten: an unacknowledged packet of the window is in    *)
(* the pending queue, in the timer, in the hands of a thread, or the send  *)
(* thread has given it up. Otherwise nothing would ever send it again.     *)
(***************************************************************************)
InHand(s) ==
  \/ s \in pending \cup timer \cup timedOut
  \/ sendPc \in {"popped", "exhausted"} /\ sendSeq = s
  \/ mainPc = "pool" /\ s = upper - 1

NoOrphan ==
  Alive /\ running =>
     \A s \in lower .. upper - 1 : s \in acked \/ InHand(s) \/ s \in givenUp

(***************************************************************************)
(* Why NoFalseAck and WindowOK hold: the inductive invariant that their     *)
(* proof uses. Packets are numbered as they are made; what is in the pool, *)
(* on its way or at the receiver is one of them, unchanged; the receiver   *)
(* has everything below its window, answers for every acknowledgement that *)
(* is on its way or in the hands of the receive thread, and the sender     *)
(* takes nothing else for acknowledged. The room that main found in the    *)
(* window is still there when it takes a sequence number.                  *)
(***************************************************************************)
Numbered == /\ Len(log) <= MaxPackets
            /\ \A i \in DOMAIN log : log[i].seq = i - 1

Intact == ToSet(toReceiver) \cup pool \cup Kept \subseteq ToSet(log)

ReceiverHas == /\ first <= Len(log)
               /\ skipped \subseteq 0 .. Len(log) - 1
               /\ \A s \in 0 .. first - 1 : Has(s)

SenderTruthful == /\ \A s \in acked : Has(s)
                  /\ \A s \in 0 .. lower - 1 : Has(s)
                  /\ ackPc \in {"state", "ack"} => Truthful(ackPacket)

RoomKept == mainPc = "number" => upper < lower + SendWindow

AckInv == /\ Numbered
          /\ Intact
          /\ ReceiverHas
          /\ AcksTruthful
          /\ SenderTruthful
          /\ WindowOK
          /\ RoomKept

\* disconnect() waits for the answer of a receiver that has left, and the only
\* one it gave is lost: it is not on its way and was not received.
LeftAlone == /\ mainPc = "wait" /\ kind = "DisconnReq"
             /\ state = "Disconnecting"
             /\ recvPc = "ended"
             /\ toSender = <<>>
             /\ ackPc = "wait"


(***************************************************************************)
(* "also, this is for cleaning up" (send_handler): what is acknowledged is *)
(* in the end gone from pool, queue and timer, although remove_event leaves *)
(* a number that has timed out in the timed-out set, from which it becomes *)
(* pending once more.                                                      *)
(***************************************************************************)
CleansUp ==
  <>[](running /\ Alive =>
         \A s \in SeqsOf(pool) \cup pending \cup timer \cup timedOut : s >= lower)

\* send() gets past its DataPush packet ("waiting for `DataPushAck` packet").
PushReturns == (mainPc = "wait" /\ kind = "DataPush") ~> (mainPc # "wait")

\* "if max retry count reached, change state according to the current state".
GiveUpEnds == (sendPc = "exhausted") ~> (sendPc # "exhausted")
=============================================================================
