------------------------------ MODULE Receiver ------------------------------
(***************************************************************************)
(* The receiver of nkurdt (receiver.hpp, receiver.cpp): the coroutine      *)
(* Receiver::recv and the client of app/file_transfer/receiver.cpp that    *)
(* resumes it. Both run in one thread, so one datagram is handled in one   *)
(* step; the client's turn after a co_yield is a step of its own.          *)
(***************************************************************************)
EXTENDS Network

CONSTANT RecvWindow  \* max_window_size_ of the receiver

ASSUME ReceiverAssumption == RecvWindow \in 1 .. SeqSpace - 1

VARIABLES
  recvPc,       \* "loop" in recv(), "yielded" true, or "ended" (yielded false)
  recvState,    \* state_
  first,        \* window_.first
  second,       \* window_.second
  peerKnown,    \* peer_addr_.has_value()
  recvBuffer,   \* recv_buffer_, ordered by sequence number
  os,           \* packets whose payload was written to *os_ since the last
                \* file was saved, in the order of the write calls
  files,        \* what the client saved, file by file
  skipped       \* history: sequence numbers below a connection request that
                \* the window was moved to

receiverVars ==
  <<recvPc, recvState, first, second, peerKnown, recvBuffer, os, files, skipped>>

ReceiverTypeOK ==
  /\ recvPc \in {"loop", "yielded", "ended"}
  /\ recvState \in {"Idle", "Connected", "Receiving"}
  /\ first \in SequenceNumber
  /\ second \in SequenceNumber
  /\ peerKnown \in BOOLEAN
  /\ recvBuffer \in SUBSET Packets
  /\ os \in Seq(Packets)
  /\ files \in Seq(Seq(Packets))
  /\ skipped \in SUBSET SequenceNumber

\* What the receiver has: in its buffer, written to its stream, or saved.
Kept == recvBuffer \cup ToSet(os) \cup UNION {ToSet(files[j]) : j \in DOMAIN files}

ReceiverInit ==
  /\ recvPc = "loop"
  /\ recvState = "Idle"
  /\ first = 0
  /\ second = RecvWindow
  /\ peerKnown = FALSE
  /\ recvBuffer = {}
  /\ os = <<>>
  /\ files = <<>>
  /\ skipped = {}

-----------------------------------------------------------------------------
\* Mutant: the acknowledgement is one too high.
ReplyPast(known, kind, seq) ==
  IF known
    THEN toSender' \in
           Sent(toSender, Packet(get_ack_kind(kind), Plus(seq, 1), NoPayload))
    ELSE UNCHANGED toSender

\* channel_.send(peer_addr_, ack): nothing is sent while the peer is unknown.
Reply(known, kind, seq) ==
  IF known
    THEN toSender' \in Sent(toSender, Packet(get_ack_kind(kind), seq, NoPayload))
    ELSE UNCHANGED toSender

\* A packet that is an acknowledgement is ignored.
IgnoreAck(p) ==
  /\ is_ack(p)
  /\ UNCHANGED <<receiverVars, toSender>>

\* Mutant: off by one.
BelowOrFirst(p) == recvState # "Idle" /\ p.seq <= first

\* Outside of Idle only packets of the window are taken.
Below(p) == recvState # "Idle" /\ p.seq < first
Beyond(p) == recvState # "Idle" /\ p.seq >= second


\* A packet below the window was received before: acknowledge it again.
AckDuplicate(p) ==
  /\ ~ is_ack(p)
  /\ Below(p)
  /\ Reply(peerKnown, p.kind, IF SelectiveRepeat THEN p.seq ELSE first)
  /\ UNCHANGED receiverVars

\* Mutant: a packet that is dropped is acknowledged.
RefuseBeyondAcked(p) ==
  /\ ~ is_ack(p)
  /\ ~ Below(p)
  /\ Beyond(p)
  /\ Reply(peerKnown, p.kind, IF SelectiveRepeat THEN p.seq ELSE first)
  /\ UNCHANGED receiverVars

\* A packet beyond the window is dropped; go-back-n repeats its last ack.
RefuseBeyond(p) ==
  /\ ~ is_ack(p)
  /\ ~ Below(p)
  /\ Beyond(p)
  /\ Reply(peerKnown /\ ~ SelectiveRepeat, p.kind, first)
  /\ UNCHANGED receiverVars

\* The state machine of recv(): the state after a packet of some kind.
StateAfter(s, kind) ==
  CASE s = "Idle" /\ kind = "ConnReq"         -> "Connected"
    [] s = "Receiving" /\ kind = "DataStop"   -> "Connected"
    [] s = "Connected" /\ kind = "DataPush"   -> "Receiving"
    [] s = "Connected" /\ kind = "DisconnReq" -> "Idle"
    [] OTHER                                  -> s

\* Mutant: the loop is an if.
SlidesOnce(buffer, lo, n) ==
  n = IF lo \in SeqsOf(buffer) /\ \A s \in SeqsOf(buffer) : s >= lo THEN 1 ELSE 0

\* The loop that slides the window from lo removes n packets: it looks only
\* at the packet with the smallest sequence number in the buffer.
Slides(buffer, lo, n) ==
  IF \E s \in SeqsOf(buffer) : s < lo
    THEN n = 0
    ELSE /\ \A s \in lo .. lo + n - 1 : s \in SeqsOf(buffer)
         /\ lo + n \notin SeqsOf(buffer)

PacketAt(buffer, s) == CHOOSE p \in buffer : p.seq = s

\* Everything else enters the buffer and is acknowledged, whatever its kind
\* and the state: the flag reply_ack is computed and never read.
Accept(p) ==
  LET sync == recvState = "Idle" /\ p.kind = "ConnReq"
      stop == recvState = "Receiving" /\ p.kind = "DataStop"
      lo == IF sync THEN p.seq ELSE first
      hi == IF sync THEN Plus(p.seq, RecvWindow) ELSE second
      buffer == Insert(recvBuffer, p)
  IN  /\ ~ is_ack(p)
      /\ ~ Below(p)
      /\ ~ Beyond(p)
      /\ recvState' = StateAfter(recvState, p.kind)
      /\ peerKnown' = (peerKnown \/ sync)
      /\ skipped' = skipped \cup (IF sync THEN 0 .. p.seq - 1 ELSE {})
      /\ \E n \in 0 .. SeqSpace :
           /\ Slides(buffer, lo, n)
           /\ first' = Plus(lo, n)
           /\ second' = Plus(hi, n)
           /\ os' = os \o [i \in 1 .. n |-> PacketAt(buffer, lo + i - 1)]
           /\ recvBuffer' = {q \in buffer : q.seq < lo \/ q.seq >= lo + n}
      /\ Reply(peerKnown', p.kind, IF SelectiveRepeat THEN p.seq ELSE first')
      /\ recvPc' = IF p.seq >= first' THEN "loop"
                   ELSE IF stop THEN "yielded"
                   ELSE IF recvState' = "Idle" THEN "ended" ELSE "loop"
      /\ UNCHANGED files

\* One iteration of recv() that got a datagram.
ReceivePacket ==
  /\ recvPc = "loop"
  /\ \E i \in Deliverable(toReceiver) :
       /\ toReceiver' \in Received(toReceiver, i)
       /\ \/ IgnoreAck(toReceiver[i])
          \/ AckDuplicate(toReceiver[i])
          \/ RefuseBeyond(toReceiver[i])
          \/ Accept(toReceiver[i])

\* A fatal socket error ends the coroutine.
ReceiveFatal ==
  /\ "receiver" \in SocketFaults
  /\ recvPc = "loop"
  /\ recvPc' = "ended"
  /\ UNCHANGED <<recvState, first, second, peerKnown, recvBuffer, os, files, skipped>>
  /\ UNCHANGED netVars

\* Mutant: the stream is not emptied.
SaveFileAgain ==
  /\ recvPc = "yielded"
  /\ recvPc' = "loop"
  /\ files' = Append(files, os)
  /\ UNCHANGED <<os, recvState, first, second, peerKnown, recvBuffer, skipped>>
  /\ UNCHANGED netVars

\* The client writes what it was given to a file and resumes the coroutine.
SaveFile ==
  /\ recvPc = "yielded"
  /\ recvPc' = "loop"
  /\ files' = Append(files, os)
  /\ os' = <<>>
  /\ UNCHANGED <<recvState, first, second, peerKnown, recvBuffer, skipped>>
  /\ UNCHANGED netVars

ReceiverNext == ReceivePacket \/ ReceiveFatal \/ SaveFile

-----------------------------------------------------------------------------
\* The receiver has a packet with sequence number s, or was told to start
\* above it.
Has(s) == s \in skipped \/ s \in SeqsOf(Kept)

\* The receiver answers for what a packet acknowledges: in selective repeat
\* its sequence number, in go-back-n everything below it.
Truthful(p) == IF SelectiveRepeat THEN Has(p.seq)
                                  ELSE \A s \in 0 .. p.seq - 1 : Has(s)

(***************************************************************************)
(* "sequence number of ack is the next expected sequence number"           *)
(* (packet.hpp): whatever packets arrive and in whatever order, even from  *)
(* a peer that breaks the protocol, the receiver acknowledges no sequence  *)
(* number under which it has kept no packet. It speaks of numbers: another *)
(* packet with the number of a kept one is acknowledged and dropped.       *)
(***************************************************************************)
AcksTruthful == \A p \in ToSet(toSender) : Truthful(p)
=============================================================================
