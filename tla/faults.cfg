\* Everything at once, on the handshakes: go-back-n with one retry, datagrams
\* that are lost, repeated and reordered, fast retransmission, socket errors of
\* the sender, a user who goes on after a failure. The sender may hang (run
\* give_up_deadlock) and MaxPackets ends a behaviour, so the deadlock check is
\* off.
SPECIFICATION Spec
CONSTANTS
  SeqSpace = 7
  SelectiveRepeat = FALSE
  NetCapacity = 2
  Reorder = TRUE
  Duplicate = TRUE
  SocketFaults = {"sender"}
  RecvWindow = 1
  FastRetransmit = TRUE
  SendWindow = 2
  MaxRetry = 1
  ZeroDuration = FALSE
  MaxPackets = 2
  Scripts <- Retries
INVARIANTS AckInv NoFalseAck NoOrphan DuplicateIsKnown
PROPERTIES NeverBack
CHECK_DEADLOCK FALSE
