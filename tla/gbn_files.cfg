\* Go-back-n with fast retransmission: a file of two chunks, or two files. With
\* 6 sequence numbers the upper bound of the receiver's window wraps around.
\* The sender may hang for ever (run gbn_push_hangs), so the deadlock check
\* is off.
SPECIFICATION Spec
CONSTANTS
  SeqSpace = 6
  SelectiveRepeat = FALSE
  NetCapacity = 1
  Reorder = FALSE
  Duplicate = FALSE
  SocketFaults = {}
  RecvWindow = 1
  FastRetransmit = TRUE
  SendWindow = 2
  MaxRetry <- Unlimited
  ZeroDuration = FALSE
  MaxPackets = 5
  Scripts <- Files
INVARIANTS WindowOK InStep NoOrphan TimerHasPacket
PROPERTIES StreamOK
CHECK_DEADLOCK FALSE
