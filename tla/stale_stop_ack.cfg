\* Selective repeat, two files: the DataStopAck of the first is taken for the
\* one of the second.
SPECIFICATION Spec
CONSTANTS
  SeqSpace = 8
  SelectiveRepeat = TRUE
  NetCapacity = 1
  Reorder = FALSE
  Duplicate = FALSE
  SocketFaults = {}
  RecvWindow = 2
  FastRetransmit = FALSE
  SendWindow = 2
  MaxRetry <- Unlimited
  ZeroDuration = FALSE
  MaxPackets = 5
  Scripts <- NoFiles
INVARIANTS Delivered
CHECK_DEADLOCK FALSE
