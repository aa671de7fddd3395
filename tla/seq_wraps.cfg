\* Four sequence numbers: the window of the receiver wraps around.
SPECIFICATION Spec
CONSTANTS
  SeqSpace = 4
  SelectiveRepeat = FALSE
  NetCapacity = 1
  Reorder = FALSE
  Duplicate = FALSE
  SocketFaults = {}
  RecvWindow = 1
  FastRetransmit = FALSE
  SendWindow = 2
  MaxRetry <- Unlimited
  ZeroDuration = FALSE
  MaxPackets = 6
  Scripts <- LongFile
INVARIANTS ReadyForNext
CHECK_DEADLOCK FALSE
