\* Go-back-n under fairness: send() may wait for a DataPushAck for ever.
SPECIFICATION FairSpec
CONSTANTS
  SeqSpace = 5
  SelectiveRepeat = FALSE
  NetCapacity = 1
  Reorder = FALSE
  Duplicate = FALSE
  SocketFaults = {}
  RecvWindow = 1
  FastRetransmit = FALSE
  SendWindow = 2
  MaxRetry <- Unlimited
  ZeroDuration = FALSE
  MaxPackets = 4
  Scripts <- Handshakes
PROPERTIES PushReturns
CHECK_DEADLOCK FALSE
