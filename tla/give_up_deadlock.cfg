\* No retries: the send thread and connect(), send() or disconnect() wait for
\* the mutex the other one holds.
SPECIFICATION FairSpec
CONSTANTS
  SeqSpace = 5
  SelectiveRepeat = FALSE
  NetCapacity = 1
  Reorder = FALSE
  Duplicate = FALSE
  SocketFaults = {}
  RecvWindow = 1
  FastRetransmit = FALSE
  SendWindow = 2
  MaxRetry = 0
  ZeroDuration = FALSE
  MaxPackets = 4
  Scripts <- Handshakes
PROPERTIES GiveUpEnds
CHECK_DEADLOCK FALSE
