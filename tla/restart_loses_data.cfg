\* Selective repeat: the sender is started a second time.
SPECIFICATION RestartSpec
CONSTANTS
  SeqSpace = 6
  SelectiveRepeat = TRUE
  NetCapacity = 1
  Reorder = FALSE
  Duplicate = FALSE
  SocketFaults = {}
  RecvWindow = 2
  FastRetransmit = FALSE
  SendWindow = 2
  MaxRetry <- Unlimited
  ZeroDuration = TRUE
  MaxPackets = 4
  Scripts <- OneChunk
  MaxRestarts = 1
INVARIANTS DuplicateIsKnown
CHECK_DEADLOCK FALSE
