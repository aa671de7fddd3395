\* Selective repeat, a file of two chunks; the sender never gets stuck.
SPECIFICATION Spec
CONSTANTS
  SeqSpace = 8
  SelectiveRepeat = TRUE
  NetCapacity = 1
  Reorder = FALSE
  Duplicate = FALSE
  SocketFaults = {}
  RecvWindow = 2
  FastRetransmit = FALSE
  SendWindow = 2
  MaxRetry <- Unlimited
  ZeroDuration = FALSE
  MaxPackets = 5
  Scripts <- OneFile
INVARIANTS Delivered NextIsMissing NoOrphan
PROPERTIES StreamOK
