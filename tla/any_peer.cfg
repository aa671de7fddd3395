\* The receiver alone, selective repeat: it may be sent anything, damaged or
\* again. The peer falls silent after MaxInjected datagrams, so behaviours end.
SPECIFICATION AnyPeerSpec
CONSTANTS
  SeqSpace = 256
  SelectiveRepeat = TRUE
  NetCapacity = 1
  Reorder = FALSE
  Duplicate = TRUE
  SocketFaults = {"receiver"}
  RecvWindow = 2
  PeerPackets <- SomePackets
  Radix = 16
  MaxInjected = 4
INVARIANTS IntactOrRejected AcksTruthful AckedPacketsKept
CHECK_DEADLOCK FALSE
