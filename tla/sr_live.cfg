\* Selective repeat under fairness: every command returns, or the process dies
\* after a data phase below a millisecond. With 5 sequence numbers the upper
\* bound of the receiver's window wraps around.
SPECIFICATION FairSpec
CONSTANTS
  SeqSpace = 5
  SelectiveRepeat = TRUE
  NetCapacity = 1
  Reorder = FALSE
  Duplicate = FALSE
  SocketFaults = {}
  RecvWindow = 2
  FastRetransmit = FALSE
  SendWindow = 2
  MaxRetry <- Unlimited
  ZeroDuration = TRUE
  MaxPackets = 3
  Scripts <- NoFile
INVARIANTS TypeOK
PROPERTIES  CleansUp
