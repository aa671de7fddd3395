--------------------------- MODULE ReliableStream ---------------------------
(***************************************************************************)
(* What a session of file_sender and file_receiver promises to its users:  *)
(* what one program sends the other one gets, in order, nothing lost and   *)
(* nothing twice, cut into the files that were sent. No windows, threads,  *)
(* retransmissions or losses.                                              *)
(***************************************************************************)
EXTENDS Naturals, SequencesExt

CONSTANT EndsFile(_)    \* is the item the end of a file?

VARIABLES
  queue,      \* the items sent and not received yet
  arrived,    \* the items received of the file that is being sent
  delivered   \* the files that the receiver's client was given

StreamInit == queue = <<>> /\ arrived = <<>> /\ delivered = <<>>

\* Some item is sent: the chunk of a file, its end, a request.
Put ==
  /\ queue' # <<>>
  /\ Front(queue') = queue
  /\ UNCHANGED <<arrived, delivered>>

\* The oldest items are received, and with an end the file; what follows an
\* end is received later.
Get ==
  \E n \in 1 .. Len(queue) :
    /\ \A i \in 1 .. n - 1 : ~ EndsFile(queue[i])
    /\ queue' = SubSeq(queue, n + 1, Len(queue))
    /\ LET all == arrived \o SubSeq(queue, 1, n)
       IN  IF EndsFile(queue[n])
             THEN arrived' = <<>> /\ delivered' = Append(delivered, all)
             ELSE arrived' = all /\ UNCHANGED delivered

StreamSpec == StreamInit /\ [][Put \/ Get]_<<queue, arrived, delivered>>
=============================================================================
