------------------------------- MODULE Restart ------------------------------
(***************************************************************************)
(* A user who starts file_sender again after it has exited or died, while  *)
(* file_receiver goes on: a new process with a new Sender, which numbers   *)
(* its packets from 0, at the old address.                                 *)
(***************************************************************************)
EXTENDS FileTransfer

CONSTANT MaxRestarts    \* bound

VARIABLE restarts

RestartInit == Init /\ restarts = 0

\* main() up to the command loop. What the old socket had received is lost
\* with it; what is still on its way reaches the new one.
StartAgain ==
  /\ mainPc \in {"exited", "crashed"}
  /\ restarts < MaxRestarts
  /\ restarts' = restarts + 1
  /\ toSender' \in {toSender, <<>>}
  /\ state' = "Idle"
  /\ lower' = 0 /\ upper' = 0
  /\ timer' = {} /\ timedOut' = {}
  /\ pending' = {} /\ pool' = {} /\ acked' = {}
  /\ retry' = [s \in SequenceNumber |-> NoEntry]
  /\ dupTimes' = 0
  /\ running' = TRUE
  /\ mainPc' = "prompt"
  /\ kind' = "ConnReq"
  /\ script' \in Scripts
  /\ sendPc' = "wait" /\ sendSeq' = NoSeq
  /\ ackPc' = "wait" /\ ackPacket' = NoPacket
  /\ timeoutPc' = "wait"
  /\ log' = <<>>
  /\ givenUp' = {}
  /\ UNCHANGED <<fileVars, toReceiver, receiverVars>>

RestartNext == StartAgain \/ (Next /\ UNCHANGED restarts)

RestartSpec == RestartInit /\ [][RestartNext]_<<vars, restarts>>
=============================================================================
