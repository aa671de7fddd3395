------------------------------ MODULE MCRestart -----------------------------
(* What the user types in each life of the sender.                         *)
EXTENDS Restart

OneChunk == {<<[op |-> "connect", chunks |-> 0], [op |-> "send", chunks |-> 1],
               [op |-> "exit", chunks |-> 0]>>}
=============================================================================
