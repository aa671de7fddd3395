------------------------------- MODULE Network ------------------------------
(***************************************************************************)
(* The datagram path between the sender's socket and the receiver's: UDP   *)
(* sockets with the router of router.py in between. One sequence of        *)
(* packets per direction holds the datagrams that are still under way.     *)
(*                                                                         *)
(* The router reads, delays and forwards one datagram at a time, so it     *)
(* loses datagrams but keeps their order. Reorder and Duplicate add what   *)
(* UDP itself permits on a path with more than the router on it.           *)
(***************************************************************************)
EXTENDS Packet, SequencesExt

CONSTANTS
  NetCapacity,  \* datagrams one direction holds; more are dropped
  Reorder,      \* may datagrams overtake each other?
  Duplicate,    \* may a datagram be delivered again?
  SocketFaults  \* the ends whose recvfrom may fail with a fatal error

ASSUME NetworkAssumption == /\ NetCapacity \in Nat \ {0}
                            /\ Reorder \in BOOLEAN
                            /\ Duplicate \in BOOLEAN
                            /\ SocketFaults \subseteq {"sender", "receiver"}

VARIABLES
  toReceiver,   \* datagrams under way from the sender to the receiver
  toSender      \* datagrams under way from the receiver to the sender

netVars == <<toReceiver, toSender>>

\* What may become of a direction when p is sent on it: the router draws
\* whether p is lost, and a full socket buffer drops it.
Sent(channel, p) ==
  {channel} \cup
  (IF Len(channel) < NetCapacity THEN {Append(channel, p)} ELSE {})

\* The datagrams of a direction that recvfrom may return next.
Deliverable(channel) ==
  {i \in DOMAIN channel : Reorder \/ i = 1}

\* What is left of a direction after its i-th datagram was received.
Received(channel, i) ==
  {RemoveAt(channel, i)} \cup (IF Duplicate THEN {channel} ELSE {})
=============================================================================
