------------------------------- MODULE Sender -------------------------------
(***************************************************************************)
(* The sender of nkurdt (sender.hpp, sender.cpp) with the queue, window    *)
(* and timer it shares between its threads (concurrency.hpp), and the      *)
(* command loop of app/file_transfer/sender.cpp that drives it. The timer  *)
(* is the abstract one, which the module ConcurrentTimer implements.       *)
(*                                                                         *)
(* Threads: the caller of connect, send, disconnect and stop ("main"), the *)
(* send, receive and timeout threads of the sender and the timer's thread. *)
(* A step ends where a thread gives up its locks or waits for one. Two     *)
(* mutexes are held across steps, and a program counter says by whom:      *)
(*   state_mutex_        by main while it hands out a control packet;      *)
(*   packet_pool_mutex_ and acked_seq_set_mutex_  by the send thread while *)
(*                       it waits for state_mutex_ to give up a packet.    *)
(***************************************************************************)
EXTENDS Network, Timer

CONSTANTS
  FastRetransmit,   \* fast_retransmit_
  SendWindow,       \* max_window_size_ of the sender
  MaxRetry,         \* max_retry_count_, or Unlimited
  ZeroDuration,     \* may the data phase of send() last less than 1 ms?
  Scripts,          \* sequences of commands the user may type
  MaxPackets        \* bound: packets a behaviour may create

\* The default of --max-retry-count is size_t(-1), which is never reached.
Unlimited == -1

Commands == [op : {"connect", "send", "disconnect", "exit"}, chunks : Nat]

ASSUME SenderAssumption ==
  /\ FastRetransmit \in BOOLEAN
  /\ SendWindow \in Nat \ {0}
  /\ MaxRetry \in Nat \cup {Unlimited}
  /\ ZeroDuration \in BOOLEAN
  /\ MaxPackets \in Nat
  /\ Scripts \subseteq Seq(Commands)

VARIABLES
  state,      \* state_
  lower,      \* window_.window_.first
  upper,      \* window_.window_.second
  pending,    \* pending_queue_: a std::set, popped at its smallest element
  pool,       \* packet_pool_
  retry,      \* retry_count_; NoEntry for a key that is absent
  acked,      \* acked_seq_set_
  dupTimes,   \* ack_dup_times
  running,    \* running_
  mainPc,     \* where the main thread is
  kind,       \* kind of the packet that main is sending
  script,     \* commands the user has still to type
  file,       \* number of send() calls made so far
  chunk,      \* chunks of the current file handed to send_packet
  chunks,     \* chunks of the current file
  sendPc,     \* where the send thread is
  sendSeq,    \* the sequence number it popped, NoSeq between iterations
  ackPc,      \* where the receive thread is
  ackPacket,  \* the packet it received, NoPacket between iterations
  timeoutPc,  \* where the timeout thread is
  log,        \* history: all packets created, in order
  givenUp,    \* history: sequence numbers given up after their last retry
  okSends     \* history: number of send() calls that returned success

senderVars ==
  <<state, lower, upper, pending, timer, timedOut, pool, retry, acked, dupTimes,
    running, mainPc, kind, script, file, chunk, chunks, sendPc, sendSeq, ackPc,
    ackPacket, timeoutPc, log, givenUp, okSends>>

packetVars == <<upper, log, pool, pending>>
fileVars == <<file, chunk, chunks, okSends>>
mainVars == <<mainPc, kind, script, fileVars, upper, log>>
sendVars == <<sendPc, sendSeq, retry, givenUp>>
ackVars == <<ackPc, ackPacket, acked, dupTimes>>

NoEntry == -1
NoSeq == -1
NoPacket == Packet("ConnAck", 0, NoPayload)

SenderStates == {"Idle", "Connecting", "Connected", "Pushing", "Sending",
                 "Stopping", "Disconnecting"}

SenderTypeOK ==
  /\ state \in SenderStates
  /\ lower \in SequenceNumber
  /\ upper \in SequenceNumber
  /\ pending \in SUBSET SequenceNumber
  /\ timer \in SUBSET SequenceNumber
  /\ timedOut \in SUBSET SequenceNumber
  /\ pool \in SUBSET Packets
  /\ retry \in [SequenceNumber -> Nat \cup {NoEntry}]
  /\ acked \in SUBSET SequenceNumber
  /\ dupTimes \in Nat
  /\ running \in BOOLEAN
  /\ mainPc \in {"prompt", "window", "number", "pool", "wait", "data", "drain",
                 "stop", "join", "exited", "crashed"}
  /\ kind \in RequestKinds
  /\ script \in Seq(Commands)
  /\ file \in Nat
  /\ chunk \in Nat
  /\ chunks \in Nat
  /\ sendPc \in {"wait", "popped", "exhausted", "exited"}
  /\ sendSeq \in SequenceNumber \cup {NoSeq}
  /\ ackPc \in {"wait", "state", "ack", "exited"}
  /\ ackPacket \in Packets
  /\ timeoutPc \in {"wait", "exited"}
  /\ log \in Seq(Packets)
  /\ givenUp \in SUBSET SequenceNumber
  /\ okSends \in Nat

\* The constructor and init(), which starts the threads.
SenderInit ==
  /\ state = "Idle"
  /\ lower = 0 /\ upper = 0
  /\ TimerInit
  /\ pending = {} /\ pool = {} /\ acked = {}
  /\ retry = [s \in SequenceNumber |-> NoEntry]
  /\ dupTimes = 0
  /\ running = TRUE
  /\ mainPc = "prompt"
  /\ kind = "ConnReq"
  /\ script \in Scripts
  /\ file = 0 /\ chunk = 0 /\ chunks = 0
  /\ sendPc = "wait" /\ sendSeq = NoSeq
  /\ ackPc = "wait" /\ ackPacket = NoPacket
  /\ timeoutPc = "wait"
  /\ log = <<>>
  /\ givenUp = {}
  /\ okSends = 0

Alive == mainPc \notin {"crashed", "exited"}

\* Main holds state_mutex_: send_packet is called with the lock held for
\* every packet but Data.
StateLocked == mainPc \in {"window", "number", "pool"} /\ kind # "Data"

\* The send thread holds packet_pool_mutex_ and acked_seq_set_mutex_.
PoolLocked == sendPc = "exhausted"

\* Where a thread goes when an iteration of its `while (running_)` is over.
LoopOrExit(run) == IF run THEN "wait" ELSE "exited"

-----------------------------------------------------------------------------
(* The main thread.                                                        *)

\* The command loop reads the next command.
Typed(op) ==
  /\ mainPc = "prompt"
  /\ script # <<>>
  /\ Head(script).op = op
  /\ script' = Tail(script)

\* Lock state_mutex_, set the state and call send_packet(k).
StartControl(s, k) ==
  /\ state' = s
  /\ kind' = k
  /\ mainPc' = "window"

connect ==
  /\ Typed("connect")
  /\ StartControl("Connecting", "ConnReq")
  /\ UNCHANGED <<packetVars, fileVars, running>>

send ==
  /\ Typed("send")
  /\ StartControl("Pushing", "DataPush")
  /\ file' = file + 1
  /\ chunk' = 0
  /\ chunks' = Head(script).chunks
  /\ UNCHANGED <<packetVars, running, okSends>>

disconnect ==
  /\ Typed("disconnect")
  /\ IF state = "Idle"
       THEN UNCHANGED <<state, kind, mainPc>>
       ELSE StartControl("Disconnecting", "DisconnReq")
  /\ UNCHANGED <<packetVars, fileVars, running>>

\* exit: stop() clears running_, stops the timer and joins the threads.
stop ==
  /\ Typed("exit")
  /\ running' = FALSE
  /\ mainPc' = "stop"
  /\ UNCHANGED <<state, kind, packetVars, fileVars>>

StopTimer ==
  /\ mainPc = "stop"
  /\ mainPc' = "join"
  /\ UNCHANGED <<state, kind, script, packetVars, fileVars, running>>

join ==
  /\ mainPc = "join"
  /\ sendPc = "exited" /\ ackPc = "exited" /\ timeoutPc = "exited"
  /\ mainPc' = "exited"
  /\ UNCHANGED <<state, kind, script, packetVars, fileVars, running>>

\* Mutant: off by one.
WindowAvailableAtLimit == Minus(upper, lower) <= SendWindow

WindowAvailable == Minus(upper, lower) < SendWindow

NewPacket ==
  Packet(kind, upper, IF kind = "Data" THEN <<file, chunk>> ELSE NoPayload)

\* send_packet, first part: wait_window_available returns true. The window's
\* mutex is free again before main goes on.
FindRoom ==
  /\ mainPc = "window"
  /\ WindowAvailable
  /\ mainPc' = "number"
  /\ UNCHANGED <<state, kind, script, packetVars, fileVars, running>>

\* send_packet, second part: main takes the sequence number and makes the
\* packet. upper_bound() and update_upper_bound() lock the window separately,
\* but only main writes the upper bound: what the others see in between is
\* what they see before. MaxPackets bounds the model.
TakeSequenceNumber ==
  /\ mainPc = "number"
  /\ Len(log) < MaxPackets
  /\ upper' = Plus(upper, 1)
  /\ log' = Append(log, NewPacket)
  /\ mainPc' = "pool"
  /\ UNCHANGED <<state, kind, script, pool, pending, fileVars, running>>

\* send_packet returns without a packet when the sender stopped running.
GiveUpWindow ==
  /\ mainPc = "window"
  /\ ~ WindowAvailable
  /\ ~ running
  /\ mainPc' = IF kind = "Data" THEN "data" ELSE "wait"
  /\ UNCHANGED <<state, kind, script, packetVars, fileVars, running>>

\* send_packet, third part: under packet_pool_mutex_ the packet enters the
\* pool and the pending queue. The caller then waits or makes the next chunk.
Enqueue ==
  /\ mainPc = "pool"
  /\ ~ PoolLocked
  /\ pool' = Insert(pool, log[Len(log)])
  /\ pending' = pending \cup {log[Len(log)].seq}
  /\ mainPc' = IF kind = "Data" THEN "data" ELSE "wait"
  /\ UNCHANGED <<state, kind, script, upper, log, fileVars, running>>

\* state_cvar_.wait returns: connect, disconnect and both ends of send.
WaitState ==
  /\ mainPc = "wait"
  /\ \/ /\ kind = "ConnReq"
        /\ state \in {"Connected", "Idle"}
        /\ mainPc' = "prompt"
        /\ UNCHANGED okSends
     \/ /\ kind = "DataPush"
        /\ state \in {"Sending", "Connected"}
        /\ mainPc' = IF state = "Sending" THEN "data" ELSE "prompt"
        /\ UNCHANGED okSends
     \/ /\ kind = "DataStop"
        /\ state = "Connected"
        /\ mainPc' = "prompt"
        /\ okSends' = okSends + 1
     \/ /\ kind = "DisconnReq"
        /\ state = "Idle"
        /\ mainPc' = "prompt"
        /\ UNCHANGED okSends
  /\ UNCHANGED <<state, kind, script, packetVars, file, chunk, chunks, running>>

\* The loop of send() over the file: the next chunk, or none is left.
NextChunk ==
  /\ mainPc = "data"
  /\ IF chunk < chunks
       THEN /\ chunk' = chunk + 1
            /\ kind' = "Data"
            /\ mainPc' = "window"
       ELSE /\ mainPc' = "drain"
            /\ UNCHANGED <<chunk, kind>>
  /\ UNCHANGED <<state, script, packetVars, file, chunks, okSends, running>>

\* Mutant: send() does not wait for the last acknowledgements.
WindowZeroAlways == TRUE

\* wait_window_zero.
WindowZero == upper = lower

\* send() waits until every packet is acknowledged, divides the byte count
\* by the elapsed milliseconds and goes on to Stopping.
Drain ==
  /\ mainPc = "drain"
  /\ \/ /\ WindowZero
        /\ StartControl("Stopping", "DataStop")
     \/ /\ WindowZero
        /\ ZeroDuration
        /\ mainPc' = "crashed"
        /\ UNCHANGED <<state, kind>>
     \/ /\ ~ WindowZero
        /\ ~ running
        /\ mainPc' = "prompt"
        /\ UNCHANGED <<state, kind>>
  /\ UNCHANGED <<script, packetVars, fileVars, running>>

MainNext ==
  /\ \/ connect \/ send \/ disconnect \/ stop \/ StopTimer \/ join
     \/ FindRoom \/ TakeSequenceNumber \/ GiveUpWindow \/ Enqueue
     \/ WaitState \/ NextChunk \/ Drain
  /\ UNCHANGED <<lower, timerVars, sendVars, ackVars, timeoutPc, netVars>>

-----------------------------------------------------------------------------
(* The send thread: send_handler.                                          *)

\* pending_queue_.wait_pop.
Pop ==
  /\ sendPc = "wait"
  /\ \E s \in pending :
       /\ \A t \in pending : s <= t
       /\ sendSeq' = s
       /\ pending' = pending \ {s}
  /\ sendPc' = "popped"
  /\ UNCHANGED <<state, running, timerVars, pool, retry, toReceiver, givenUp>>

\* wait_pop times out and running_ is false.
SendExit ==
  /\ sendPc = "wait"
  /\ ~ running
  /\ sendPc' = "exited"
  /\ UNCHANGED <<state, running, timerVars, pool, pending, retry, sendSeq, toReceiver, givenUp>>

\* Mutant: off by one.
SettledAtLower == (SelectiveRepeat /\ sendSeq \in acked) \/ sendSeq <= lower

\* Mutant: without the cleaning up of what the window has passed.
SettledIfMarked == SelectiveRepeat /\ sendSeq \in acked

\* Is the popped packet known to be acknowledged?
Settled == (SelectiveRepeat /\ sendSeq \in acked) \/ sendSeq < lower

\* An acknowledged packet is forgotten.
CleanUp ==
  /\ sendPc = "popped"
  /\ Settled
  /\ retry' = [retry EXCEPT ![sendSeq] = NoEntry]
  /\ pool' = {p \in pool : p.seq # sendSeq}
  /\ remove_event(sendSeq)
  /\ sendPc' = LoopOrExit(running)
  /\ sendSeq' = NoSeq
  /\ UNCHANGED <<state, running, pending, toReceiver, givenUp>>

\* The window is empty: the sequence number is dropped.
SkipEmptyWindow ==
  /\ sendPc = "popped"
  /\ ~ Settled
  /\ lower = upper
  /\ sendPc' = LoopOrExit(running)
  /\ sendSeq' = NoSeq
  /\ UNCHANGED <<state, running, timerVars, pool, pending, retry, toReceiver, givenUp>>

RetriesExhausted == /\ MaxRetry # Unlimited
                    /\ retry[sendSeq] # NoEntry
                    /\ retry[sendSeq] >= MaxRetry

\* The retry count goes up, from no entry to 0; without a limit nothing
\* depends on it and it is not kept.
Retried(n) == IF MaxRetry = Unlimited THEN n ELSE n + 1

\* The packet is (re)transmitted and its timer starts; a sequence number
\* whose packet is not in the pool (yet) only counts as a retry.
Transmit ==
  /\ sendPc = "popped"
  /\ ~ Settled
  /\ lower # upper
  /\ ~ RetriesExhausted
  /\ retry' = [retry EXCEPT ![sendSeq] = Retried(@)]
  /\ IF sendSeq \in SeqsOf(pool)
       THEN /\ toReceiver' \in Sent(toReceiver, CHOOSE p \in pool : p.seq = sendSeq)
            /\ register_event(sendSeq)
       ELSE /\ remove_event(sendSeq)
            /\ UNCHANGED toReceiver
  /\ sendPc' = LoopOrExit(running)
  /\ sendSeq' = NoSeq
  /\ UNCHANGED <<state, running, pool, pending, givenUp>>

\* The maximum retry count is reached: the thread waits for state_mutex_.
Exhaust ==
  /\ sendPc = "popped"
  /\ ~ Settled
  /\ lower # upper
  /\ RetriesExhausted
  /\ sendPc' = "exhausted"
  /\ UNCHANGED <<state, running, timerVars, pool, pending, retry, sendSeq, toReceiver, givenUp>>

\* It has state_mutex_ and gives the packet up according to the state.
GiveUpPacket ==
  /\ sendPc = "exhausted"
  /\ ~ StateLocked
  /\ \/ /\ state \in {"Stopping", "Pushing"}
        /\ state' = "Connected"
        /\ UNCHANGED running
     \/ /\ state \in {"Connecting", "Disconnecting"}
        /\ state' = "Idle"
        /\ UNCHANGED running
     \/ /\ state \in {"Idle", "Connected", "Sending"}
        /\ running' = FALSE
        /\ UNCHANGED state
  /\ givenUp' = givenUp \cup {sendSeq}
  /\ sendPc' = LoopOrExit(running')
  /\ sendSeq' = NoSeq
  /\ UNCHANGED <<timerVars, pool, pending, retry, toReceiver>>

SendNext ==
  /\ Alive
  /\ \/ Pop \/ SendExit \/ CleanUp \/ SkipEmptyWindow \/ Transmit
     \/ Exhaust \/ GiveUpPacket
  /\ UNCHANGED <<lower, mainVars, ackVars, timeoutPc, toSender>>

-----------------------------------------------------------------------------
(* The receive thread: recv_handler.                                       *)

\* Mutant: the kind of the acknowledgement is not compared in Pushing.
AwaitedAnyKind(s, k) == \/ s = "Connecting" /\ k = "ConnAck"
                        \/ s = "Pushing" /\ k \in {"ConnAck", "DataPushAck"}
                        \/ s = "Stopping" /\ k = "DataStopAck"
                        \/ s = "Disconnecting" /\ k = "DisconnAck"

\* The acknowledgement a state waits for, and the state it leads to.
Awaited(s, k) == \/ s = "Connecting" /\ k = "ConnAck"
                 \/ s = "Pushing" /\ k = "DataPushAck"
                 \/ s = "Stopping" /\ k = "DataStopAck"
                 \/ s = "Disconnecting" /\ k = "DisconnAck"

StateAcked(k) == CASE k = "ConnAck"     -> "Connected"
                   [] k = "DataPushAck" -> "Sending"
                   [] k = "DataStopAck" -> "Connected"
                   [] k = "DisconnAck"  -> "Idle"

\* A datagram arrives; state_ is read without its mutex.
ReceiveAck ==
  /\ ackPc = "wait"
  /\ \E i \in Deliverable(toSender) :
       /\ toSender' \in Received(toSender, i)
       /\ ackPacket' = toSender[i]
  /\ ackPc' = IF Awaited(state, ackPacket'.kind) THEN "state" ELSE "ack"
  /\ UNCHANGED <<state, running, lower, pending, acked, dupTimes, mainVars>>

\* The state that was awaited is set, under state_mutex_.
SetState ==
  /\ ackPc = "state"
  /\ ~ StateLocked
  /\ state' = StateAcked(ackPacket.kind)
  /\ ackPc' = "ack"
  /\ UNCHANGED <<running, lower, pending, ackPacket, acked, dupTimes, mainVars, toSender>>

\* Go-back-n: the acknowledgement repeats the lower bound. The third in a
\* row (and one in every few after it) resends the window.
RepeatedAck ==
  /\ lower = ackPacket.seq
  /\ pending' = IF dupTimes = 2 /\ FastRetransmit
                  THEN pending \cup {s \in SequenceNumber : lower <= s /\ s < upper}
                  ELSE pending
  /\ dupTimes' = IF dupTimes \notin {0, 2} /\ dupTimes >= SendWindow
                   THEN 1 ELSE dupTimes + 1
  /\ acked' = acked \ {ackPacket.seq}
  /\ UNCHANGED lower

\* Mutant: the acknowledgement is taken for the last packet received.
CumulativeAckPast ==
  /\ lower < ackPacket.seq
  /\ lower' = Plus(ackPacket.seq, 1)
  /\ dupTimes' = 0
  /\ acked' = acked \ {ackPacket.seq}
  /\ UNCHANGED pending

\* Mutant: an old acknowledgement moves the lower bound back.
CumulativeAckBack ==
  /\ lower # ackPacket.seq
  /\ lower' = ackPacket.seq
  /\ dupTimes' = 0
  /\ acked' = acked \ {ackPacket.seq}
  /\ UNCHANGED pending

\* Go-back-n: a cumulative acknowledgement moves the lower bound.
CumulativeAck ==
  /\ lower < ackPacket.seq
  /\ lower' = ackPacket.seq
  /\ dupTimes' = 0
  /\ acked' = acked \ {ackPacket.seq}
  /\ UNCHANGED pending

OldAck ==
  /\ lower > ackPacket.seq
  /\ acked' = acked \ {ackPacket.seq}
  /\ UNCHANGED <<lower, dupTimes, pending>>

\* Selective repeat: the window slides over everything acknowledged.
SelectiveAck ==
  LET all == acked \cup {ackPacket.seq}
  IN  \E n \in 0 .. SeqSpace - 1 :
        /\ \A i \in 0 .. n - 1 : Plus(lower, i) \in all
        /\ Plus(lower, n) \notin all
        /\ lower' = Plus(lower, n)
        /\ acked' = all \ {Plus(lower, i) : i \in 0 .. n - 1}
        /\ UNCHANGED <<dupTimes, pending>>

\* The window is updated under acked_seq_set_mutex_.
HandleAck ==
  /\ ackPc = "ack"
  /\ ~ PoolLocked
  /\ \/ ~ SelectiveRepeat /\ (RepeatedAck \/ CumulativeAck \/ OldAck)
     \/ SelectiveRepeat /\ SelectiveAck
  /\ ackPc' = LoopOrExit(running)
  /\ ackPacket' = NoPacket
  /\ UNCHANGED <<state, running, mainVars, toSender>>

\* recv() times out and running_ is false.
AckExit ==
  /\ ackPc = "wait"
  /\ ~ running
  /\ ackPc' = "exited"
  /\ UNCHANGED <<state, running, lower, pending, ackPacket, acked, dupTimes, mainVars, toSender>>

\* A fatal socket error clears running_ and falls through to parsing an
\* empty vector, which reads out of bounds: the process dies.
AckFatal ==
  /\ "sender" \in SocketFaults
  /\ ackPc = "wait"
  /\ running' = FALSE
  /\ mainPc' = "crashed"
  /\ UNCHANGED <<state, lower, pending, ackVars, kind, script, fileVars, upper, log, toSender>>

AckNext ==
  /\ Alive
  /\ ReceiveAck \/ SetState \/ HandleAck \/ AckExit \/ AckFatal
  /\ UNCHANGED <<timerVars, pool, sendVars, timeoutPc, toReceiver>>

-----------------------------------------------------------------------------
(* The timer's thread and the timeout thread: timeout_handler.             *)

\* Registered events time out, unless stop() has ended the timer's thread.
Expire ==
  /\ mainPc # "join"
  /\ \E due \in SUBSET timer : time_out(due)
  /\ UNCHANGED <<pending, timeoutPc>>

\* Mutant: off by one in a check of the window.
RependAboveLower ==
  /\ timeoutPc = "wait"
  /\ timedOut # {}
  /\ pending' = pending \cup {s \in timedOut : s > lower}
  /\ map_timed_out_events
  /\ timeoutPc' = LoopOrExit(running)

\* All timed-out packets become pending again.
Repend ==
  /\ timeoutPc = "wait"
  /\ timedOut # {}
  /\ pending' = pending \cup timedOut
  /\ map_timed_out_events
  /\ timeoutPc' = LoopOrExit(running)

TimeoutExit ==
  /\ timeoutPc = "wait"
  /\ ~ running
  /\ timeoutPc' = "exited"
  /\ UNCHANGED <<pending, timerVars>>

TimeoutFrame ==
  /\ Alive
  /\ UNCHANGED <<state, running, lower, pool, sendVars, ackVars, mainVars, netVars>>

TimerNext == Expire /\ TimeoutFrame

TimeoutNext == (Repend \/ TimeoutExit) /\ TimeoutFrame

SenderNext == MainNext \/ SendNext \/ AckNext \/ TimerNext \/ TimeoutNext

-----------------------------------------------------------------------------
(***************************************************************************)
(* A registered timer event has a packet to send again: packet_pool_ and   *)
(* the timer are two structures with two locks, kept in step by the send   *)
(* thread alone (send_handler), also when sequence numbers wrap around.    *)
(***************************************************************************)
TimerHasPacket == timer \subseteq SeqsOf(pool)
=============================================================================
