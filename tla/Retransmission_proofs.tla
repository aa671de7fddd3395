----------------------- MODULE Retransmission_proofs ------------------------
(***************************************************************************)
(* No packet is forgotten: the proof of NoOrphan for all values of the     *)
(* constants, as long as sequence numbers do not wrap around. And the      *)
(* mutual wait that giving up a packet may end in lasts for ever.          *)
(***************************************************************************)
EXTENDS FileTransfer_proofs

\* The packet of an unacknowledged sequence number is in packet_pool_, or main
\* is about to put it there.
InPool(s) == s \in SeqsOf(pool) \/ (mainPc = "pool" /\ s = upper - 1)

(***************************************************************************)
(* Why NoOrphan holds: the send thread can drop a sequence number that it  *)
(* popped, because it finds no packet for it, only while main has still    *)
(* the packet in its hands.                                                *)
(***************************************************************************)
OrphanInv ==
  /\ NoOrphan
  /\ Alive => \A s \in lower .. upper - 1 : s \in acked \/ InPool(s)
  /\ ~ SelectiveRepeat => acked = {}

\* No packet exists at the start.
LEMMA OrphanInit == Init => OrphanInv
BY DEF Init, SenderInit, TimerInit, OrphanInv, NoOrphan

\* The main thread.
LEMMA OrphanMain ==
  ASSUME NoWrap, TypeInv, AckInv, OrphanInv, MainNext, UNCHANGED receiverVars
  PROVE  OrphanInv'
<1> USE DEF TypeInv, TypeOK, SenderTypeOK
<1>1. UNCHANGED <<lower, timer, timedOut, sendPc, sendSeq, givenUp, acked>>
  BY DEF MainNext, timerVars, sendVars, ackVars
<1>2. ~ SelectiveRepeat => acked' = {}
  BY <1>1 DEF OrphanInv
<1>3. lower \in Int /\ upper \in Int /\ upper = Len(log)
  BY PacketAssumption DEF SequenceNumber, AckInv, WindowOK
<1>4. ASSUME UNCHANGED <<upper, pool, pending>>, mainPc # "pool",
             Alive' => Alive, running' => running
      PROVE  OrphanInv'
  BY <1>1, <1>2, <1>3, <1>4 DEF OrphanInv, NoOrphan, InHand, InPool
<1>5. CASE connect \/ send \/ disconnect \/ stop \/ StopTimer \/ join \/ FindRoom
             \/ GiveUpWindow \/ WaitState \/ NextChunk \/ Drain
  <2>1. UNCHANGED <<upper, pool, pending>>
    BY <1>5 DEF connect, send, disconnect, stop, StopTimer, join, FindRoom,
                GiveUpWindow, WaitState, NextChunk, Drain, packetVars
  <2>2. mainPc \notin {"pool", "crashed", "exited"} /\ (running' => running)
    BY <1>5 DEF connect, send, disconnect, stop, StopTimer, join, FindRoom,
                GiveUpWindow, WaitState, NextChunk, Drain, Typed
  <2> QED BY <1>4, <2>1, <2>2 DEF Alive
<1>6. CASE TakeSequenceNumber
  <2>1. upper' = upper + 1
    <3>1. upper + 1 < SeqSpace
      BY <1>3, <1>6, PacketAssumption, SenderAssumption DEF TakeSequenceNumber, NoWrap
    <3> QED BY <1>3, <1>6, <3>1 DEF TakeSequenceNumber, Plus
  <2>2. /\ UNCHANGED <<pool, pending, running>>
        /\ mainPc = "number" /\ mainPc' = "pool" /\ Alive
    BY <1>6 DEF TakeSequenceNumber, Alive
  <2>3. \A s \in lower .. upper' - 1 : s = upper' - 1 \/ s \in lower .. upper - 1
    BY <1>3, <2>1
  <2> QED BY <1>1, <1>2, <2>2, <2>3 DEF OrphanInv, NoOrphan, InHand, InPool
<1>7. CASE Enqueue
  <2> DEFINE p == log[Len(log)]
  <2>1. p.seq = upper - 1 /\ p \in Packets
    <3>1. Len(log) \in DOMAIN log /\ p \in Packets
      BY <1>7, LastType, LenProperties DEF Enqueue
    <3> QED BY <1>3, <3>1 DEF AckInv, Numbered
  <2>2. pool' = Insert(pool, p) /\ pending' = pending \cup {p.seq}
    BY <1>7 DEF Enqueue
  <2> HIDE DEF p
  <2>3. SeqsOf(pool') = SeqsOf(pool) \cup {upper - 1}
    BY <2>1, <2>2 DEF Insert, SeqsOf
  <2>4. UNCHANGED <<upper, running>> /\ mainPc = "pool" /\ Alive
    BY <1>7 DEF Enqueue, Alive
  <2> QED BY <1>1, <1>2, <2>1, <2>2, <2>3, <2>4
          DEF OrphanInv, NoOrphan, InHand, InPool
<1> QED BY <1>5, <1>6, <1>7 DEF MainNext

\* The send thread.
LEMMA OrphanSend ==
  ASSUME TypeInv, AckInv, OrphanInv, SendNext, UNCHANGED receiverVars
  PROVE  OrphanInv'
<1> USE DEF TypeInv, TypeOK, SenderTypeOK
<1>1. /\ UNCHANGED <<lower, upper, mainPc, acked>>
      /\ Alive /\ Alive'
      /\ lower \in Int /\ upper \in Int
  BY PacketAssumption DEF SendNext, mainVars, ackVars, Alive, SequenceNumber
<1>2. ~ SelectiveRepeat => acked' = {}
  BY <1>1 DEF OrphanInv
<1>3. running' => running
  BY DEF SendNext, Pop, SendExit, CleanUp, SkipEmptyWindow, Transmit, Exhaust, GiveUpPacket
\* A settled packet is acknowledged, or below the window.
<1>4. ASSUME NEW s \in lower .. upper - 1, Settled, s = sendSeq PROVE s \in acked
  BY <1>1, <1>4 DEF Settled
<1>5. CASE Pop
  <2>1. PICK t \in pending : sendSeq' = t /\ pending' = pending \ {t}
    BY <1>5 DEF Pop
  <2>2. /\ UNCHANGED <<timer, timedOut, pool, givenUp>>
        /\ sendPc = "wait" /\ sendPc' = "popped"
    BY <1>5 DEF Pop, timerVars
  <2>3. NoOrphan'
    BY <1>1, <1>3, <2>1, <2>2 DEF OrphanInv, NoOrphan, InHand
  <2> QED BY <1>1, <1>2, <2>2, <2>3 DEF OrphanInv, InPool
<1>6. CASE SendExit
  <2>1. ~ running' /\ pool' = pool /\ sendPc' = "exited"
    BY <1>6 DEF SendExit
  <2> QED BY <1>1, <1>2, <2>1 DEF OrphanInv, NoOrphan, InPool
<1>7. CASE CleanUp
  <2>1. /\ givenUp' = givenUp
        /\ pool' = {p \in pool : p.seq # sendSeq}
        /\ timer' = timer \ {sendSeq} /\ timedOut \ {sendSeq} \subseteq timedOut'
        /\ pending' = pending
        /\ Settled /\ sendPc = "popped"
    BY <1>7 DEF CleanUp, remove_event, LoopOrExit
  <2>2. NoOrphan'
    <3> SUFFICES ASSUME running', NEW s \in lower .. upper - 1
                 PROVE  (s \in acked \/ InHand(s) \/ s \in givenUp)'
      BY <1>1 DEF NoOrphan
    <3>1. CASE s = sendSeq
      BY <1>1, <1>4, <2>1, <3>1
    <3>2. CASE s # sendSeq
      <4>1. s \in acked \/ InHand(s) \/ s \in givenUp
        BY <1>1, <1>3 DEF OrphanInv, NoOrphan
      <4> QED BY <1>1, <2>1, <3>2, <4>1 DEF InHand
    <3> QED BY <3>1, <3>2
  <2>3. ASSUME NEW s \in lower .. upper - 1 PROVE (s \in acked \/ InPool(s))'
    <3>1. CASE s = sendSeq
      BY <1>1, <1>4, <2>1, <3>1
    <3>2. CASE s # sendSeq
      <4>1. s \in SeqsOf(pool) => s \in SeqsOf(pool')
        BY <2>1, <3>2 DEF SeqsOf
      <4> QED BY <1>1, <4>1 DEF OrphanInv, InPool
    <3> QED BY <3>1, <3>2
  <2> QED BY <1>1, <1>2, <2>1, <2>2, <2>3 DEF OrphanInv
<1>8. CASE SkipEmptyWindow
  <2>1. lower = upper
    BY <1>8 DEF SkipEmptyWindow
  <2>2. lower' .. upper' - 1 = {}
    BY <1>1, <2>1
  <2> QED BY <1>2, <2>1, <2>2 DEF OrphanInv, NoOrphan
<1>9. CASE Transmit
  <2>1. /\ givenUp' = givenUp
        /\ timer \ {sendSeq} \subseteq timer' /\ timedOut \ {sendSeq} \subseteq timedOut'
        /\ sendSeq \in SeqsOf(pool) => sendSeq \in timer'
        /\ pending' = pending /\ pool' = pool
        /\ ~ Settled /\ sendPc = "popped"
    BY <1>9 DEF Transmit, register_event, remove_event, LoopOrExit
  <2>2. NoOrphan'
    <3> SUFFICES ASSUME running', NEW s \in lower .. upper - 1
                 PROVE  (s \in acked \/ InHand(s) \/ s \in givenUp)'
      BY <1>1 DEF NoOrphan
    <3>1. CASE s = sendSeq
      <4>1. s \notin acked
        BY <2>1, <3>1 DEF Settled, OrphanInv
      <4>2. InPool(s)
        BY <1>1, <4>1 DEF OrphanInv
      <4> QED BY <1>1, <2>1, <3>1, <4>2 DEF InPool, InHand
    <3>2. CASE s # sendSeq
      <4>1. s \in acked \/ InHand(s) \/ s \in givenUp
        BY <1>1, <1>3 DEF OrphanInv, NoOrphan
      <4> QED BY <1>1, <2>1, <3>2, <4>1 DEF InHand
    <3> QED BY <3>1, <3>2
  <2> QED BY <1>1, <1>2, <2>1, <2>2 DEF OrphanInv, InPool
<1>10. CASE Exhaust
  <2>1. /\ UNCHANGED <<timer, timedOut, pending, pool, givenUp, sendSeq>>
        /\ sendPc = "popped" /\ sendPc' = "exhausted"
    BY <1>10 DEF Exhaust, timerVars
  <2>2. NoOrphan'
    BY <1>1, <1>3, <2>1 DEF OrphanInv, NoOrphan, InHand
  <2> QED BY <1>1, <1>2, <2>1, <2>2 DEF OrphanInv, InPool
<1>11. CASE GiveUpPacket
  <2>1. /\ UNCHANGED <<timer, timedOut, pending, pool>>
        /\ givenUp' = givenUp \cup {sendSeq}
        /\ sendPc = "exhausted"
    BY <1>11 DEF GiveUpPacket, timerVars
  <2>2. NoOrphan'
    BY <1>1, <1>3, <2>1 DEF OrphanInv, NoOrphan, InHand
  <2> QED BY <1>1, <1>2, <2>1, <2>2 DEF OrphanInv, InPool
<1> QED BY <1>5, <1>6, <1>7, <1>8, <1>9, <1>10, <1>11 DEF SendNext

\* The receive thread: what leaves acked_seq_set_ is below the window.
LEMMA OrphanAck ==
  ASSUME NoWrap, TypeInv, AckInv, OrphanInv, AckNext, UNCHANGED receiverVars
  PROVE  OrphanInv'
<1> USE DEF TypeInv, TypeOK, SenderTypeOK
<1>1. UNCHANGED <<timer, timedOut, pool, sendPc, sendSeq, givenUp>> /\ Alive
  BY DEF AckNext, timerVars, sendVars
<1>2. lower \in Int /\ upper \in Int /\ SeqSpace \in Nat
  BY PacketAssumption DEF SequenceNumber
<1>3. CASE AckFatal
  <2>1. ~ Alive' /\ acked' = acked
    BY <1>3 DEF AckFatal, Alive, ackVars
  <2> QED BY <2>1 DEF OrphanInv, NoOrphan
<1>4. CASE ReceiveAck \/ SetState \/ AckExit
  <2>1. UNCHANGED <<lower, upper, acked, pending, running, mainPc>>
    BY <1>4 DEF ReceiveAck, SetState, AckExit, mainVars
  <2> QED BY <1>1, <2>1 DEF OrphanInv, NoOrphan, InHand, InPool, Alive
<1>5. CASE HandleAck
  <2>1. UNCHANGED <<upper, running, mainPc>>
    BY <1>5 DEF HandleAck, mainVars
  <2>2. lower' \in Int /\ lower' >= lower
    <3>1. TypeInv'
      BY TypeAck
    <3>2. lower' \in Int
      BY <3>1, PacketAssumption DEF SequenceNumber
    <3>3. lower' >= lower
      BY <1>5, LowerMoves
    <3> QED BY <3>2, <3>3
  <2>3. pending \subseteq pending'
    BY <1>5 DEF HandleAck, RepeatedAck, CumulativeAck, OldAck, SelectiveAck
  <2>4. ~ SelectiveRepeat => acked' = {}
    BY <1>5 DEF HandleAck, RepeatedAck, CumulativeAck, OldAck, OrphanInv
  <2>5. ASSUME NEW s \in lower' .. upper - 1, s \in acked PROVE s \in acked'
    <3>1. SelectiveRepeat
      BY <2>5 DEF OrphanInv
    <3>2. PICK n \in 0 .. SeqSpace - 1 :
            /\ lower' = Plus(lower, n)
            /\ acked' = (acked \cup {ackPacket.seq}) \ {Plus(lower, i) : i \in 0 .. n - 1}
      BY <1>5, <3>1 DEF HandleAck, SelectiveAck
    <3>3. lower + n < SeqSpace /\ lower' = lower + n
      BY <1>2, <2>2, <3>2 DEF Plus
    <3>4. \A i \in 0 .. n - 1 : Plus(lower, i) < lower'
      BY <1>2, <3>3 DEF Plus
    <3> QED BY <2>2, <2>5, <3>2, <3>4
  <2>6. lower' .. upper - 1 \subseteq lower .. upper - 1
    BY <1>2, <2>2
  <2>7. NoOrphan'
    <3> SUFFICES ASSUME Alive', running', NEW s \in lower' .. upper - 1
                 PROVE  (s \in acked \/ InHand(s) \/ s \in givenUp)'
      BY <2>1 DEF NoOrphan
    <3>1. s \in acked \/ InHand(s) \/ s \in givenUp
      BY <1>1, <2>1, <2>6 DEF OrphanInv, NoOrphan
    <3> QED BY <1>1, <2>1, <2>3, <2>5, <3>1 DEF InHand
  <2>8. Alive' => \A s \in lower' .. upper' - 1 : (s \in acked \/ InPool(s))'
    BY <1>1, <2>1, <2>5, <2>6 DEF OrphanInv, InPool
  <2> QED BY <2>4, <2>7, <2>8 DEF OrphanInv
<1> QED BY <1>3, <1>4, <1>5 DEF AckNext

\* The timer's thread and the timeout thread hand sequence numbers on.
LEMMA OrphanTimer ==
  ASSUME OrphanInv, TimerNext \/ TimeoutNext, UNCHANGED receiverVars
  PROVE  OrphanInv'
<1>1. /\ UNCHANGED <<lower, upper, mainPc, acked, running, pool, sendPc, sendSeq, givenUp>>
      /\ Alive
  BY DEF TimerNext, TimeoutNext, TimeoutFrame, mainVars, ackVars, sendVars
<1>2. pending \cup timer \cup timedOut \subseteq pending' \cup timer' \cup timedOut'
  BY DEF TimerNext, Expire, time_out, TimeoutNext, Repend, map_timed_out_events,
         TimeoutExit, timerVars
<1>3. NoOrphan'
  BY <1>1, <1>2 DEF OrphanInv, NoOrphan, InHand, Alive
<1> QED BY <1>1, <1>3 DEF OrphanInv, InPool

\* OrphanInv with the types and AckInv is inductive.
LEMMA OrphanInductive ==
  ASSUME NoWrap
  PROVE  TypeInv /\ AckInv /\ OrphanInv /\ [Next]_vars => OrphanInv'
<1> SUFFICES ASSUME TypeInv, AckInv, OrphanInv, [Next]_vars PROVE OrphanInv'
  OBVIOUS
<1>1. CASE SenderNext /\ UNCHANGED receiverVars
  BY <1>1, OrphanMain, OrphanSend, OrphanAck, OrphanTimer DEF SenderNext
<1>2. CASE UNCHANGED senderVars
  <2>1. UNCHANGED <<lower, upper, mainPc, acked, running, pool, pending, timer,
                    timedOut, sendPc, sendSeq, givenUp>>
    BY <1>2 DEF senderVars
  <2> QED BY <2>1 DEF OrphanInv, NoOrphan, InHand, Alive, InPool
<1> QED BY <1>1, <1>2 DEF Next, Idle, vars

\* As long as no sequence number is used twice, whatever the window sizes, the
\* retry limit and the path, no thread of the sender drops the last reference
\* to an unacknowledged packet: pending_queue_, the timer, the threads between
\* them and the retry limit cover the window (send_handler, timeout_handler,
\* recv_handler, send_packet).
THEOREM NothingOrphaned == ASSUME NoWrap PROVE Spec => []NoOrphan
<1>1. Init => TypeInv /\ AckInv /\ OrphanInv
  BY TypeInit, AckInit, OrphanInit
<1>2. OrphanInv => NoOrphan
  BY DEF OrphanInv
<1> QED BY <1>1, <1>2, AckInductive, OrphanInductive, PTL DEF Spec

-----------------------------------------------------------------------------
(* The mutual wait of the send thread and main.                            *)

\* The send thread holds packet_pool_mutex_ and wants state_mutex_, which main
\* holds until the packet it is about to make has entered the pool.
Deadlocked == PoolLocked /\ StateLocked

\* Only stop() and the send thread itself, on its way out, clear running_.
RunningInv == \/ running
              \/ sendPc = "exited"
              \/ mainPc \in {"stop", "join", "exited", "crashed"}

\* RunningInv is inductive.
LEMMA RunningInductive == RunningInv /\ [Next]_vars => RunningInv'
<1> SUFFICES ASSUME RunningInv, [Next]_vars PROVE RunningInv'
  OBVIOUS
<1>1. CASE MainNext
  <2>1. sendPc' = sendPc
    BY <1>1 DEF MainNext, sendVars
  <2> QED
    BY <1>1, <2>1 DEF MainNext, RunningInv, Typed, StartControl, connect, send, disconnect,
      stop, StopTimer, join, FindRoom, TakeSequenceNumber, GiveUpWindow, Enqueue,
      WaitState, NextChunk, Drain
<1>2. CASE SendNext
  <2>1. mainPc' = mainPc
    BY <1>2 DEF SendNext, mainVars
  <2> QED
    BY <1>2, <2>1 DEF SendNext, RunningInv, Pop, SendExit, CleanUp, SkipEmptyWindow,
      Transmit, Exhaust, GiveUpPacket, LoopOrExit
<1>3. CASE AckNext
  <2>1. sendPc' = sendPc
    BY <1>3 DEF AckNext, sendVars
  <2> QED
    BY <1>3, <2>1 DEF AckNext, RunningInv, ReceiveAck, SetState, HandleAck, AckExit,
      AckFatal, mainVars
<1>4. CASE TimerNext \/ TimeoutNext
  BY <1>4 DEF TimerNext, TimeoutNext, TimeoutFrame, RunningInv, sendVars, mainVars
<1>5. CASE UNCHANGED senderVars
  BY <1>5 DEF senderVars, RunningInv
<1> QED BY <1>1, <1>2, <1>3, <1>4, <1>5 DEF Next, SenderNext, Idle, vars

\* No step but the crash of the process ends the mutual wait.
LEMMA DeadlockStays ==
  RunningInv /\ (Deadlocked \/ mainPc = "crashed") /\ [Next]_vars
    => (Deadlocked \/ mainPc = "crashed")'
<1> SUFFICES ASSUME RunningInv, Deadlocked \/ mainPc = "crashed", [Next]_vars
             PROVE  (Deadlocked \/ mainPc = "crashed")'
  OBVIOUS
<1> USE DEF Deadlocked, PoolLocked, StateLocked
<1>1. running \/ mainPc = "crashed"
  BY DEF RunningInv
<1>2. CASE MainNext
  <2>1. sendPc' = sendPc
    BY <1>2 DEF MainNext, sendVars
  <2>2. mainPc' \in {"window", "number", "pool"} /\ kind' = kind
    BY <1>1, <1>2 DEF MainNext, Typed, connect, send, disconnect,
      stop, StopTimer, join, FindRoom, TakeSequenceNumber, GiveUpWindow, Enqueue,
      WaitState, NextChunk, Drain
  <2>3. mainPc # "crashed"
    BY <1>2 DEF MainNext, Typed, connect, send, disconnect,
      stop, StopTimer, join, FindRoom, TakeSequenceNumber, GiveUpWindow, Enqueue,
      WaitState, NextChunk, Drain
  <2> QED BY <2>1, <2>2, <2>3
<1>3. CASE SendNext
  BY <1>3 DEF SendNext, Alive, Pop, SendExit, CleanUp, SkipEmptyWindow, Transmit,
    Exhaust, GiveUpPacket
<1>4. CASE AckNext
  <2>1. sendPc' = sendPc
    BY <1>4 DEF AckNext, sendVars
  <2>2. mainPc' \in {mainPc, "crashed"} /\ kind' = kind
    BY <1>4 DEF AckNext, ReceiveAck, SetState, HandleAck, AckExit, AckFatal, mainVars
  <2> QED BY <2>1, <2>2
<1>5. CASE TimerNext \/ TimeoutNext
  BY <1>5 DEF TimerNext, TimeoutNext, TimeoutFrame, sendVars, mainVars
<1>6. CASE UNCHANGED senderVars
  BY <1>6 DEF senderVars
<1> QED BY <1>2, <1>3, <1>4, <1>5, <1>6 DEF Next, SenderNext, Idle, vars

\* When the send thread has reached the retry limit while connect(), send() or
\* disconnect() holds state_mutex_ (send_handler, send_packet), the two wait
\* for each other for ever, whatever arrives and whatever times out: only a
\* fatal socket error, which ends the process, gets them out of it.
THEOREM DeadlockForGood ==
  Spec => [](Deadlocked => [](Deadlocked \/ mainPc = "crashed"))
<1>1. Init => RunningInv
  BY DEF Init, SenderInit, RunningInv
<1>2. RunningInv /\ [Next]_vars => RunningInv'
  BY RunningInductive
<1>3. RunningInv /\ (Deadlocked \/ mainPc = "crashed") /\ [Next]_vars
        => (Deadlocked \/ mainPc = "crashed")'
  BY DeadlockStays
<1> QED BY <1>1, <1>2, <1>3, PTL DEF Spec
=============================================================================
