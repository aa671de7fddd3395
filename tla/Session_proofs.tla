--------------------------- MODULE Session_proofs ---------------------------
(***************************************************************************)
(* A session in which no command is typed twice, without a retry limit,    *)
(* for both protocols, all window sizes, files and paths: sender and       *)
(* receiver are in the data phase together, a send() that succeeded has    *)
(* delivered its file, and the receiver's window never moves back. Typing  *)
(* a command twice breaks this: an answer to the first one is then taken   *)
(* for an answer to the second.                                            *)
(***************************************************************************)
EXTENDS Order_proofs

\* No script has a command twice.
TypedOnce(c) == \A i, j \in 1 .. Len(c) : c[i].op = c[j].op => i = j

\* The sequence numbers are enough for all packets and the window above them.
Roomy == MaxPackets + RecvWindow <= SeqSpace

-----------------------------------------------------------------------------
(* The inductive invariant.                                                *)

\* The state in which a packet of kind k is sent, and the one that the
\* answer to it leads to.
Requested(k) == CASE k = "ConnReq"    -> "Connecting"
                  [] k = "DataPush"   -> "Pushing"
                  [] k = "Data"       -> "Sending"
                  [] k = "DataStop"   -> "Stopping"
                  [] k = "DisconnReq" -> "Disconnecting"
Granted(k) == StateAcked(get_ack_kind(k))

\* The command that sends packets of kind k.
CommandOf(k) == CASE k = "ConnReq"    -> "connect"
                  [] k = "DisconnReq" -> "disconnect"
                  [] OTHER            -> "send"

InCommand == mainPc \in {"window", "number", "pool", "wait", "data", "drain"}

\* The state of the sender follows from where main is and what it sends.
PhaseInv ==
  /\ mainPc \in {"window", "number", "pool"} => state = Requested(kind)
  /\ mainPc = "wait" => kind # "Data" /\ state \in {Requested(kind), Granted(kind)}
  /\ mainPc \in {"data", "drain"} => state = "Sending" /\ kind \in {"DataPush", "Data"}
  /\ mainPc \in {"prompt", "stop", "join", "exited"} => state \in {"Idle", "Connected"}
  /\ ackPc = "state" => Awaited(state, ackPacket.kind)

\* Every request but chunks is made at most once.
OnceInv ==
  /\ TypedOnce(script)
  /\ \A j \in 1 .. Len(script) : \A i \in 1 .. Len(log) : CommandOf(log[i].kind) # script[j].op
  /\ InCommand => \A j \in 1 .. Len(script) : CommandOf(kind) # script[j].op
  /\ \A i, j \in 1 .. Len(log) : log[i].kind = log[j].kind /\ log[i].kind # "Data" => i = j
  /\ mainPc \in {"window", "number"} /\ kind # "Data" => \A i \in 1 .. Len(log) : log[i].kind # kind
  /\ state \in {"Pushing", "Sending"} => \A i \in 1 .. Len(log) : log[i].kind # "DataStop"

\* What the receiver wrote, to its stream or to a file.
Written == ToSet(os) \cup UNION {ToSet(files[j]) : j \in DOMAIN files}

\* The receiver writes what is below its window and keeps chunks above it;
\* no request is made before everything below it was taken.
OrderInv ==
  /\ skipped = {}
  /\ second = Plus(first, RecvWindow)
  /\ \A q \in recvBuffer : q.kind = "Data" /\ q.seq > first
  /\ \A q \in Written : q.seq < first
  /\ \A i \in 1 .. Len(log) : log[i].kind # "Data" => i - 1 <= first

\* An acknowledgement answers a request that was taken, or a chunk.
Answered(a) ==
  /\ peerKnown
  /\ a.kind # "DataAck" =>
       \E i \in 1 .. first : log[i].kind \in RequestKinds /\ get_ack_kind(log[i].kind) = a.kind

StopTaken == \E i \in 1 .. first : log[i].kind = "DataStop"

\* What the sender may conclude about the receiver.
HandInv ==
  /\ \A a \in ToSet(toSender) : Answered(a)
  /\ ackPc \in {"state", "ack"} => Answered(ackPacket)
  /\ mainPc = "prompt" \/ (mainPc \in {"window", "number"} /\ kind # "Data") => first = Len(log)
  /\ mainPc = "wait" /\ state = Granted(kind) => first = Len(log) /\ peerKnown
  /\ state = "Sending" => peerKnown /\ Pushed(first, Len(log))
  /\ StopTaken /\ peerKnown => Yielded # <<>>
  /\ okSends # 0 => /\ okSends = 1 /\ peerKnown /\ StopTaken
                    /\ ~ (mainPc \in {"pool", "wait"} /\ kind = "DataStop")

SessionInv == MainInv /\ StateInv /\ PhaseInv /\ OnceInv /\ OrderInv /\ HandInv

-----------------------------------------------------------------------------
(* The sender's states and requests.                                       *)

\* What the kinds stand for.
LEMMA Kinds ==
  /\ Requested("ConnReq") = "Connecting" /\ Granted("ConnReq") = "Connected"
  /\ Requested("DataPush") = "Pushing" /\ Granted("DataPush") = "Sending"
  /\ Requested("DataStop") = "Stopping" /\ Granted("DataStop") = "Connected"
  /\ Requested("DisconnReq") = "Disconnecting" /\ Granted("DisconnReq") = "Idle"
  /\ Requested("Data") = "Sending"
BY DEF Requested, Granted, StateAcked, get_ack_kind

LEMMA Command ==
  /\ CommandOf("ConnReq") = "connect" /\ CommandOf("DisconnReq") = "disconnect"
  /\ CommandOf("DataPush") = "send" /\ CommandOf("DataStop") = "send"
  /\ CommandOf("Data") = "send"
BY DEF CommandOf

\* The main thread keeps state and program counter in step.
LEMMA PhaseMain ==
  ASSUME TypeInv, MainInv, PhaseInv, MainNext
  PROVE  PhaseInv'
<1> USE Kinds
<1>0. kind \in {"Data", "DataPush", "DataStop", "ConnReq", "DisconnReq"}
  BY DEF TypeInv, TypeOK, SenderTypeOK, RequestKinds
<1>1. UNCHANGED <<ackPc, ackPacket>>
  BY DEF MainNext, ackVars
<1>2. CASE connect \/ send \/ disconnect \/ stop \/ StopTimer \/ join
  <2>1. mainPc \in {"prompt", "stop", "join"} /\ state \in {"Idle", "Connected"}
    BY <1>2 DEF connect, send, disconnect, stop, StopTimer, join, Typed, PhaseInv
  <2>2. ackPc # "state"
    BY <2>1 DEF PhaseInv, Awaited
  <2> QED BY <1>1, <1>2, <2>1, <2>2
          DEF connect, send, disconnect, stop, StopTimer, join, Typed, StartControl, PhaseInv
<1>3. CASE TakeSequenceNumber
  BY <1>1, <1>3 DEF TakeSequenceNumber, PhaseInv
<1>4. CASE FindRoom \/ GiveUpWindow
  BY <1>1, <1>4 DEF FindRoom, GiveUpWindow, MainInv, PhaseInv
<1>5. CASE Enqueue
  BY <1>0, <1>1, <1>5 DEF Enqueue, PhaseInv
<1>6. CASE WaitState
  BY <1>0, <1>1, <1>6 DEF WaitState, PhaseInv
<1>7. CASE NextChunk
  BY <1>1, <1>7 DEF NextChunk, PhaseInv
<1>8. CASE Drain
  <2>1. state = "Sending" /\ running
    BY <1>8 DEF Drain, PhaseInv, MainInv
  <2>2. ackPc # "state"
    BY <2>1 DEF PhaseInv, Awaited
  <2> QED BY <1>1, <1>8, <2>1, <2>2 DEF Drain, StartControl, PhaseInv
<1> QED BY <1>2, <1>3, <1>4, <1>5, <1>6, <1>7, <1>8 DEF MainNext

\* An answer that is awaited finds main waiting for it.
LEMMA SetStateWaits ==
  ASSUME TypeInv, PhaseInv, Alive, SetState
  PROVE  /\ mainPc = "wait" /\ kind # "Data"
         /\ state = Requested(kind) /\ state' = Granted(kind)
         /\ ackPacket.kind = get_ack_kind(kind) /\ ackPacket.kind # "DataAck"
         /\ state \in {"Connecting", "Pushing", "Stopping", "Disconnecting"}
<1> USE Kinds
<1>0. /\ kind \in {"Data", "DataPush", "DataStop", "ConnReq", "DisconnReq"}
      /\ mainPc \in {"prompt", "window", "number", "pool", "wait", "data", "drain", "stop",
                     "join", "exited", "crashed"}
  BY DEF TypeInv, TypeOK, SenderTypeOK, RequestKinds
<1>1. Awaited(state, ackPacket.kind) /\ ~ StateLocked /\ state' = StateAcked(ackPacket.kind)
  BY DEF SetState, PhaseInv
<1>2. mainPc \notin {"prompt", "stop", "join", "exited", "data", "drain", "crashed"}
  BY <1>1 DEF PhaseInv, Awaited, Alive
<1>3. mainPc \notin {"window", "number", "pool"}
  BY <1>0, <1>1 DEF PhaseInv, Awaited, StateLocked
<1>4. mainPc = "wait"
  BY <1>0, <1>2, <1>3
<1>5. kind # "Data" /\ state = Requested(kind)
  BY <1>0, <1>1, <1>4 DEF PhaseInv, Awaited
<1>6. ackPacket.kind = get_ack_kind(kind) /\ ackPacket.kind # "DataAck"
  BY <1>0, <1>1, <1>5 DEF Awaited, get_ack_kind
<1> QED BY <1>1, <1>4, <1>5, <1>6 DEF Granted, Awaited

\* The other threads keep them in step too.
LEMMA PhaseThreads ==
  ASSUME TypeInv, MainInv, PhaseInv, SendNext \/ AckNext \/ TimerNext \/ TimeoutNext
  PROVE  PhaseInv'
<1>1. CASE SendNext
  <2>1. UNCHANGED <<mainPc, kind, ackPc, ackPacket>>
    BY <1>1 DEF SendNext, mainVars, ackVars
  <2>2. state' = state
    BY <1>1 DEF SendNext, Pop, SendExit, CleanUp, SkipEmptyWindow, Transmit, Exhaust,
                GiveUpPacket, MainInv
  <2> QED BY <2>1, <2>2 DEF PhaseInv
<1>2. CASE TimerNext \/ TimeoutNext
  <2>1. UNCHANGED <<mainPc, kind, ackPc, ackPacket, state>>
    BY <1>2 DEF TimerNext, TimeoutNext, TimeoutFrame, mainVars, ackVars
  <2> QED BY <2>1 DEF PhaseInv
<1>3. CASE AckNext
  <2>1. CASE ReceiveAck
    BY <2>1 DEF ReceiveAck, mainVars, PhaseInv
  <2>2. CASE SetState
    <3>1. UNCHANGED <<mainPc, kind>> /\ ackPc' = "ack"
      BY <2>2 DEF SetState, mainVars
    <3> QED BY <1>3, <2>2, <3>1, SetStateWaits DEF PhaseInv, AckNext
  <2>3. CASE HandleAck \/ AckExit
    <3>1. UNCHANGED <<mainPc, kind, state>> /\ ackPc' # "state"
      BY <2>3 DEF HandleAck, AckExit, mainVars, LoopOrExit
    <3> QED BY <3>1 DEF PhaseInv
  <2>4. CASE AckFatal
    BY <2>4 DEF AckFatal, ackVars, PhaseInv
  <2> QED BY <1>3, <2>1, <2>2, <2>3, <2>4 DEF AckNext
<1> QED BY <1>1, <1>2, <1>3

\* The commands that are left are others than the one that is typed.
LEMMA TailOnce ==
  ASSUME NEW c \in Seq(Commands), c # <<>>, TypedOnce(c)
  PROVE  /\ TypedOnce(Tail(c))
         /\ 1 \in 1 .. Len(c) /\ Head(c) = c[1]
         /\ \A j \in 1 .. Len(Tail(c)) :
              /\ j + 1 \in 1 .. Len(c)
              /\ Tail(c)[j] = c[j + 1]
              /\ Tail(c)[j].op # Head(c).op
<1>1. /\ Len(c) \in Nat /\ Len(c) >= 1 /\ Head(c) = c[1]
      /\ Len(Tail(c)) = Len(c) - 1
      /\ \A j \in 1 .. Len(Tail(c)) : Tail(c)[j] = c[j + 1]
  BY HeadTailProperties, EmptySeq
<1>2. \A j \in 1 .. Len(Tail(c)) : j + 1 \in 1 .. Len(c) /\ j + 1 # 1
  BY <1>1
<1>3. 1 \in 1 .. Len(c)
  BY <1>1
<1>4. \A j \in 1 .. Len(Tail(c)) : Tail(c)[j].op # Head(c).op
  BY <1>1, <1>2, <1>3 DEF TypedOnce
<1>5. \A i, j \in 1 .. Len(Tail(c)) : i + 1 = j + 1 => i = j
  BY <1>1
<1>6. TypedOnce(Tail(c))
  BY <1>1, <1>2, <1>5 DEF TypedOnce
<1> QED BY <1>1, <1>2, <1>3, <1>4, <1>6

\* What typing a command does to what was and will be typed.
LEMMA OnceTyped ==
  ASSUME TypeInv, OnceInv, NEW op, Typed(op), UNCHANGED log
  PROVE  /\ TypedOnce(script')
         /\ \A j \in 1 .. Len(script') :
              \A i \in 1 .. Len(log) : CommandOf(log[i].kind) # script'[j].op
         /\ \A j \in 1 .. Len(script') : script'[j].op # op
         /\ \A i \in 1 .. Len(log) : CommandOf(log[i].kind) # op
<1>1. script \in Seq(Commands) /\ script # <<>> /\ Head(script).op = op /\ script' = Tail(script)
  BY DEF TypeInv, TypeOK, SenderTypeOK, Typed
<1>2. TypedOnce(script)
  BY DEF OnceInv
<1>3. /\ TypedOnce(script')
      /\ 1 \in 1 .. Len(script) /\ Head(script) = script[1]
      /\ \A j \in 1 .. Len(script') :
            /\ j + 1 \in 1 .. Len(script)
            /\ script'[j] = script[j + 1]
            /\ script'[j].op # Head(script).op
  BY <1>1, <1>2, TailOnce
<1> QED BY <1>1, <1>3 DEF OnceInv

\* The main thread makes no request twice.
LEMMA OnceMain ==
  ASSUME TypeInv, MainInv, PhaseInv, OnceInv, MainNext
  PROVE  OnceInv'
<1> USE Kinds, Command
<1>0. /\ kind \in {"Data", "DataPush", "DataStop", "ConnReq", "DisconnReq"}
      /\ log \in Seq(Packets)
  BY DEF TypeInv, TypeOK, SenderTypeOK, RequestKinds
<1>1. CASE connect \/ send \/ disconnect \/ stop
  <2>1. log' = log
    BY <1>1 DEF connect, send, disconnect, stop, packetVars
  <2>2. CASE connect
    <3>1. /\ Typed("connect") /\ mainPc' = "window" /\ kind' = "ConnReq" /\ state' = "Connecting"
      BY <2>2 DEF connect, StartControl
    <3>2. \A i \in 1 .. Len(log) : log[i].kind # "ConnReq"
      BY <2>1, <3>1, OnceTyped
    <3> QED BY <2>1, <3>1, <3>2, OnceTyped DEF OnceInv
  <2>3. CASE send
    <3>1. /\ Typed("send") /\ mainPc' = "window" /\ kind' = "DataPush" /\ state' = "Pushing"
      BY <2>3 DEF send, StartControl
    <3>2. \A i \in 1 .. Len(log) : log[i].kind # "DataPush" /\ log[i].kind # "DataStop"
      BY <2>1, <3>1, OnceTyped
    <3> QED BY <2>1, <3>1, <3>2, OnceTyped DEF OnceInv
  <2>4. CASE disconnect
    <3>1. /\ Typed("disconnect")
          /\ \/ mainPc' = "prompt" /\ UNCHANGED <<kind, state>>
             \/ mainPc' = "window" /\ kind' = "DisconnReq" /\ state' = "Disconnecting"
      BY <2>4 DEF disconnect, StartControl, Typed
    <3>2. \A i \in 1 .. Len(log) : log[i].kind # "DisconnReq"
      BY <2>1, <3>1, OnceTyped
    <3> QED BY <2>1, <3>1, <3>2, OnceTyped DEF OnceInv, InCommand
  <2>5. CASE stop
    <3>1. /\ Typed("exit") /\ mainPc' = "stop" /\ UNCHANGED <<kind, state>>
      BY <2>5 DEF stop
    <3> QED BY <2>1, <3>1, OnceTyped DEF OnceInv, InCommand
  <2> QED BY <1>1, <2>2, <2>3, <2>4, <2>5
<1>2. CASE TakeSequenceNumber
  <2>1. NewPacket \in Packets /\ NewPacket.kind = kind
    <3>1. (IF kind = "Data" THEN <<file, chunk>> ELSE NoPayload) \in Nat \X Nat
      BY DEF NoPayload, TypeInv, TypeOK, SenderTypeOK
    <3> QED BY <3>1, PacketType DEF NewPacket, TypeInv, TypeOK, SenderTypeOK
  <2>2. /\ Len(log') = Len(log) + 1 /\ Len(log) \in Nat
        /\ \A i \in 1 .. Len(log) : log'[i] = log[i]
        /\ log'[Len(log) + 1].kind = kind
    BY <1>0, <1>2, <2>1, AppendType DEF TakeSequenceNumber
  <2>3. mainPc = "number" /\ mainPc' = "pool" /\ UNCHANGED <<kind, state, script>>
    BY <1>2 DEF TakeSequenceNumber
  <2>4. \A i \in 1 .. Len(log') : i \in 1 .. Len(log) \/ i = Len(log) + 1
    BY <2>2
  <2>5. InCommand
    BY <2>3 DEF InCommand
  <2>6. \A j \in 1 .. Len(script) : \A i \in 1 .. Len(log') : CommandOf(log'[i].kind) # script[j].op
    BY <2>2, <2>4, <2>5 DEF OnceInv
  <2>7. \A i, j \in 1 .. Len(log') : log'[i].kind = log'[j].kind /\ log'[i].kind # "Data" => i = j
    BY <2>2, <2>3, <2>4 DEF OnceInv
  <2>8. state = Requested(kind)
    BY <2>3 DEF PhaseInv
  <2>9. state \in {"Pushing", "Sending"} => \A i \in 1 .. Len(log') : log'[i].kind # "DataStop"
    BY <1>0, <2>2, <2>4, <2>8 DEF OnceInv
  <2> QED BY <2>3, <2>5, <2>6, <2>7, <2>9 DEF OnceInv
<1>3. CASE StopTimer \/ join \/ Enqueue \/ WaitState
  <2>1. UNCHANGED <<kind, state, script, log>> /\ mainPc' \notin {"window", "number"} /\ (InCommand' => InCommand)
    BY <1>3 DEF StopTimer, join, Enqueue, WaitState, packetVars, InCommand
  <2> QED BY <2>1 DEF OnceInv
<1>4. CASE FindRoom \/ GiveUpWindow
  <2>1. CASE FindRoom
    <3>1. UNCHANGED <<kind, state, script, log>> /\ mainPc = "window" /\ mainPc' = "number"
      BY <2>1 DEF FindRoom, packetVars
    <3>2. InCommand
      BY <3>1 DEF InCommand
    <3> QED BY <3>1, <3>2 DEF OnceInv
  <2>2. CASE GiveUpWindow
    BY <2>2 DEF GiveUpWindow, MainInv
  <2> QED BY <1>4, <2>1, <2>2
<1>5. CASE NextChunk
  <2>1. /\ UNCHANGED <<state, script, log>> /\ InCommand /\ kind \in {"Data", "DataPush"}
        /\ kind' = kind \/ kind' = "Data"
        /\ mainPc' \in {"window", "number"} => kind' = "Data"
    BY <1>5 DEF NextChunk, packetVars, InCommand, PhaseInv
  <2>2. CommandOf(kind') = CommandOf(kind)
    BY <2>1
  <2> QED BY <2>1, <2>2 DEF OnceInv
<1>6. CASE Drain
  <2>1. /\ UNCHANGED <<script, log>> /\ InCommand /\ kind \in {"Data", "DataPush"}
        /\ state = "Sending" /\ running
    BY <1>6 DEF Drain, packetVars, InCommand, PhaseInv, MainInv
  <2>2. \/ state' = "Stopping" /\ kind' = "DataStop" /\ mainPc' = "window"
        \/ UNCHANGED <<kind, state>> /\ mainPc' = "crashed"
    BY <1>6, <2>1 DEF Drain, StartControl
  <2>3. kind' = "DataStop" => CommandOf(kind') = CommandOf(kind)
    BY <2>1
  <2> QED BY <2>1, <2>2, <2>3 DEF OnceInv, InCommand
<1> QED BY <1>1, <1>2, <1>3, <1>4, <1>5, <1>6 DEF MainNext

\* The other threads make no requests.
LEMMA OnceThreads ==
  ASSUME TypeInv, MainInv, PhaseInv, OnceInv, SendNext \/ AckNext \/ TimerNext \/ TimeoutNext
  PROVE  OnceInv'
<1> USE Kinds
<1>0. kind \in {"Data", "DataPush", "DataStop", "ConnReq", "DisconnReq"}
  BY DEF TypeInv, TypeOK, SenderTypeOK, RequestKinds
<1>1. /\ UNCHANGED <<kind, script, log>>
      /\ mainPc' = mainPc \/ mainPc' = "crashed"
      /\ state' = state \/ (AckNext /\ SetState)
  <2>1. CASE SendNext
    <3>1. UNCHANGED <<mainPc, kind, script, log>>
      BY <2>1 DEF SendNext, mainVars
    <3>2. state' = state
      BY <2>1 DEF SendNext, Pop, SendExit, CleanUp, SkipEmptyWindow, Transmit, Exhaust,
                  GiveUpPacket, MainInv
    <3> QED BY <3>1, <3>2
  <2>2. CASE TimerNext \/ TimeoutNext
    BY <2>2 DEF TimerNext, TimeoutNext, TimeoutFrame, mainVars
  <2>3. CASE AckNext
    BY <2>3 DEF AckNext, ReceiveAck, SetState, HandleAck, AckExit, AckFatal, mainVars
  <2> QED BY <2>1, <2>2, <2>3
<1>2. state' \in {"Pushing", "Sending"} => state \in {"Pushing", "Sending"}
  <2>1. CASE state' = state
    BY <2>1
  <2>2. CASE AckNext /\ SetState
    <3>1. kind # "Data" /\ state = Requested(kind) /\ state' = Granted(kind)
      BY <2>2, SetStateWaits DEF AckNext
    <3> QED BY <1>0, <3>1
  <2> QED BY <1>1, <2>1, <2>2
<1> QED BY <1>1, <1>2 DEF OnceInv, InCommand

-----------------------------------------------------------------------------
(* The receiver takes requests in order.                                   *)

\* What the arithmetic of the session needs.
LEMMA Bounds ==
  ASSUME Roomy, TypeInv, AckInv
  PROVE  /\ NoWrap
         /\ log \in Seq(Packets) /\ Len(log) \in Nat
         /\ SeqSpace \in Nat /\ RecvWindow \in Nat /\ RecvWindow >= 1
         /\ first \in Nat /\ first <= Len(log) /\ Len(log) + RecvWindow <= SeqSpace
<1>1. log \in Seq(Packets) /\ first \in SequenceNumber
  BY DEF TypeInv, TypeOK, SenderTypeOK, ReceiverTypeOK
<1>2. first <= Len(log) /\ Len(log) <= MaxPackets
  BY DEF AckInv, ReceiverHas, Numbered
<1> QED BY <1>1, <1>2, LenProperties, PacketAssumption, SenderAssumption, ReceiverAssumption
        DEF Roomy, NoWrap, SequenceNumber

\* A request is never beyond the window: it was made when the receiver had
\* taken everything before it.
LEMMA RequestInWindow ==
  ASSUME Roomy, TypeInv, AckInv, OrderInv, NEW p \in ToSet(log), p.kind # "Data", ~ Below(p)
  PROVE  /\ p.seq <= first
         /\ recvState # "Idle" => p.seq = first /\ ~ Beyond(p)
<1>1. p.seq \in 0 .. Len(log) - 1 /\ p = log[p.seq + 1]
  BY LogAt DEF AckInv
<1>2. p.seq <= first
  <2>1. p.seq + 1 \in 1 .. Len(log) /\ (p.seq + 1) - 1 = p.seq
    BY <1>1, Bounds
  <2> QED BY <1>1, <2>1 DEF OrderInv
<1>3. recvState # "Idle" => p.seq = first
  BY <1>1, <1>2, Bounds DEF Below
<1>4. p.seq = first => second = first + RecvWindow /\ p.seq < second
  BY <1>1, Bounds DEF OrderInv, Plus
<1> QED BY <1>2, <1>3, <1>4, Bounds DEF Beyond

\* What a receiver of the session does with a packet it accepts.
LEMMA SessionAccept ==
  ASSUME Roomy, TypeInv, AckInv, MainInv, StateInv, OrderInv, recvPc = "loop",
         NEW p \in ToSet(log), Accept(p), UNCHANGED senderVars
  PROVE  \E n \in Nat :
           /\ Takes(p, n)
           /\ second' = Plus(Plus(first, RecvWindow), n)
           /\ n = 0 => p.kind = "Data"
           /\ n # 0 => p = log[first + 1]
           /\ \A i \in first + 2 .. first + n : log[i].kind = "Data"
           /\ StateInv'
           /\ recvPc' = "yielded" <=> n # 0 /\ p.kind = "DataStop"
<1>1. p.seq \in 0 .. Len(log) - 1 /\ p = log[p.seq + 1]
  BY LogAt DEF AckInv
<1>2. recvState = "Idle" => p.seq = first
  <2> SUFFICES ASSUME recvState = "Idle" PROVE p.seq = first
    OBVIOUS
  <2>1. first = 0 /\ Len(log) <= 1
    BY DEF StateInv, Fresh
  <2>2. \A a, b \in Nat : a < b /\ b <= 1 => a = 0
    OBVIOUS
  <2> QED BY <1>1, <2>1, <2>2, Bounds
<1>3. PICK n \in Nat :
        /\ Takes(p, n)
        /\ second' = Plus(IF recvState = "Idle" /\ p.kind = "ConnReq"
                            THEN Plus(p.seq, RecvWindow) ELSE second, n)
  BY <1>2, AcceptInOrder, Bounds DEF OrderInv
<1>4. second' = Plus(Plus(first, RecvWindow), n)
  BY <1>2, <1>3 DEF OrderInv
<1>5. n = 0 => p.kind = "Data"
  <2>1. p.kind # "Data" => p.seq = first
    BY <1>2, RequestInWindow DEF Accept
  <2> QED BY <1>3, <2>1 DEF Takes
<1>6. n # 0 => p = log[first + 1]
  BY <1>1, <1>3 DEF Takes
<1>7. \A i \in first + 2 .. first + n : log[i].kind = "Data"
  BY <1>3 DEF Takes, OrderInv
<1>8. StateInv' /\ (recvPc' = "yielded" <=> n # 0 /\ p.kind = "DataStop")
  BY <1>3, <1>5, <1>7, AcceptState
<1> QED BY <1>3, <1>4, <1>5, <1>6, <1>7, <1>8

\* Accepting a packet keeps the order.
LEMMA OrderAccept ==
  ASSUME Roomy, TypeInv, AckInv, MainInv, StateInv, OrderInv, recvPc = "loop",
         NEW p \in ToSet(log), Accept(p), UNCHANGED senderVars
  PROVE  OrderInv'
<1>1. PICK n \in Nat :
        /\ Takes(p, n)
        /\ second' = Plus(Plus(first, RecvWindow), n)
        /\ n = 0 => p.kind = "Data"
        /\ n # 0 => p = log[first + 1]
  BY SessionAccept
<1>2. /\ first' = first + n /\ first + n <= Len(log)
      /\ n = 0 <=> p.seq # first
      /\ os' = os \o [i \in 1 .. n |-> log[first + i]]
      /\ recvBuffer' \subseteq recvBuffer \cup {p}
      /\ \A q \in recvBuffer' : q.seq > first + n
  BY <1>1 DEF Takes
<1>3. log' = log /\ files' = files
  BY DEF senderVars, Accept
<1>4. skipped' = {}
  <2>1. recvState = "Idle" => p.seq = 0
    <3> SUFFICES ASSUME recvState = "Idle" PROVE p.seq = 0
      OBVIOUS
    <3>1. first = 0 /\ Len(log) <= 1
      BY DEF StateInv, Fresh
    <3>2. p.seq \in 0 .. Len(log) - 1
      BY LogAt DEF AckInv
    <3>3. \A a, b \in Nat : a < b /\ b <= 1 => a = 0
      OBVIOUS
    <3> QED BY <3>1, <3>2, <3>3, Bounds
  <2>2. recvState = "Idle" => 0 .. p.seq - 1 = {}
    BY <2>1
  <2> QED BY <2>2 DEF Accept, OrderInv
<1>5. second' = Plus(first', RecvWindow)
  <2>1. CASE n = 0
    <3>1. Plus(first, RecvWindow) \in Nat /\ Plus(first, RecvWindow) < SeqSpace
      BY Bounds DEF Plus
    <3>2. Plus(Plus(first, RecvWindow), 0) = Plus(first, RecvWindow)
      BY <3>1, Bounds DEF Plus
    <3> QED BY <1>1, <1>2, <2>1, <3>2, Bounds
  <2>2. CASE n # 0
    <3>1. Plus(first, RecvWindow) = first + RecvWindow
      BY <1>2, <2>2, Bounds DEF Plus
    <3>2. Plus(first + RecvWindow, n) = Plus(first + n, RecvWindow)
      BY Bounds DEF Plus
    <3>3. second' = Plus(first + RecvWindow, n)
      BY <1>1, <3>1
    <3> QED BY <1>2, <3>2, <3>3
  <2> QED BY <2>1, <2>2
<1>6. ASSUME NEW q \in recvBuffer' PROVE q.kind = "Data" /\ q.seq > first'
  <2>1. q.seq > first'
    BY <1>2
  <2>2. CASE q \in recvBuffer
    BY <2>1, <2>2 DEF OrderInv
  <2>3. CASE q = p
    <3>1. p.seq # first
      BY <1>2, <2>1, <2>3, Bounds
    <3> QED BY <1>1, <1>2, <2>1, <2>3, <3>1
  <2> QED BY <1>2, <2>2, <2>3
<1>7. ASSUME NEW q \in Written' PROVE q.seq < first'
  <2> DEFINE taken == [i \in 1 .. n |-> log[first + i]]
  <2>1. \A i \in 1 .. n : first + i \in 1 .. Len(log)
    BY <1>2, Bounds
  <2>2. os \in Seq(Packets) /\ taken \in Seq(Packets) /\ DOMAIN taken = 1 .. n
    <3>1. os \in Seq(Packets)
      BY DEF TypeInv, TypeOK, ReceiverTypeOK
    <3>2. \A i \in 1 .. n : log[first + i] \in Packets
      BY <2>1, Bounds
    <3> QED BY <3>1, <3>2
  <2>3. ToSet(os') = ToSet(os) \cup ToSet(taken)
    <3>1. os' = os \o taken
      BY <1>2
    <3> HIDE DEF taken
    <3> QED BY <2>2, <3>1, ConcatElements
  <2>4. CASE q \in Written
    <3>1. q.seq < first
      BY <2>4 DEF OrderInv
    <3>2. q \in ToSet(log)
      BY <2>4 DEF AckInv, Intact, Kept, Written
    <3>3. q.seq \in 0 .. Len(log) - 1
      BY <3>2, LogAt DEF AckInv
    <3> QED BY <1>2, <3>1, <3>3, Bounds
  <2>5. CASE q \in ToSet(taken)
    <3>1. PICK i \in 1 .. n : q = log[first + i]
      BY <2>2, <2>5 DEF ToSet
    <3>2. q.seq = (first + i) - 1
      BY <2>1, <3>1, Bounds DEF AckInv, Numbered
    <3> QED BY <1>2, <3>2, Bounds
  <2> QED BY <1>3, <2>3, <2>4, <2>5 DEF Written
<1>8. ASSUME NEW i \in 1 .. Len(log'), log'[i].kind # "Data" PROVE i - 1 <= first'
  BY <1>2, <1>3, <1>8, Bounds DEF OrderInv
<1> QED BY <1>4, <1>5, <1>6, <1>7, <1>8 DEF OrderInv

-----------------------------------------------------------------------------
(* What the sender knows about the receiver: the receiver's steps.         *)

\* A step of the receiver that answers only what it took, and yields the file
\* whose end it takes, leaves the sender right.
LEMMA HandForward ==
  ASSUME Roomy, TypeInv, AckInv, HandInv, UNCHANGED senderVars,
         first' \in Nat, first' >= first, first' <= Len(log), peerKnown => peerKnown',
         \A a \in ToSet(toSender') : a \in ToSet(toSender) \/ Answered(a)',
         StopTaken' /\ peerKnown' => Yielded' # <<>>
  PROVE  HandInv'
<1>1. UNCHANGED <<log, state, mainPc, kind, ackPc, ackPacket, okSends>>
  BY DEF senderVars
<1>2. \A i \in 1 .. first : i \in 1 .. first'
  BY Bounds
<1>3. \A a : Answered(a) => Answered(a)'
  BY <1>1, <1>2 DEF Answered
<1>4. StopTaken => StopTaken'
  BY <1>1, <1>2 DEF StopTaken
<1>5. Pushed(first, Len(log)) => Pushed(first, Len(log))'
  BY <1>1, <1>2 DEF Pushed
<1>6. first = Len(log) => first' = Len(log')
  BY <1>1, Bounds
<1>7. \A a \in ToSet(toSender') : Answered(a)'
  BY <1>3 DEF HandInv
<1>8. ackPc' \in {"state", "ack"} => Answered(ackPacket)'
  <2>1. PICK a : a = ackPacket
    OBVIOUS
  <2>2. Answered(a)' => Answered(ackPacket)'
    BY <1>1, <2>1 DEF Answered
  <2> QED BY <1>1, <1>3, <2>1, <2>2 DEF HandInv
<1>9. /\ mainPc' = "prompt" \/ (mainPc' \in {"window", "number"} /\ kind' # "Data") => first' = Len(log')
      /\ mainPc' = "wait" /\ state' = Granted(kind)' => first' = Len(log') /\ peerKnown'
  <2>1. Granted(kind)' = Granted(kind)
    BY <1>1 DEF Granted, StateAcked, get_ack_kind
  <2> QED BY <1>1, <1>6, <2>1 DEF HandInv
<1>10. state' = "Sending" => peerKnown' /\ Pushed(first, Len(log))'
  BY <1>1, <1>5 DEF HandInv
<1>11. okSends' # 0 => /\ okSends' = 1 /\ peerKnown' /\ StopTaken'
                       /\ ~ (mainPc' \in {"pool", "wait"} /\ kind' = "DataStop")
  BY <1>1, <1>4 DEF HandInv
<1> QED BY <1>7, <1>8, <1>9, <1>10, <1>11 DEF HandInv

\* The acknowledgements under way after an answer to p.
LEMMA ReplySent ==
  ASSUME TypeInv, NEW p \in Packets, ~ is_ack(p), NEW known, NEW s \in SequenceNumber,
         Reply(known, p.kind, s)
  PROVE  \A a \in ToSet(toSender') :
           a \in ToSet(toSender) \/ (known /\ a.kind = get_ack_kind(p.kind))
<1> DEFINE ack == Packet(get_ack_kind(p.kind), s, NoPayload)
<1>1. ack \in Packets /\ ack.kind = get_ack_kind(p.kind)
  BY AnswerType DEF Packet
<1>2. toSender \in Seq(Packets)
  BY DEF TypeInv, TypeOK
<1>3. CASE known
  <2>1. toSender' \in Sent(toSender, ack)
    BY <1>3 DEF Reply
  <2> HIDE DEF ack
  <2>2. ToSet(toSender') \subseteq ToSet(toSender) \cup {ack}
    BY <1>1, <1>2, <2>1, SentType
  <2> QED BY <1>1, <1>3, <2>2
<1>4. CASE ~ known
  BY <1>4 DEF Reply
<1> QED BY <1>3, <1>4

\* An answer to a packet below the window is an answer to a packet taken.
LEMMA AnswerTaken ==
  ASSUME Roomy, TypeInv, AckInv, UNCHANGED senderVars, NEW p \in ToSet(log), ~ is_ack(p),
         peerKnown', p.kind # "Data" => p.seq < first', first' \in Nat, first' <= Len(log),
         NEW a, a.kind = get_ack_kind(p.kind)
  PROVE  Answered(a)'
<1>1. p.seq \in 0 .. Len(log) - 1 /\ p = log[p.seq + 1]
  BY LogAt DEF AckInv
<1>2. p.kind \in RequestKinds
  BY Bounds, FieldType DEF is_ack, ToSet
<1>3. a.kind # "DataAck" => p.kind # "Data"
  BY DEF get_ack_kind
<1>4. a.kind # "DataAck" => p.seq + 1 \in 1 .. first'
  BY <1>1, <1>3, Bounds
<1>5. log' = log
  BY DEF senderVars
<1>6. a.kind # "DataAck" =>
        \E i \in 1 .. first' : log'[i].kind \in RequestKinds /\ get_ack_kind(log'[i].kind) = a.kind
  BY <1>1, <1>2, <1>4, <1>5
<1> QED BY <1>6 DEF Answered

\* The receiver accepts a packet.
LEMMA HandAccept ==
  ASSUME Roomy, TypeInv, TypeInv', AckInv, MainInv, StateInv, OrderInv, HandInv,
         recvPc = "loop", NEW p \in ToSet(log), Accept(p), UNCHANGED senderVars
  PROVE  HandInv' /\ first' >= first
<1>1. PICK n \in Nat :
        /\ Takes(p, n)
        /\ n = 0 => p.kind = "Data"
        /\ n # 0 => p = log[first + 1]
        /\ \A i \in first + 2 .. first + n : log[i].kind = "Data"
        /\ recvPc' = "yielded" <=> n # 0 /\ p.kind = "DataStop"
  BY SessionAccept
<1>2. /\ first' = first + n /\ first + n <= Len(log)
      /\ n = 0 <=> p.seq # first
  BY <1>1 DEF Takes
<1>3. first' \in Nat /\ first' >= first /\ first' <= Len(log)
  BY <1>2, Bounds
<1>4. /\ log' = log /\ files' = files
      /\ peerKnown => peerKnown'
      /\ ~ is_ack(p)
      /\ Reply(peerKnown', p.kind, IF SelectiveRepeat THEN p.seq ELSE first')
  BY DEF senderVars, Accept
<1>5. p \in Packets /\ (IF SelectiveRepeat THEN p.seq ELSE first') \in SequenceNumber
  <2>1. p \in Packets
    BY Bounds DEF ToSet
  <2>2. first' \in SequenceNumber
    BY <1>3, Bounds DEF SequenceNumber
  <2> QED BY <2>1, <2>2, FieldType
<1>6. p.kind # "Data" => p.seq < first'
  BY <1>1, <1>2, Bounds
<1>7. \A a \in ToSet(toSender') : a \in ToSet(toSender) \/ Answered(a)'
  <2>1. \A a \in ToSet(toSender') :
          a \in ToSet(toSender) \/ (peerKnown' /\ a.kind = get_ack_kind(p.kind))
    BY <1>4, <1>5, ReplySent
  <2> QED BY <1>3, <1>4, <1>6, <2>1, AnswerTaken
<1>8. StopTaken' /\ peerKnown' => Yielded' # <<>>
  <2> SUFFICES ASSUME StopTaken', peerKnown' PROVE Yielded' # <<>>
    OBVIOUS
  <2>1. PICK i \in 1 .. first + n : log[i].kind = "DataStop"
    BY <1>2, <1>4 DEF StopTaken
  <2>2. os' \in Seq(Packets) /\ files \in Seq(Seq(Packets))
    BY DEF TypeInv, TypeOK, ReceiverTypeOK
  <2>3. CASE i \in 1 .. first
    <3>1. StopTaken /\ first # 0
      BY <2>1, <2>3 DEF StopTaken
    <3>2. recvState # "Idle"
      BY <3>1 DEF StateInv, Fresh
    <3>3. files # <<>>
      BY <3>1, <3>2 DEF StateInv, HandInv, Yielded
    <3> QED BY <1>4, <2>2, <3>3, AppendType DEF Yielded
  <2>4. CASE i \notin 1 .. first
    <3>1. i = first + 1 /\ n # 0
      BY <1>1, <2>1, <2>4, Bounds
    <3>2. recvPc' = "yielded"
      BY <1>1, <2>1, <3>1
    <3> QED BY <1>4, <2>2, <3>2, AppendType DEF Yielded
  <2> QED BY <2>3, <2>4
<1> QED BY <1>3, <1>4, <1>7, <1>8, HandForward

\* A step of the receiver keeps the invariant, and its window goes forward.
LEMMA SessionReceiver ==
  ASSUME Roomy, TypeInv, TypeInv', AckInv, SessionInv, ReceiverNext, UNCHANGED senderVars
  PROVE  SessionInv' /\ first' >= first
<1>0. /\ MainInv /\ StateInv /\ PhaseInv /\ OnceInv /\ OrderInv /\ HandInv
      /\ first \in Nat /\ first <= Len(log) /\ NoWrap
  BY Bounds DEF SessionInv
<1>1. log' = log
  BY DEF senderVars
<1>2. MainInv' /\ PhaseInv' /\ OnceInv'
  <2>1. MainInv'
    BY <1>0, MainFrame
  <2>2. UNCHANGED <<mainPc, kind, state, ackPc, ackPacket, script, log>>
    BY DEF senderVars
  <2>3. PhaseInv'
    BY <1>0, <2>2 DEF PhaseInv
  <2>4. OnceInv'
    BY <1>0, <2>2 DEF OnceInv, InCommand
  <2> QED BY <2>1, <2>3, <2>4
<1>3. ASSUME UNCHANGED <<skipped, second, first, recvBuffer>>, Written' = Written
      PROVE  OrderInv'
  BY <1>0, <1>1, <1>3 DEF OrderInv
<1>4. ASSUME UNCHANGED <<first, peerKnown>>, Yielded' = Yielded,
             \A a \in ToSet(toSender') : a \in ToSet(toSender) \/ Answered(a)'
      PROVE  HandInv' /\ first' >= first
  <2>1. StopTaken' => StopTaken
    BY <1>1, <1>4 DEF StopTaken
  <2>2. StopTaken' /\ peerKnown' => Yielded' # <<>>
    BY <1>0, <1>4, <2>1 DEF HandInv
  <2>3. first' \in Nat /\ first' >= first /\ first' <= Len(log)
    BY <1>0, <1>4
  <2>4. HandInv'
    BY <1>0, <1>4, <2>2, <2>3, HandForward
  <2> QED BY <2>3, <2>4
<1>5. CASE ReceivePacket
  <2>1. PICK i \in Deliverable(toReceiver) :
          /\ toReceiver' \in Received(toReceiver, i)
          /\ \/ IgnoreAck(toReceiver[i])
             \/ AckDuplicate(toReceiver[i])
             \/ RefuseBeyond(toReceiver[i])
             \/ Accept(toReceiver[i])
    BY <1>5 DEF ReceivePacket
  <2> DEFINE p == toReceiver[i]
  <2>2. p \in ToSet(log) /\ p \in Packets /\ recvPc = "loop"
    <3>1. p \in ToSet(toReceiver) /\ p \in Packets
      BY <2>1, ReceivedType DEF TypeInv, TypeOK
    <3> QED BY <1>5, <3>1 DEF AckInv, Intact, ReceivePacket
  <2> HIDE DEF p
  <2>3. CASE Accept(p)
    <3>1. StateInv'
      BY <1>0, <2>2, <2>3, SessionAccept
    <3>2. OrderInv' /\ HandInv' /\ first' >= first
      BY <1>0, <2>2, <2>3, OrderAccept, HandAccept
    <3> QED BY <1>2, <3>1, <3>2 DEF SessionInv
  <2>4. ASSUME UNCHANGED receiverVars, recvState = "Idle" => UNCHANGED toSender,
               \A a \in ToSet(toSender') : a \in ToSet(toSender) \/ Answered(a)'
        PROVE  SessionInv' /\ first' >= first
    <3>1. UNCHANGED <<recvPc, recvState, first, second, peerKnown, recvBuffer, os, files, skipped>>
      BY <2>4 DEF receiverVars
    <3>2. Written' = Written /\ Yielded' = Yielded
      BY <3>1 DEF Written, Yielded
    <3>3. StateInv'
      BY <1>0, <2>4, <3>1, StateFrame
    <3> QED BY <1>2, <1>3, <1>4, <2>4, <3>1, <3>2, <3>3 DEF SessionInv
  <2>5. CASE IgnoreAck(p)
    BY <2>4, <2>5 DEF IgnoreAck
  <2>6. CASE AckDuplicate(p)
    <3>1. /\ UNCHANGED receiverVars /\ ~ is_ack(p) /\ recvState # "Idle" /\ p.seq < first
          /\ Reply(peerKnown, p.kind, IF SelectiveRepeat THEN p.seq ELSE first)
      BY <2>6 DEF AckDuplicate, Below
    <3>2. (IF SelectiveRepeat THEN p.seq ELSE first) \in SequenceNumber
      BY <2>2, FieldType DEF TypeInv, TypeOK, ReceiverTypeOK
    <3>3. \A a \in ToSet(toSender') :
            a \in ToSet(toSender) \/ (peerKnown /\ a.kind = get_ack_kind(p.kind))
      BY <2>2, <3>1, <3>2, ReplySent
    <3>4. first' = first /\ peerKnown' = peerKnown
      BY <3>1 DEF receiverVars
    <3>5. p.seq < first' /\ first' \in Nat /\ first' <= Len(log)
      BY <1>0, <3>1, <3>4
    <3>6. \A a \in ToSet(toSender') : a \in ToSet(toSender) \/ Answered(a)'
      BY <2>2, <3>1, <3>3, <3>4, <3>5, AnswerTaken
    <3> QED BY <2>4, <3>1, <3>6
  <2>7. CASE RefuseBeyond(p)
    <3>1. /\ UNCHANGED receiverVars /\ ~ is_ack(p) /\ recvState # "Idle"
          /\ ~ Below(p) /\ Beyond(p)
          /\ Reply(peerKnown /\ ~ SelectiveRepeat, p.kind, first)
      BY <2>7 DEF RefuseBeyond, Beyond
    <3>2. p.kind = "Data"
      BY <1>0, <2>2, <3>1, RequestInWindow
    <3>3. first \in SequenceNumber
      BY DEF TypeInv, TypeOK, ReceiverTypeOK
    <3>4. \A a \in ToSet(toSender') :
            a \in ToSet(toSender) \/ (peerKnown /\ a.kind = get_ack_kind(p.kind))
      BY <2>2, <3>1, <3>3, ReplySent
    <3>5. first' = first /\ peerKnown' = peerKnown
      BY <3>1 DEF receiverVars
    <3>6. first' \in Nat /\ first' <= Len(log)
      BY <1>0, <3>5
    <3>7. \A a \in ToSet(toSender') : a \in ToSet(toSender) \/ Answered(a)'
      BY <2>2, <3>1, <3>2, <3>4, <3>5, <3>6, AnswerTaken
    <3> QED BY <2>4, <3>1, <3>7
  <2> QED BY <2>1, <2>3, <2>5, <2>6, <2>7 DEF p
<1>6. CASE ReceiveFatal
  <2>1. /\ UNCHANGED <<recvState, first, second, peerKnown, recvBuffer, os, files, skipped, toSender>>
        /\ recvPc = "loop" /\ recvPc' = "ended"
    BY <1>6 DEF ReceiveFatal, netVars
  <2>2. StateInv' /\ Written' = Written /\ Yielded' = Yielded
    BY <1>0, <2>1, StateFrame DEF Written, Yielded
  <2> QED BY <1>2, <1>3, <1>4, <2>1, <2>2 DEF SessionInv
<1>7. CASE SaveFile
  <2>1. /\ UNCHANGED <<recvState, first, second, peerKnown, recvBuffer, skipped, toSender>>
        /\ recvPc = "yielded" /\ recvPc' = "loop" /\ files' = Append(files, os)
    BY <1>7 DEF SaveFile, netVars
  <2>2. StateInv'
    BY <1>0, <2>1, StateFrame
  <2>3. Written' = Written
    <3>1. files \in Seq(Seq(Packets)) /\ os \in Seq(Packets)
      BY DEF SessionInv, MainInv, TypeInv, TypeOK, ReceiverTypeOK
    <3> QED BY <1>7, <3>1, SaveKeeps DEF Written
  <2>4. Yielded' = Yielded
    BY <2>1 DEF Yielded
  <2> QED BY <1>2, <1>3, <1>4, <2>1, <2>2, <2>3, <2>4 DEF SessionInv
<1> QED BY <1>5, <1>6, <1>7 DEF ReceiverNext

-----------------------------------------------------------------------------
(* What the sender knows about the receiver: the sender's steps.           *)

\* When everything is acknowledged, the receiver has taken it all: it would
\* otherwise have to have the packet at the lower end of its window.
LEMMA AllTaken ==
  ASSUME Roomy, TypeInv, AckInv, OrderInv, lower = upper
  PROVE  first = Len(log)
<1>1. lower = Len(log) /\ \A s \in 0 .. lower - 1 : Has(s)
  BY DEF AckInv, WindowOK, SenderTruthful
<1>2. ASSUME first # Len(log) PROVE FALSE
  <2>1. first \in 0 .. lower - 1
    BY <1>1, <1>2, Bounds
  <2>2. first \in SeqsOf(Kept)
    BY <1>1, <2>1 DEF Has, OrderInv
  <2>3. PICK q \in recvBuffer \cup Written : q.seq = first
    BY <2>2 DEF SeqsOf, Kept, Written
  <2> QED BY <2>3, Bounds DEF OrderInv
<1> QED BY <1>2

\* What a step of the sender does not change of what the receiver took.
LEMMA HandFrame ==
  ASSUME Roomy, TypeInv, AckInv, SenderNext, UNCHANGED receiverVars
  PROVE  /\ first' = first /\ peerKnown' = peerKnown /\ Yielded' = Yielded
         /\ \A a : Answered(a)' <=> Answered(a)
         /\ StopTaken' <=> StopTaken
<1>1. UNCHANGED <<first, peerKnown, recvPc, os, files>>
  BY DEF receiverVars
<1>2. \A i \in 1 .. first : log'[i] = log[i]
  <2>1. \A i \in 1 .. first : i \in 1 .. Len(log)
    BY Bounds
  <2> QED BY <2>1, LogGrows
<1> QED BY <1>1, <1>2 DEF Answered, StopTaken, Yielded

\* The main thread.
LEMMA HandMain ==
  ASSUME Roomy, TypeInv, AckInv, SessionInv, MainNext, UNCHANGED receiverVars
  PROVE  HandInv'
<1> USE Kinds
<1>0. /\ kind \in {"Data", "DataPush", "DataStop", "ConnReq", "DisconnReq"}
      /\ MainInv /\ PhaseInv /\ OnceInv /\ OrderInv /\ HandInv
      /\ Len(log) \in Nat /\ log \in Seq(Packets)
  BY Bounds DEF TypeInv, TypeOK, SenderTypeOK, RequestKinds, SessionInv
<1>1. /\ first' = first /\ peerKnown' = peerKnown /\ Yielded' = Yielded
      /\ \A a : Answered(a)' <=> Answered(a)
      /\ StopTaken' <=> StopTaken
  BY HandFrame DEF SenderNext
<1>2. UNCHANGED <<ackPc, ackPacket, toSender>>
  BY DEF MainNext, ackVars, netVars
<1>3. /\ \A a \in ToSet(toSender') : Answered(a)'
      /\ ackPc' \in {"state", "ack"} => Answered(ackPacket)'
      /\ StopTaken' /\ peerKnown' => Yielded' # <<>>
  <2>1. PICK b : b = ackPacket
    OBVIOUS
  <2>2. Answered(ackPacket)' <=> Answered(b)'
    BY <1>2, <2>1 DEF Answered
  <2> QED BY <1>0, <1>1, <1>2, <2>1, <2>2 DEF HandInv
<1>4. log' = log => (Pushed(first, Len(log))' <=> Pushed(first, Len(log)))
  BY <1>1 DEF Pushed
<1>5. kind' = kind => Granted(kind)' = Granted(kind)
  BY DEF Granted, StateAcked, get_ack_kind
<1>6. CASE connect \/ send \/ disconnect \/ stop \/ StopTimer \/ join
  <2>1. log' = log /\ okSends' = okSends /\ mainPc' \in {"prompt", "window", "stop", "join", "exited"}
        /\ state' # "Sending" /\ (mainPc' \in {"prompt", "window"} => mainPc = "prompt")
    BY <1>0, <1>6 DEF connect, send, disconnect, stop, StopTimer, join, Typed, StartControl,
                      packetVars, fileVars, PhaseInv
  <2> QED BY <1>0, <1>1, <1>3, <2>1 DEF HandInv
<1>7. CASE TakeSequenceNumber
  <2>1. mainPc = "number" /\ mainPc' = "pool" /\ UNCHANGED <<kind, state, okSends>>
    BY <1>7 DEF TakeSequenceNumber, fileVars
  <2>2. state' = "Sending" => kind = "Data"
    BY <1>0, <2>1 DEF PhaseInv
  <2>3. NewPacket \in Packets /\ NewPacket.kind = kind
    <3>1. (IF kind = "Data" THEN <<file, chunk>> ELSE NoPayload) \in Nat \X Nat
      BY DEF NoPayload, TypeInv, TypeOK, SenderTypeOK
    <3> QED BY <3>1, PacketType DEF NewPacket, TypeInv, TypeOK, SenderTypeOK
  <2>4. /\ Len(log') = Len(log) + 1
        /\ \A i \in 1 .. Len(log) : log'[i] = log[i]
        /\ log'[Len(log) + 1].kind = kind
    BY <1>0, <1>7, <2>3, AppendType DEF TakeSequenceNumber
  <2>5. state' = "Sending" => peerKnown' /\ Pushed(first, Len(log))'
    <3> SUFFICES ASSUME state' = "Sending" PROVE peerKnown' /\ Pushed(first, Len(log))'
      OBVIOUS
    <3>1. peerKnown /\ Pushed(first, Len(log))
      BY <1>0, <2>1 DEF HandInv
    <3>2. PICK i \in 1 .. first : /\ log[i].kind = "DataPush"
                                  /\ \A j \in i + 1 .. Len(log) : log[j].kind = "Data"
      BY <3>1 DEF Pushed
    <3>3. i \in 1 .. Len(log) /\ \A j \in i + 1 .. Len(log) + 1 :
            (j \in i + 1 .. Len(log) /\ j \in 1 .. Len(log)) \/ j = Len(log) + 1
      BY Bounds
    <3>4. \A j \in i + 1 .. Len(log') : log'[j].kind = "Data"
      BY <2>2, <2>4, <3>2, <3>3
    <3>5. log'[i].kind = "DataPush"
      BY <2>4, <3>2, <3>3
    <3> QED BY <1>1, <3>1, <3>4, <3>5 DEF Pushed
  <2>6. okSends # 0 => kind # "DataStop"
    <3> SUFFICES ASSUME okSends # 0 PROVE kind # "DataStop"
      OBVIOUS
    <3>1. PICK i \in 1 .. first : log[i].kind = "DataStop"
      BY <1>0 DEF HandInv, StopTaken
    <3>2. i \in 1 .. Len(log)
      BY Bounds
    <3> QED BY <1>0, <2>1, <3>1, <3>2 DEF OnceInv
  <2> QED BY <1>0, <1>1, <1>3, <2>1, <2>5, <2>6 DEF HandInv
<1>8. CASE FindRoom \/ GiveUpWindow
  <2>1. CASE FindRoom
    <3>1. /\ UNCHANGED <<kind, state, log, okSends>>
          /\ mainPc = "window" /\ mainPc' = "number"
      BY <2>1 DEF FindRoom, packetVars, fileVars
    <3> QED BY <1>0, <1>1, <1>3, <1>4, <3>1 DEF HandInv
  <2>2. CASE GiveUpWindow
    BY <1>0, <2>2 DEF GiveUpWindow, MainInv
  <2> QED BY <1>8, <2>1, <2>2
<1>9. CASE Enqueue
  <2>1. /\ mainPc = "pool" /\ mainPc' = (IF kind = "Data" THEN "data" ELSE "wait")
        /\ UNCHANGED <<kind, state, okSends, log>>
    BY <1>9 DEF Enqueue, fileVars
  <2>2. mainPc' = "wait" => state' # Granted(kind)'
    BY <1>0, <1>5, <2>1 DEF PhaseInv
  <2> QED BY <1>0, <1>1, <1>3, <1>4, <2>1, <2>2 DEF HandInv
<1>10. CASE WaitState
  <2>1. /\ mainPc = "wait" /\ UNCHANGED <<kind, state, log>>
        /\ state = Granted(kind)
        /\ mainPc' = IF kind = "DataPush" THEN "data" ELSE "prompt"
        /\ okSends' = IF kind = "DataStop" THEN okSends + 1 ELSE okSends
    BY <1>0, <1>10 DEF WaitState, PhaseInv, packetVars
  <2>2. first = Len(log) /\ peerKnown
    BY <1>0, <2>1 DEF HandInv
  <2>3. kind = "DataStop" => okSends = 0 /\ StopTaken
    <3>1. log # <<>> /\ log[Len(log)].kind = kind
      BY <1>0, <2>1 DEF MainInv
    <3>2. Len(log) \in 1 .. Len(log)
      BY <1>0, <3>1, LastType
    <3> QED BY <1>0, <2>1, <2>2, <3>1, <3>2 DEF StopTaken, HandInv
  <2>4. okSends' # 0 => okSends' = 1 /\ peerKnown /\ StopTaken
    BY <1>0, <2>1, <2>2, <2>3 DEF HandInv
  <2> QED BY <1>0, <1>1, <1>3, <1>4, <2>1, <2>2, <2>4 DEF HandInv
<1>11. CASE NextChunk
  <2>1. /\ UNCHANGED <<state, okSends, log>>
        /\ mainPc' \in {"window", "drain"}
        /\ mainPc' = "window" => kind' = "Data"
    BY <1>11 DEF NextChunk, packetVars
  <2> QED BY <1>0, <1>1, <1>3, <1>4, <2>1 DEF HandInv
<1>12. CASE Drain
  <2>1. UNCHANGED <<okSends, log>> /\ running
    BY <1>0, <1>12 DEF Drain, packetVars, fileVars, MainInv
  <2>2. \/ WindowZero /\ state' = "Stopping" /\ kind' = "DataStop" /\ mainPc' = "window"
        \/ UNCHANGED <<kind, state>> /\ mainPc' = "crashed"
    BY <1>12, <2>1 DEF Drain, StartControl
  <2>3. mainPc' = "window" => first = Len(log)
    BY <1>0, <2>2, AllTaken DEF WindowZero
  <2> QED BY <1>0, <1>1, <1>3, <1>4, <2>1, <2>2, <2>3 DEF HandInv
<1> QED BY <1>6, <1>7, <1>8, <1>9, <1>10, <1>11, <1>12 DEF MainNext

\* The other threads.
LEMMA HandThreads ==
  ASSUME Roomy, TypeInv, AckInv, SessionInv, UNCHANGED receiverVars,
         SendNext \/ AckNext \/ TimerNext \/ TimeoutNext
  PROVE  HandInv'
<1> USE Kinds
<1>0. /\ kind \in {"Data", "DataPush", "DataStop", "ConnReq", "DisconnReq"}
      /\ MainInv /\ PhaseInv /\ OnceInv /\ OrderInv /\ HandInv
      /\ Len(log) \in Nat /\ log \in Seq(Packets)
  BY Bounds DEF TypeInv, TypeOK, SenderTypeOK, RequestKinds, SessionInv
<1>1. /\ first' = first /\ peerKnown' = peerKnown /\ Yielded' = Yielded
      /\ \A a : Answered(a)' <=> Answered(a)
      /\ StopTaken' <=> StopTaken
  BY HandFrame DEF SenderNext
<1>2. ASSUME NEW a, a = ackPacket', Answered(a) PROVE Answered(ackPacket)'
  BY <1>1, <1>2 DEF Answered
<1>3. ASSUME UNCHANGED <<log, kind, okSends, state>>, mainPc' \in {mainPc, "crashed"},
             \A a \in ToSet(toSender') : a \in ToSet(toSender),
             ackPc' \in {"state", "ack"} => Answered(ackPacket)'
      PROVE  HandInv'
  <2>1. Granted(kind)' = Granted(kind)
    BY <1>3 DEF Granted, StateAcked, get_ack_kind
  <2>2. Pushed(first, Len(log))' <=> Pushed(first, Len(log))
    BY <1>1, <1>3 DEF Pushed
  <2>3. /\ \A a \in ToSet(toSender') : Answered(a)'
        /\ StopTaken' /\ peerKnown' => Yielded' # <<>>
    BY <1>0, <1>1, <1>3 DEF HandInv
  <2> QED BY <1>0, <1>1, <1>3, <2>1, <2>2, <2>3 DEF HandInv
<1>4. ASSUME UNCHANGED <<ackPc, ackPacket>>
      PROVE  ackPc' \in {"state", "ack"} => Answered(ackPacket)'
  BY <1>0, <1>2, <1>4 DEF HandInv
<1>5. CASE SendNext
  <2>1. UNCHANGED <<log, kind, okSends, mainPc, toSender, ackPc, ackPacket>>
    BY <1>5 DEF SendNext, mainVars, fileVars, ackVars
  <2>2. state' = state
    BY <1>0, <1>5 DEF SendNext, Pop, SendExit, CleanUp, SkipEmptyWindow, Transmit, Exhaust,
                      GiveUpPacket, MainInv
  <2> QED BY <1>3, <1>4, <2>1, <2>2
<1>6. CASE TimerNext \/ TimeoutNext
  <2>1. UNCHANGED <<log, kind, okSends, mainPc, toSender, ackPc, ackPacket, state>>
    BY <1>6 DEF TimerNext, TimeoutNext, TimeoutFrame, mainVars, fileVars, ackVars, netVars
  <2> QED BY <1>3, <1>4, <2>1
<1>7. CASE AckNext
  <2>1. CASE ReceiveAck
    <3>1. UNCHANGED <<log, kind, okSends, mainPc, state>>
      BY <2>1 DEF ReceiveAck, mainVars, fileVars
    <3>2. PICK i \in Deliverable(toSender) :
            /\ toSender' \in Received(toSender, i)
            /\ ackPacket' = toSender[i]
      BY <2>1 DEF ReceiveAck
    <3>3. toSender[i] \in ToSet(toSender) /\ ToSet(toSender') \subseteq ToSet(toSender)
      BY <3>2, ReceivedType DEF TypeInv, TypeOK
    <3>4. Answered(toSender[i])
      BY <1>0, <3>3 DEF HandInv
    <3>5. Answered(ackPacket)'
      BY <1>2, <3>2, <3>4
    <3> QED BY <1>3, <3>1, <3>3, <3>5
  <2>2. CASE SetState
    <3>1. UNCHANGED <<log, kind, okSends, mainPc, toSender, ackPacket>> /\ ackPc = "state"
      BY <2>2 DEF SetState, mainVars, fileVars
    <3>2. /\ mainPc = "wait" /\ kind # "Data"
          /\ state' = Granted(kind)
          /\ ackPacket.kind = get_ack_kind(kind) /\ ackPacket.kind # "DataAck"
      BY <1>0, <1>7, <2>2, SetStateWaits DEF AckNext
    <3>3. PICK i \in 1 .. first : /\ log[i].kind \in RequestKinds
                                  /\ get_ack_kind(log[i].kind) = get_ack_kind(kind)
      BY <1>0, <3>1, <3>2 DEF HandInv, Answered
    <3>4. log[i].kind = kind
      BY <1>0, <3>3 DEF RequestKinds, get_ack_kind
    <3>5. log # <<>> /\ log[Len(log)].kind = kind
      BY <1>0, <3>2 DEF MainInv
    <3>6. Len(log) \in 1 .. Len(log) /\ i \in 1 .. Len(log)
      BY <1>0, <3>5, LastType, Bounds
    <3>7. i = Len(log)
      BY <1>0, <3>2, <3>4, <3>5, <3>6 DEF OnceInv
    <3>8. first = Len(log)
      BY <3>7, Bounds
    <3>9. peerKnown
      BY <1>0, <3>1 DEF HandInv, Answered
    <3>10. state' = "Sending" => Pushed(first, Len(log))'
      <4>1. state' = "Sending" => kind = "DataPush"
        BY <1>0, <3>2
      <4>2. i + 1 .. Len(log) = {}
        BY <1>0, <3>7
      <4> QED BY <1>1, <3>1, <3>4, <4>1, <4>2 DEF Pushed
    <3>11. ackPc' \in {"state", "ack"} => Answered(ackPacket)'
      BY <1>0, <1>2, <3>1 DEF HandInv
    <3>12. /\ \A a \in ToSet(toSender') : Answered(a)'
           /\ StopTaken' /\ peerKnown' => Yielded' # <<>>
      BY <1>0, <1>1, <3>1 DEF HandInv
    <3> QED BY <1>0, <1>1, <3>1, <3>2, <3>8, <3>9, <3>10, <3>11, <3>12 DEF HandInv
  <2>3. CASE HandleAck \/ AckExit
    <3>1. UNCHANGED <<log, kind, okSends, mainPc, state, toSender>> /\ ackPc' \notin {"state", "ack"}
      BY <2>3 DEF HandleAck, AckExit, mainVars, fileVars, LoopOrExit
    <3> QED BY <1>3, <3>1
  <2>4. CASE AckFatal
    <3>1. /\ UNCHANGED <<log, kind, okSends, state, toSender, ackPc, ackPacket>>
          /\ mainPc' = "crashed"
      BY <2>4 DEF AckFatal, ackVars, fileVars
    <3> QED BY <1>3, <1>4, <3>1
  <2> QED BY <1>7, <2>1, <2>2, <2>3, <2>4 DEF AckNext
<1> QED BY <1>5, <1>6, <1>7

\* The sender makes a request only when everything before it was taken.
LEMMA OrderSender ==
  ASSUME Roomy, TypeInv, AckInv, SessionInv, SenderNext, UNCHANGED receiverVars
  PROVE  OrderInv'
<1>1. UNCHANGED <<first, second, recvBuffer, os, files, skipped>>
  BY DEF receiverVars
<1>2. OrderInv /\ HandInv /\ first \in Nat
  BY Bounds DEF SessionInv
<1>3. Written' = Written
  BY <1>1 DEF Written
<1>4. \A i \in 1 .. Len(log') : log'[i].kind # "Data" => i - 1 <= first
  <2>1. CASE log' = log
    BY <1>2, <2>1 DEF OrderInv
  <2>2. CASE TakeSequenceNumber
    <3>1. NewPacket \in Packets /\ NewPacket.kind = kind
      <4>1. (IF kind = "Data" THEN <<file, chunk>> ELSE NoPayload) \in Nat \X Nat
        BY DEF NoPayload, TypeInv, TypeOK, SenderTypeOK
      <4> QED BY <4>1, PacketType DEF NewPacket, TypeInv, TypeOK, SenderTypeOK
    <3>2. /\ Len(log') = Len(log) + 1
          /\ \A i \in 1 .. Len(log) : log'[i] = log[i]
          /\ log'[Len(log) + 1].kind = kind
      BY <2>2, <3>1, AppendType, Bounds DEF TakeSequenceNumber
    <3>3. kind # "Data" => first = Len(log)
      BY <1>2, <2>2 DEF TakeSequenceNumber, HandInv
    <3>4. \A i \in 1 .. Len(log') : i \in 1 .. Len(log) \/ i = Len(log) + 1
      BY <3>2, Bounds
    <3>5. kind # "Data" => (Len(log) + 1) - 1 <= first
      BY <1>2, <3>3, Bounds
    <3> QED BY <1>2, <3>2, <3>4, <3>5 DEF OrderInv
  <2>3. MainNext => TakeSequenceNumber \/ log' = log
    BY DEF MainNext, connect, send, disconnect, stop, StopTimer, join, FindRoom,
           GiveUpWindow, Enqueue, WaitState, NextChunk, Drain, packetVars
  <2>4. SendNext \/ TimerNext \/ TimeoutNext => log' = log
    BY DEF SendNext, TimerNext, TimeoutNext, TimeoutFrame, mainVars
  <2>5. AckNext => log' = log
    BY DEF AckNext, ReceiveAck, SetState, HandleAck, AckExit, AckFatal, mainVars
  <2> QED BY <2>1, <2>2, <2>3, <2>4, <2>5 DEF SenderNext
<1> QED BY <1>1, <1>2, <1>3, <1>4 DEF OrderInv

-----------------------------------------------------------------------------
(* The session.                                                            *)

\* The hypotheses of the theorems: nothing is typed twice, no packet is given
\* up, and sequence numbers do not run out.
Session == /\ Roomy
           /\ MaxRetry = Unlimited
           /\ \A c \in Scripts : TypedOnce(c)

LEMMA SessionInit == ASSUME Session PROVE Init => SessionInv
<1> SUFFICES ASSUME Init PROVE SessionInv
  OBVIOUS
<1>1. log = <<>> /\ Len(<<>>) = 0 /\ first = 0
  BY DEF Init, SenderInit, ReceiverInit
<1>2. PhaseInv
  BY DEF Init, SenderInit, PhaseInv
<1>3. OnceInv
  BY <1>1 DEF Init, SenderInit, OnceInv, InCommand, Session
<1>4. OrderInv
  <2>1. Plus(0, RecvWindow) = RecvWindow
    BY ReceiverAssumption, PacketAssumption DEF Plus
  <2>2. Written = {}
    BY DEF Init, ReceiverInit, Written, ToSet
  <2> QED BY <1>1, <2>1, <2>2 DEF Init, ReceiverInit, OrderInv
<1>5. HandInv
  <2>1. ToSet(toSender) = {}
    BY DEF Init, ToSet
  <2>2. ~ StopTaken
    BY <1>1 DEF StopTaken
  <2> QED BY <1>1, <2>1, <2>2 DEF Init, SenderInit, HandInv
<1> QED BY <1>2, <1>3, <1>4, <1>5, StateInit DEF SessionInv

\* SessionInv with the types and AckInv is inductive, and both windows of the
\* session go forward.
LEMMA SessionInductive ==
  ASSUME Session
  PROVE  /\ TypeInv /\ AckInv /\ SessionInv /\ [Next]_vars =>
              TypeInv' /\ AckInv' /\ SessionInv' /\ lower' >= lower /\ first' >= first
         /\ Init => TypeInv /\ AckInv /\ SessionInv
<1>1. ASSUME TypeInv, AckInv, SessionInv, [Next]_vars
      PROVE  TypeInv' /\ AckInv' /\ SessionInv' /\ lower' >= lower /\ first' >= first
  <2> USE <1>1
  <2>0. /\ Roomy /\ MaxRetry = Unlimited /\ NoWrap /\ first \in Nat
        /\ MainInv /\ StateInv /\ PhaseInv /\ OnceInv /\ OrderInv /\ HandInv
    BY Bounds DEF Session, SessionInv
  <2>1. TypeInv' /\ AckInv' /\ lower' >= lower
    BY <2>0, AckInductive, LowerForward
  <2>2. CASE SenderNext /\ UNCHANGED receiverVars
    <3>1. MainInv' /\ PhaseInv' /\ OnceInv' /\ HandInv'
      <4>1. CASE MainNext
        BY <2>0, <2>2, <4>1, MainMain, PhaseMain, OnceMain, HandMain
      <4>2. CASE SendNext \/ AckNext \/ TimerNext \/ TimeoutNext
        BY <2>0, <2>2, <4>2, MainThreads, PhaseThreads, OnceThreads, HandThreads
      <4> QED BY <2>2, <4>1, <4>2 DEF SenderNext
    <3>2. StateInv' /\ OrderInv'
      BY <2>0, <2>2, StateSender, OrderSender
    <3>3. first' = first
      BY <2>2 DEF receiverVars
    <3> QED BY <2>0, <2>1, <3>1, <3>2, <3>3 DEF SessionInv
  <2>3. CASE ReceiverNext /\ UNCHANGED senderVars
    BY <2>0, <2>1, <2>3, SessionReceiver
  <2>4. CASE UNCHANGED vars
    <3>1. UNCHANGED senderVars /\ UNCHANGED receiverVars /\ toSender' = toSender
      BY <2>4 DEF vars, netVars
    <3>2. /\ UNCHANGED <<recvPc, recvState, first, second, peerKnown, recvBuffer, os, files, skipped>>
          /\ UNCHANGED <<mainPc, kind, state, ackPc, ackPacket, script, log>>
      BY <3>1 DEF senderVars, receiverVars
    <3>3. MainInv' /\ StateInv'
      BY <2>0, <3>1, <3>2, MainFrame, StateFrame
    <3>4. PhaseInv' /\ OnceInv'
      BY <2>0, <3>2 DEF PhaseInv, OnceInv, InCommand
    <3>5. Written' = Written /\ Yielded' = Yielded /\ (StopTaken' <=> StopTaken)
      BY <3>2 DEF Written, Yielded, StopTaken
    <3>6. OrderInv'
      BY <2>0, <3>2, <3>5 DEF OrderInv
    <3>7. first' \in Nat /\ first' >= first /\ first' <= Len(log)
      BY <2>0, <3>2, Bounds
    <3>8. StopTaken' /\ peerKnown' => Yielded' # <<>>
      BY <2>0, <3>2, <3>5 DEF HandInv
    <3>9. HandInv'
      BY <2>0, <3>1, <3>2, <3>7, <3>8, HandForward
    <3> QED BY <2>1, <3>3, <3>4, <3>6, <3>7, <3>9 DEF SessionInv
  <2> QED BY <2>2, <2>3, <2>4 DEF Next, Idle
<1> QED BY <1>1, TypeInit, AckInit, SessionInit

\* While the sender is in the data phase the receiver is in it too: the
\* answer to DataPush comes from a receiver that took it, and no later request
\* is made before the data phase is over.
THEOREM SessionInStep == ASSUME Session PROVE Spec => []InStep
<1>1. TypeInv /\ AckInv /\ SessionInv => InStep
  <2> SUFFICES ASSUME TypeInv, AckInv, SessionInv, state = "Sending"
               PROVE  recvState = "Receiving"
    BY DEF InStep
  <2>1. peerKnown /\ Pushed(first, Len(log)) /\ StateInv
    BY DEF SessionInv, HandInv
  <2>2. \A i : \A j \in i + 1 .. first : i \in Int => j \in i + 1 .. Len(log)
    BY Bounds DEF Session
  <2>3. Pushed(first, first)
    BY <2>1, <2>2 DEF Pushed
  <2> QED BY <2>1, <2>3 DEF StateInv
<1> QED BY <1>1, SessionInductive, PTL DEF Spec

\* When send() has returned success the client has the file or is about to be
\* given it: its DataStop was sent after every chunk was acknowledged, and the
\* receiver that answered it has taken and yielded what comes before it.
THEOREM SessionDelivered == ASSUME Session PROVE Spec => []Delivered
<1>1. TypeInv /\ SessionInv => Delivered
  <2> SUFFICES ASSUME TypeInv, SessionInv PROVE okSends <= Len(Yielded)
    BY DEF Delivered
  <2>1. okSends \in Nat /\ files \in Seq(Seq(Packets)) /\ os \in Seq(Packets)
    BY DEF TypeInv, TypeOK, SenderTypeOK, ReceiverTypeOK
  <2>2. Yielded \in Seq(Seq(Packets))
    BY <2>1, AppendType DEF Yielded
  <2>3. okSends # 0 => okSends = 1 /\ Yielded # <<>>
    BY DEF SessionInv, HandInv
  <2> QED BY <2>1, <2>2, <2>3, LastType, LenProperties
<1> QED BY <1>1, SessionInductive, PTL DEF Spec

\* After the slide loop the buffer does not hold the packet at the lower end of
\* the window: looking at the first element of the set was enough, because
\* nothing below the window is ever in it.
THEOREM SessionNextMissing == ASSUME Session PROVE Spec => []NextIsMissing
<1>1. TypeInv /\ AckInv /\ SessionInv => NextIsMissing
  <2> SUFFICES ASSUME TypeInv, AckInv, SessionInv, NEW q \in recvBuffer, q.seq = first PROVE FALSE
    BY DEF NextIsMissing, SeqsOf
  <2>1. q.seq > first
    BY DEF SessionInv, OrderInv
  <2>2. first \in Nat
    BY Bounds DEF Session
  <2> QED BY <2>1, <2>2
<1> QED BY <1>1, SessionInductive, PTL DEF Spec

\* Neither window moves back, with any window sizes: no connection request
\* comes late, since the receiver took it before anything else was sent.
THEOREM SessionNeverBack == ASSUME Session PROVE Spec => NeverBack
<1>1. TypeInv /\ AckInv /\ SessionInv /\ [Next]_vars => [lower' >= lower /\ first' >= first]_vars
  BY SessionInductive
<1> QED BY <1>1, SessionInductive, PTL DEF Spec, NeverBack


-----------------------------------------------------------------------------
(* The stream of files, with receive windows of any size.                  *)

\* A step of the receiver takes what is in order, or is none of the stream.
LEMMA SessionGets ==
  ASSUME Roomy, TypeInv, AckInv, SessionInv, ReceiverNext, UNCHANGED senderVars
  PROVE  Stream!Get \/ UNCHANGED <<Queue, Arrived, Yielded>>
<1>1. /\ log' = log /\ os \in Seq(Packets) /\ NoWrap
      /\ MainInv /\ StateInv /\ OrderInv
  BY Bounds DEF senderVars, SessionInv, TypeInv, TypeOK, ReceiverTypeOK
<1>2. CASE ReceivePacket
  <2>1. PICK i \in Deliverable(toReceiver) :
          /\ toReceiver' \in Received(toReceiver, i)
          /\ \/ IgnoreAck(toReceiver[i])
             \/ AckDuplicate(toReceiver[i])
             \/ RefuseBeyond(toReceiver[i])
             \/ Accept(toReceiver[i])
    BY <1>2 DEF ReceivePacket
  <2>2. PICK p : p = toReceiver[i]
    OBVIOUS
  <2>3. p \in ToSet(log) /\ recvPc = "loop"
    <3>1. p \in ToSet(toReceiver)
      BY <2>1, <2>2, ReceivedType DEF TypeInv, TypeOK
    <3> QED BY <1>2, <3>1 DEF AckInv, Intact, ReceivePacket
  <2>4. CASE IgnoreAck(p) \/ AckDuplicate(p) \/ RefuseBeyond(p)
    <3>1. UNCHANGED <<recvPc, first, os, files>>
      BY <2>4 DEF IgnoreAck, AckDuplicate, RefuseBeyond, receiverVars
    <3> QED BY <1>1, <3>1 DEF Queue, Arrived, Yielded
  <2>5. CASE Accept(p)
    <3>1. PICK n \in Nat :
            /\ Takes(p, n)
            /\ n # 0 => p = log[first + 1]
            /\ \A j \in first + 2 .. first + n : log[j].kind = "Data"
            /\ recvPc' = "yielded" <=> n # 0 /\ p.kind = "DataStop"
      BY <1>1, <2>3, <2>5, SessionAccept
    <3>2. files' = files
      BY <2>5 DEF Accept
    <3>3. CASE n # 0
      BY <1>1, <2>3, <3>1, <3>2, <3>3, TakesGets
    <3>4. CASE n = 0
      <4>1. first' = first /\ recvPc' # "yielded"
        BY <3>1, <3>4, Bounds DEF Takes
      <4>2. [j \in 1 .. 0 |-> log[first + j]] = <<>>
        OBVIOUS
      <4>3. os' = os
        BY <1>1, <3>1, <3>4, <4>2 DEF Takes
      <4> QED BY <1>1, <2>3, <3>2, <4>1, <4>3 DEF Queue, Arrived, Yielded
    <3> QED BY <3>3, <3>4
  <2> QED BY <2>1, <2>2, <2>4, <2>5
<1>3. CASE ReceiveFatal
  <2>1. UNCHANGED <<first, os, files>> /\ recvPc = "loop" /\ recvPc' = "ended"
    BY <1>3 DEF ReceiveFatal
  <2> QED BY <1>1, <2>1 DEF Queue, Arrived, Yielded
<1>4. CASE SaveFile
  <2>1. /\ first' = first /\ recvPc = "yielded" /\ recvPc' = "loop"
        /\ os' = <<>> /\ files' = Append(files, os)
    BY <1>4 DEF SaveFile
  <2> QED BY <1>1, <2>1 DEF Queue, Arrived, Yielded
<1> QED BY <1>2, <1>3, <1>4 DEF ReceiverNext

\* In a session the two programs implement the stream of files, in both
\* protocols and with windows of any size, whatever the path does to
\* datagrams: what Receiver::recv writes when its window slides over several
\* packets is what send() was given, and a file ends where it was ended.
THEOREM SessionStream == ASSUME Session PROVE Spec => StreamOK
<1>1. TypeInv /\ AckInv /\ SessionInv /\ [Next]_vars =>
        [Stream!Put \/ Stream!Get]_<<Queue, Arrived, Yielded>>
  <2> SUFFICES ASSUME TypeInv, AckInv, SessionInv, [Next]_vars
               PROVE  [Stream!Put \/ Stream!Get]_<<Queue, Arrived, Yielded>>
    OBVIOUS
  <2>1. CASE SenderNext /\ UNCHANGED receiverVars
    BY <2>1, SenderPuts
  <2>2. CASE ReceiverNext /\ UNCHANGED senderVars
    BY <2>2, SessionGets DEF Session
  <2>3. CASE UNCHANGED vars
    <3>1. UNCHANGED <<recvPc, first, os, files, log>>
      BY <2>3 DEF vars, senderVars, receiverVars
    <3> QED BY <3>1 DEF Queue, Arrived, Yielded
  <2> QED BY <2>1, <2>2, <2>3 DEF Next, Idle
<1> QED BY <1>1, StreamStart, SessionInductive, PTL
        DEF Spec, StreamOK, Stream!StreamSpec, Queue, Arrived
=============================================================================
