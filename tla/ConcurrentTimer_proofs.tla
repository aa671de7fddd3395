----------------------- MODULE ConcurrentTimer_proofs -----------------------
(***************************************************************************)
(* Proofs about ConcurrentTimer, for any number of events, any timeouts,   *)
(* any slack and any bound of the clock.                                   *)
(***************************************************************************)
EXTENDS ConcurrentTimer, TLAPS

TimerInv == TimerTypeOK /\ MapsAgree

LEMMA TimerInvInit == Init => TimerInv
  BY TimerAssumption DEF Init, TimerInv, TimerTypeOK, MapsAgree, Registered, NoTime, ThreadPcs

\* Under MapsAgree the entry that a call removes is the only one of its event.
LEMMA EntryUnique ==
  ASSUME TimerInv, NEW e \in Event, NEW x \in events
  PROVE  /\ x[2] \in Registered /\ x = <<deadline[x[2]], x[2]>>
         /\ x \in Entry(e) <=> x[2] = e
  BY DEF TimerInv, MapsAgree, Entry, Registered

\* A call or a step of the thread that leaves the containers alone.
LEMMA DataFrame ==
  ASSUME TimerInv, UNCHANGED dataVars, clock' \in Nat, alive' \in BOOLEAN,
         threadPc' \in ThreadPcs, wakeAt' \in Nat,
         stopPc' \in {"none", "notify", "join", "joined"}
  PROVE  TimerInv'
  BY DEF TimerInv, TimerTypeOK, MapsAgree, Registered, dataVars

LEMMA RegisterPreserves ==
  ASSUME TimerInv, NEW e \in Event, NEW timeout \in Timeouts, register_event(e, timeout)
  PROVE  TimerInv'
<1> DEFINE t == clock + timeout
<1>1. t \in Nat /\ t # NoTime
  BY TimerAssumption DEF TimerInv, TimerTypeOK, NoTime
<1>2. /\ events' = (events \ Entry(e)) \cup {<<t, e>>}
      /\ deadline' = [deadline EXCEPT ![e] = t]
  BY DEF register_event
<1> HIDE DEF t
<1>3. Registered' = Registered \cup {e}
  BY <1>1, <1>2 DEF Registered, TimerInv, TimerTypeOK
<1>4. TimerTypeOK'
  <2>1. events' \in SUBSET (Nat \X Event)
    BY <1>1, <1>2 DEF TimerInv, TimerTypeOK
  <2>2. alive' \in BOOLEAN
    BY Zenon DEF register_event, TimerInv, TimerTypeOK
  <2> QED BY <1>1, <1>2, <2>1, <2>2 DEF register_event, notify_one, TimerInv, TimerTypeOK, ThreadPcs
<1>5. MapsAgree'
  <2>1. ASSUME NEW x \in events' PROVE x \in {<<deadline'[d], d>> : d \in Registered'}
    <3>1. CASE x = <<t, e>>
      BY <1>2, <1>3, <3>1 DEF TimerInv, TimerTypeOK
    <3>2. CASE x \in events /\ x \notin Entry(e)
      BY <1>2, <1>3, <3>2, EntryUnique DEF TimerInv, TimerTypeOK, Registered
    <3> QED BY <1>2, <2>1, <3>1, <3>2
  <2>2. ASSUME NEW d \in Registered' PROVE <<deadline'[d], d>> \in events'
    <3>1. CASE d = e
      BY <1>2, <3>1 DEF TimerInv, TimerTypeOK
    <3>2. CASE d # e
      <4>1. d \in Registered /\ deadline'[d] = deadline[d] /\ d \in Event
        BY <1>2, <1>3, <2>2, <3>2 DEF TimerInv, TimerTypeOK, Registered
      <4>2. <<deadline[d], d>> \in events
        BY <4>1 DEF TimerInv, MapsAgree
      <4>3. <<deadline[d], d>> \notin Entry(e)
        BY <3>2 DEF Entry
      <4> QED BY <1>2, <4>1, <4>2, <4>3
    <3> QED BY <3>1, <3>2
  <2> QED BY <2>1, <2>2 DEF MapsAgree
<1> QED BY <1>4, <1>5 DEF TimerInv

LEMMA RemovePreserves ==
  ASSUME TimerInv, NEW e \in Event, remove_event(e)
  PROVE  TimerInv'
<1>1. /\ events' = events \ Entry(e)
      /\ deadline' = [deadline EXCEPT ![e] = NoTime]
  BY DEF remove_event
<1>2. Registered' = Registered \ {e}
  BY <1>1 DEF Registered, TimerInv, TimerTypeOK
<1>3. TimerTypeOK'
  <2>1. alive' \in BOOLEAN
    BY Zenon DEF remove_event, TimerInv, TimerTypeOK
  <2> QED BY <1>1, <2>1 DEF remove_event, TimerInv, TimerTypeOK
<1>4. MapsAgree'
  <2>1. ASSUME NEW x \in events' PROVE x \in {<<deadline'[d], d>> : d \in Registered'}
    BY <1>1, <1>2, <2>1, EntryUnique DEF TimerInv, TimerTypeOK, Registered
  <2>2. ASSUME NEW d \in Registered' PROVE <<deadline'[d], d>> \in events'
    <3>1. d \in Registered /\ d # e /\ deadline'[d] = deadline[d] /\ d \in Event
      BY <1>1, <1>2, <2>2 DEF TimerInv, TimerTypeOK, Registered
    <3>2. <<deadline[d], d>> \in events /\ <<deadline[d], d>> \notin Entry(e)
      BY <3>1 DEF TimerInv, MapsAgree, Entry
    <3> QED BY <1>1, <3>1, <3>2
  <2> QED BY <2>1, <2>2 DEF MapsAgree
<1> QED BY <1>3, <1>4 DEF TimerInv

\* The events that time out are registered, and due but for the slack.
LEMMA DueRegistered ==
  ASSUME TimerInv, NEW x \in Due
  PROVE  x[2] \in Registered /\ deadline[x[2]] <= clock + Slack /\ x[2] \in Event
  BY EntryUnique DEF TimerInv, MapsAgree, Due, Registered

LEMMA TimeOutPreserves ==
  ASSUME TimerInv, TimeOut
  PROVE  TimerInv'
<1> DEFINE due == {x[2] : x \in Due}
<1>1. /\ expired' = expired \cup due
      /\ deadline' = [e \in Event |-> IF e \in due THEN NoTime ELSE deadline[e]]
      /\ events' = events \ Due
  BY DEF TimeOut
<1>2. due \subseteq Event
  BY DueRegistered
<1>3. TimerTypeOK'
  <2>1. alive' \in BOOLEAN
    BY Zenon DEF TimeOut, TimerInv, TimerTypeOK
  <2>2. deadline' \in [Event -> Nat \cup {NoTime}]
    BY <1>1 DEF TimerInv, TimerTypeOK
  <2>3. expired' \in SUBSET Event /\ events' \in SUBSET (Nat \X Event)
    BY <1>1, <1>2 DEF TimerInv, TimerTypeOK
  <2> QED BY <2>1, <2>2, <2>3 DEF TimeOut, TimerInv, TimerTypeOK, ThreadPcs
\* x is the only entry of its event.
<1>4. ASSUME NEW x \in events PROVE x[2] \in due <=> x \in Due
  BY EntryUnique DEF Due, TimerInv, MapsAgree
<1> HIDE DEF due
<1>5. MapsAgree'
  <2>1. ASSUME NEW x \in events' PROVE x \in {<<deadline'[d], d>> : d \in Registered'}
    BY <1>1, <1>4, <2>1 DEF TimerInv, MapsAgree, Registered
  <2>2. ASSUME NEW d \in Registered' PROVE <<deadline'[d], d>> \in events'
    <3>1. d \in Event /\ d \notin due /\ deadline'[d] = deadline[d] /\ d \in Registered
      BY <1>1, <2>2 DEF Registered
    <3>2. <<deadline[d], d>> \in events
      BY <3>1 DEF TimerInv, MapsAgree
    <3> QED BY <1>1, <1>4, <3>1, <3>2
  <2> QED BY <2>1, <2>2 DEF MapsAgree
<1> QED BY <1>3, <1>5 DEF TimerInv

\* Every call and every step of the thread keeps the two containers in step.
LEMMA TimerInvStep == TimerInv /\ [Next]_vars => TimerInv'
<1> SUFFICES ASSUME TimerInv, [Next]_vars PROVE TimerInv'
  OBVIOUS
<1>0. /\ clock \in Nat /\ threadPc \in ThreadPcs /\ wakeAt \in Nat
      /\ stopPc \in {"none", "notify", "join", "joined"}
      /\ \A x \in events : x[1] \in Nat
  BY DEF TimerInv, TimerTypeOK
<1>1. alive \in BOOLEAN
  BY DEF TimerInv, TimerTypeOK
<1>2. CASE Call
  <2>1. CASE \E e \in Event, timeout \in Timeouts : register_event(e, timeout)
    BY <2>1, RegisterPreserves
  <2>2. CASE \E e \in Event : remove_event(e)
    BY <2>2, RemovePreserves
  <2>3. CASE map_timed_out_events
    <3>1. alive' \in BOOLEAN
      BY <1>1, <2>3 DEF map_timed_out_events
    <3> QED BY <2>3, <3>1 DEF map_timed_out_events, TimerInv, TimerTypeOK, MapsAgree, Registered
  <2>4. CASE stop_clear
    <3>1. alive' \in BOOLEAN
      BY <2>4, Zenon DEF stop_clear
    <3> QED BY <1>0, <2>4, <3>1, DataFrame DEF stop_clear
  <2> QED BY <1>2, <2>1, <2>2, <2>3, <2>4 DEF Call
<1>3. CASE Stop \/ (Thread /\ ~ TimeOut) \/ WakeUpSpuriously \/ Tick
  <2>1. UNCHANGED <<alive, dataVars>>
    BY <1>3 DEF Stop, stop_notify, stop_join, Thread, TestRunning, WaitForEvent,
                WaitUntil, WakeUp, WakeUpSpuriously, Tick
  <2>2. alive' \in BOOLEAN
    BY <1>1, <2>1
  <2>3. clock' \in Nat
    BY <1>0, <1>3 DEF Stop, stop_notify, stop_join, Thread, TestRunning, WaitForEvent,
                      WaitUntil, WakeUp, WakeUpSpuriously, Tick
  <2>4. wakeAt' \in Nat
    BY <1>0, <1>3 DEF Stop, stop_notify, stop_join, Thread, TestRunning, WaitForEvent,
                      WaitUntil, WakeUp, WakeUpSpuriously, Tick
  <2>5. threadPc' \in ThreadPcs /\ stopPc' \in {"none", "notify", "join", "joined"}
    BY <1>0, <1>3 DEF Stop, stop_notify, stop_join, Thread, TestRunning, WaitForEvent,
                      WaitUntil, WakeUp, WakeUpSpuriously, Tick, notify_one, ThreadPcs
  <2> QED BY <2>1, <2>2, <2>3, <2>4, <2>5, DataFrame
<1>4. CASE TimeOut
  BY <1>4, TimeOutPreserves
<1>5. CASE UNCHANGED vars
  BY <1>0, <1>1, <1>5, DataFrame DEF vars, dataVars
<1> QED BY <1>2, <1>3, <1>4, <1>5 DEF Next, Thread

\* Whatever is registered, removed and timed out, and however the calls and
\* the thread alternate, the containers and the thread's state keep their
\* types (thread_func and the calls of ConcurrentTimer).
THEOREM TimerTypeCorrect == Spec => []TimerTypeOK
<1>1. TimerInv => TimerTypeOK
  BY DEF TimerInv
<1> QED BY <1>1, TimerInvInit, TimerInvStep, PTL DEF Spec

\* events_ and registered_events_ always hold the same events with the same
\* time points: no stale time point survives a second registration.
THEOREM TimerMapsAgree == Spec => []MapsAgree
<1>1. TimerInv => MapsAgree
  BY DEF TimerInv
<1> QED BY <1>1, TimerInvInit, TimerInvStep, PTL DEF Spec

\* The thread of the timer never sleeps past an event, for any events and
\* timeouts and however calls, notifications and the thread alternate: it goes
\* to sleep with the mutex it has looked at the events with, a registration
\* wakes it, and a removal leaves it to wake up early (thread_func).
THEOREM TimerWakesInTime == Spec => []WakesInTime
<1>1. Init => WakesInTime
  BY DEF Init, WakesInTime
<1>2. WakesInTime /\ [Next]_vars => WakesInTime'
  <2> SUFFICES ASSUME WakesInTime, [Next]_vars PROVE WakesInTime'
    OBVIOUS
  <2>1. CASE \E e \in Event, timeout \in Timeouts : register_event(e, timeout)
    <3>1. threadPc' \notin {"wait", "wait_until"}
      BY <2>1 DEF register_event, notify_one
    <3> QED BY <3>1 DEF WakesInTime
  <2>2. CASE \E e \in Event : remove_event(e)
    <3>1. events' \subseteq events /\ UNCHANGED <<threadPc, wakeAt>>
      BY <2>2 DEF remove_event
    <3> QED BY <3>1 DEF WakesInTime
  <2>3. CASE map_timed_out_events \/ stop_clear \/ stop_join \/ Tick
    <3>1. UNCHANGED <<events, threadPc, wakeAt>>
      BY <2>3 DEF map_timed_out_events, stop_clear, stop_join, Tick, dataVars
    <3> QED BY <3>1 DEF WakesInTime
  <2>4. CASE stop_notify \/ TestRunning \/ TimeOut \/ WakeUp \/ WakeUpSpuriously
    <3>1. threadPc' \notin {"wait", "wait_until"}
      BY <2>4 DEF stop_notify, notify_one, TestRunning, TimeOut, WakeUp, WakeUpSpuriously
    <3> QED BY <3>1 DEF WakesInTime
  <2>5. CASE WaitForEvent
    BY <2>5 DEF WaitForEvent, WakesInTime, dataVars
  <2>6. CASE WaitUntil
    BY <2>6 DEF WaitUntil, WakesInTime, dataVars
  <2>7. CASE UNCHANGED vars
    BY <2>7 DEF vars, dataVars, WakesInTime
  <2> QED
    BY <2>1, <2>2, <2>3, <2>4, <2>5, <2>6, <2>7 DEF Next, Call, Stop, Thread
<1> QED BY <1>1, <1>2, PTL DEF Spec

\* No event times out earlier than the slack before the time of its last
\* registration (thread_func).
THEOREM TimerNotEarly == Spec => NotEarly
<1> DEFINE Early == \A e \in Event : e \in Registered /\ e \in expired' /\ e \notin expired
                                       => deadline[e] <= clock + Slack
<1>1. TimerInv /\ [Next]_vars => [Early]_vars
  <2> SUFFICES ASSUME TimerInv, Next PROVE Early
    OBVIOUS
  <2>1. CASE TimeOut
    <3>1. expired' = expired \cup {x[2] : x \in Due}
      BY <2>1 DEF TimeOut
    <3> QED BY <3>1, DueRegistered
  <2>2. CASE ~ TimeOut
    <3>1. expired' \subseteq expired
      BY <2>2 DEF Next, Call, register_event, remove_event, map_timed_out_events, stop_clear,
                  Stop, stop_notify, stop_join, Thread, TestRunning, WaitForEvent,
                  WaitUntil, WakeUp, WakeUpSpuriously, Tick, dataVars
    <3> QED BY <3>1
  <2> QED BY <2>1, <2>2
<1> QED BY <1>1, TimerInvInit, TimerInvStep, PTL DEF Spec, NotEarly

\* The timer with its clock, lock, thread and two containers implements the
\* abstract timer that the sender is modelled with: every call and every step
\* of the thread is a step of it, or none.
THEOREM TimerRefines == Spec => AbstractTimer
<1>1. Init => Abstract!TimerInit
  BY DEF Init, Abstract!TimerInit, Registered
<1>2. TimerInv /\ [Next]_vars => [Abstract!TimerStep(Event)]_<<Registered, expired>>
  <2> SUFFICES ASSUME TimerInv, [Next]_vars
               PROVE  Abstract!TimerStep(Event) \/ UNCHANGED <<Registered, expired>>
    OBVIOUS
  <2>0. deadline \in [Event -> Nat \cup {NoTime}]
    BY DEF TimerInv, TimerTypeOK
  <2>1. ASSUME NEW e \in Event, NEW timeout \in Timeouts, register_event(e, timeout)
        PROVE  Abstract!register_event(e)
    <3>1. clock + timeout # NoTime
      BY TimerAssumption DEF TimerInv, TimerTypeOK, NoTime
    <3>2. Registered' = Registered \cup {e}
      BY <2>0, <2>1, <3>1 DEF register_event, Registered
    <3> QED BY <2>1, <3>2 DEF register_event, Abstract!register_event
  <2>2. ASSUME NEW e \in Event, remove_event(e)
        PROVE  Abstract!remove_event(e)
    <3>1. Registered' = Registered \ {e}
      BY <2>0, <2>2 DEF remove_event, Registered
    <3> QED BY <2>2, <3>1 DEF remove_event, Abstract!remove_event
  <2>3. ASSUME map_timed_out_events
        PROVE  Abstract!map_timed_out_events
    BY <2>3 DEF map_timed_out_events, Abstract!map_timed_out_events, Registered
  <2>4. ASSUME TimeOut
        PROVE  \E due \in SUBSET Registered : Abstract!time_out(due)
    <3> DEFINE due == {x[2] : x \in Due}
    <3>1. due \subseteq Registered
      BY DueRegistered
    <3>2. due # {}
      <4>1. PICK x \in events : x[1] <= clock
        BY <2>4 DEF TimeOut
      <4>2. x[1] \in Nat /\ clock \in Nat
        BY <4>1 DEF TimerInv, TimerTypeOK
      <4>3. x \in Due
        BY <4>1, <4>2, TimerAssumption DEF Due
      <4> QED BY <4>3
    <3>3. /\ expired' = expired \cup due
          /\ deadline' = [e \in Event |-> IF e \in due THEN NoTime ELSE deadline[e]]
      BY <2>4 DEF TimeOut
    <3> HIDE DEF due
    <3>4. Registered' = Registered \ due
      BY <3>1, <3>3 DEF Registered
    <3>5. Abstract!time_out(due)
      BY <3>2, <3>3, <3>4 DEF Abstract!time_out
    <3> QED BY <3>1, <3>5
  <2>5. CASE \/ stop_clear \/ Stop \/ (Thread /\ ~ TimeOut) \/ WakeUpSpuriously
             \/ Tick \/ UNCHANGED vars
    BY <2>5 DEF stop_clear, Stop, stop_notify, stop_join, Thread, TestRunning, WaitForEvent,
                WaitUntil, WakeUp, WakeUpSpuriously, Tick, vars, dataVars, Registered
  <2>6. Call => \/ \E e \in Event, timeout \in Timeouts : register_event(e, timeout)
                \/ \E e \in Event : remove_event(e)
                \/ map_timed_out_events
                \/ stop_clear
    BY DEF Call
  <2> QED BY <2>1, <2>2, <2>3, <2>4, <2>5, <2>6 DEF Next, Thread, Abstract!TimerStep
<1> QED BY <1>1, <1>2, TimerInvInit, TimerInvStep, PTL DEF Spec, AbstractTimer
=============================================================================
