-------------------------- MODULE ConcurrentTimer ---------------------------
(***************************************************************************)
(* ConcurrentTimer of concurrency.hpp: two maps, a set and a thread that   *)
(* sleeps on a condition variable until the next event is due.             *)
(*                                                                         *)
(* Every call holds the one mutex from its first to its last access, and   *)
(* so does the body of the thread's loop up to the wait, which releases    *)
(* it: each is one step. The test of running_ at the head of the loop is   *)
(* made without the mutex and is a step of its own, and so is the          *)
(* notification in stop(), which is sent after the mutex is released.      *)
(***************************************************************************)
EXTENDS Integers

CONSTANTS
  Event,      \* the events: sequence numbers in the sender
  Timeouts,   \* durations that register_event is called with
  Slack,      \* events due within this time time out together: 100 ms
  MaxTime     \* bound: the clock stops here

ASSUME TimerAssumption == /\ Timeouts \subseteq Nat
                          /\ Slack \in Nat
                          /\ MaxTime \in Nat

VARIABLES
  clock,      \* std::chrono::steady_clock
  events,     \* events_: pairs of a time point and an event. Before a pair is
              \* added the old one of its event is removed: a set will do
  deadline,   \* registered_events_; NoTime for an event that is absent
  expired,    \* timed_out_events_
  alive,      \* running_
  threadPc,   \* where the thread is
  wakeAt,     \* the time point of its wait_until
  stopPc      \* where the caller of stop() is

vars == <<clock, events, deadline, expired, alive, threadPc, wakeAt, stopPc>>

dataVars == <<events, deadline, expired>>

NoTime == -1

\* Where the thread is: it tests running_, has seen it true and wants the
\* mutex, waits on event_cvar_ (without or with a time limit), has returned.
ThreadPcs == {"test", "lock", "wait", "wait_until", "exited"}

\* The variables have values of their types.
TimerTypeOK ==
  /\ clock \in Nat
  /\ events \in SUBSET (Nat \X Event)
  /\ deadline \in [Event -> Nat \cup {NoTime}]
  /\ expired \in SUBSET Event
  /\ alive \in BOOLEAN
  /\ threadPc \in ThreadPcs
  /\ wakeAt \in Nat
  /\ stopPc \in {"none", "notify", "join", "joined"}

\* start(): empty containers and a new thread.
Init ==
  /\ clock = 0
  /\ events = {}
  /\ deadline = [e \in Event |-> NoTime]
  /\ expired = {}
  /\ alive = TRUE
  /\ threadPc = "test"
  /\ wakeAt = 0
  /\ stopPc = "none"

Registered == {e \in Event : deadline[e] # NoTime}

\* event_cvar_.notify_one(): wakes the thread if it waits, and is lost if
\* it does not. Woken, it goes back to the head of its loop.
notify_one == threadPc' = IF threadPc \in {"wait", "wait_until"} THEN "test"
                                                               ELSE threadPc

-----------------------------------------------------------------------------
(* The calls.                                                              *)

\* The entry of e in events_, found through the time point it is registered
\* with.
Entry(e) == {x \in events : x = <<deadline[e], e>>}

\* Mutant: the thread is not told.
register_event_silently(e, timeout) ==
  /\ clock + timeout <= MaxTime
  /\ events' = (events \ Entry(e)) \cup {<<clock + timeout, e>>}
  /\ deadline' = [deadline EXCEPT ![e] = clock + timeout]
  /\ UNCHANGED <<clock, expired, alive, threadPc, wakeAt, stopPc>>

\* Mutant: the old entry stays in events_.
register_event_twice(e, timeout) ==
  /\ clock + timeout <= MaxTime
  /\ events' = events \cup {<<clock + timeout, e>>}
  /\ deadline' = [deadline EXCEPT ![e] = clock + timeout]
  /\ notify_one
  /\ UNCHANGED <<clock, expired, alive, wakeAt, stopPc>>

\* A registered event is registered anew. The thread is notified.
register_event(e, timeout) ==
  /\ clock + timeout <= MaxTime
  /\ events' = (events \ Entry(e)) \cup {<<clock + timeout, e>>}
  /\ deadline' = [deadline EXCEPT ![e] = clock + timeout]
  /\ notify_one
  /\ UNCHANGED <<clock, expired, alive, wakeAt, stopPc>>

\* Mutant: the entry in events_ is forgotten.
remove_event_half(e) ==
  /\ e \in Registered
  /\ events' = events
  /\ deadline' = [deadline EXCEPT ![e] = NoTime]
  /\ expired' = expired \ {e}
  /\ UNCHANGED <<clock, alive, threadPc, wakeAt, stopPc>>

\* An event that is not registered is left alone, timed out or not.
remove_event(e) ==
  /\ e \in Registered
  /\ events' = events \ Entry(e)
  /\ deadline' = [deadline EXCEPT ![e] = NoTime]
  /\ expired' = expired \ {e}
  /\ UNCHANGED <<clock, alive, threadPc, wakeAt, stopPc>>

\* wait_for_timed_out has returned true; the events are mapped and cleared.
map_timed_out_events ==
  /\ expired # {}
  /\ expired' = {}
  /\ UNCHANGED <<clock, events, deadline, alive, threadPc, wakeAt, stopPc>>

query_event(e) == IF e \in expired THEN "TimedOut"
                  ELSE IF e \in Registered THEN "Normal" ELSE "Unregistered"

\* stop(): running_ is cleared under the mutex, then the thread is notified
\* and joined.
stop_clear ==
  /\ stopPc = "none"
  /\ alive' = FALSE
  /\ stopPc' = "notify"
  /\ UNCHANGED <<clock, dataVars, threadPc, wakeAt>>

stop_notify ==
  /\ stopPc = "notify"
  /\ notify_one
  /\ stopPc' = "join"
  /\ UNCHANGED <<clock, dataVars, alive, wakeAt>>

stop_join ==
  /\ stopPc = "join"
  /\ threadPc = "exited"
  /\ stopPc' = "joined"
  /\ UNCHANGED <<clock, dataVars, alive, threadPc, wakeAt>>

Call ==
  \/ \E e \in Event : \/ \E timeout \in Timeouts : register_event(e, timeout)
                      \/ remove_event(e)
  \/ map_timed_out_events
  \/ stop_clear

Stop == stop_notify \/ stop_join

-----------------------------------------------------------------------------
(* The thread: thread_func.                                                *)

TestRunning ==
  /\ threadPc = "test"
  /\ threadPc' = IF alive THEN "lock" ELSE "exited"
  /\ UNCHANGED <<clock, dataVars, alive, wakeAt, stopPc>>

WaitForEvent ==
  /\ threadPc = "lock"
  /\ events = {}
  /\ threadPc' = "wait"
  /\ UNCHANGED <<clock, dataVars, alive, wakeAt, stopPc>>

\* Mutant: it sleeps until the last event.
WaitUntilLast ==
  /\ threadPc = "lock"
  /\ \E x \in events :
       /\ \A y \in events : x[1] >= y[1] /\ y[1] > clock
       /\ wakeAt' = x[1]
  /\ threadPc' = "wait_until"
  /\ UNCHANGED <<clock, dataVars, alive, stopPc>>

\* The first event is still to come.
WaitUntil ==
  /\ threadPc = "lock"
  /\ \E x \in events :
       /\ \A y \in events : x[1] <= y[1]
       /\ x[1] > clock
       /\ wakeAt' = x[1]
  /\ threadPc' = "wait_until"
  /\ UNCHANGED <<clock, dataVars, alive, stopPc>>

\* The events that time out with the first one.
Due == {x \in events : x[1] <= clock + Slack}

\* Mutant: the events stay registered.
TimeOutKeeps ==
  /\ threadPc = "lock"
  /\ \E x \in events : x[1] <= clock
  /\ expired' = expired \cup {x[2] : x \in Due}
  /\ events' = events \ Due
  /\ threadPc' = "test"
  /\ UNCHANGED <<clock, deadline, alive, wakeAt, stopPc>>

\* The first event is due: it and those close to it time out. The clock,
\* which the loop reads again after each, stands still during the step; a
\* later reading finds what a step at a later time finds.
TimeOut ==
  /\ threadPc = "lock"
  /\ \E x \in events : x[1] <= clock
  /\ LET due == {x[2] : x \in Due}
     IN  /\ expired' = expired \cup due
         /\ deadline' = [e \in Event |-> IF e \in due THEN NoTime ELSE deadline[e]]
         /\ events' = events \ Due
  /\ threadPc' = "test"
  /\ UNCHANGED <<clock, alive, wakeAt, stopPc>>

\* wait_until comes to its time.
WakeUp ==
  /\ threadPc = "wait_until"
  /\ clock >= wakeAt
  /\ threadPc' = "test"
  /\ UNCHANGED <<clock, dataVars, alive, wakeAt, stopPc>>

\* A condition variable may wake its waiter without a reason.
WakeUpSpuriously ==
  /\ threadPc \in {"wait", "wait_until"}
  /\ threadPc' = "test"
  /\ UNCHANGED <<clock, dataVars, alive, wakeAt, stopPc>>

Thread == TestRunning \/ WaitForEvent \/ WaitUntil \/ TimeOut \/ WakeUp

Tick ==
  /\ clock < MaxTime
  /\ clock' = clock + 1
  /\ UNCHANGED <<dataVars, alive, threadPc, wakeAt, stopPc>>

Next == Call \/ Stop \/ Thread \/ WakeUpSpuriously \/ Tick

Spec == Init /\ [][Next]_vars

\* Time passes, the thread is scheduled, and stop() goes on once called.
FairSpec == Spec /\ WF_vars(Tick) /\ WF_vars(Thread) /\ WF_vars(Stop)

-----------------------------------------------------------------------------
(***************************************************************************)
(* events_ and registered_events_ hold the same events with the same time  *)
(* points, so that "find the timepoint of the given event in the           *)
(* registered_event_ and then find in the range" (register_event) finds it. *)
(***************************************************************************)
MapsAgree == events = {<<deadline[e], e>> : e \in Registered}

(***************************************************************************)
(* No event times out before the time of its last registration, but for    *)
(* the slack ("this will time out a range of event approximately"), however *)
(* often it was registered, removed and registered again (thread_func).    *)
(***************************************************************************)
NotEarly ==
  [][\A e \in Event : e \in Registered /\ e \in expired' /\ e \notin expired
                         => deadline[e] <= clock + Slack]_vars

(***************************************************************************)
(* The thread never sleeps past an event: not without a limit while one is *)
(* registered, nor beyond the time of the first. Only register_event       *)
(* notifies it, and the notification is lost if the thread does not wait   *)
(* (thread_func, register_event, remove_event).                            *)
(***************************************************************************)
WakesInTime == /\ threadPc = "wait" => events = {}
               /\ threadPc = "wait_until" => \A x \in events : wakeAt <= x[1]

(***************************************************************************)
(* A registered event does not wait for ever in a timer that runs: no      *)
(* notification that the thread needs is lost (thread_func, query_event).   *)
(***************************************************************************)
Expires ==
  \A e \in Event : (query_event(e) = "Normal") ~> (query_event(e) # "Normal" \/ ~ alive)

(***************************************************************************)
(* Clock, thread and maps implement the abstract timer that the sender is  *)
(* modelled with.                                                          *)
(***************************************************************************)
Abstract == INSTANCE Timer WITH timer <- Registered, timedOut <- expired

AbstractTimer ==
  Abstract!TimerInit /\ [][Abstract!TimerStep(Event)]_<<Registered, expired>>

\* stop() comes back ("all threads joined", Sender::stop).
StopReturns == (stopPc = "notify") ~> (stopPc = "joined")
=============================================================================
