------------------------------- MODULE Timer --------------------------------
(***************************************************************************)
(* What ConcurrentTimer (concurrency.hpp) promises to the sender, without  *)
(* clock, lock or thread: an event is registered, times out at some time,  *)
(* and is handed over when the timed-out events are mapped. The module     *)
(* ConcurrentTimer implements it; the module Sender uses it.               *)
(***************************************************************************)

VARIABLES
  timer,      \* registered_events_: events that have not timed out
  timedOut    \* timed_out_events_: timed out and not mapped yet

timerVars == <<timer, timedOut>>

TimerInit == timer = {} /\ timedOut = {}

\* An event that had timed out before stays in the timed-out set.
register_event(e) ==
  /\ timer' = timer \cup {e}
  /\ UNCHANGED timedOut

\* Mutant: the timer keeps the event.
remove_event_forgotten(e) == UNCHANGED timerVars

\* A timed-out event is forgotten only if it is registered again.
remove_event(e) ==
  /\ timer' = timer \ {e}
  /\ timedOut' = IF e \in timer THEN timedOut \ {e} ELSE timedOut

\* The timer's thread lets all events of due time out, under one lock.
time_out(due) ==
  /\ due # {}
  /\ timer' = timer \ due
  /\ timedOut' = timedOut \cup due

map_timed_out_events ==
  /\ timedOut' = {}
  /\ UNCHANGED timer

\* What a step may do to a timer of events in Event.
TimerStep(Event) ==
  \/ \E e \in Event : register_event(e) \/ remove_event(e)
  \/ \E due \in SUBSET timer : time_out(due)
  \/ map_timed_out_events
=============================================================================
