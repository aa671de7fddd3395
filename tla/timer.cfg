\* The timer by itself. The clock is bounded and its thread may miss the
\* notification of stop() (run timer_stop_hangs), so behaviours end.
SPECIFICATION FairSpec
CONSTANTS
  Event = {e1, e2}
  Timeouts = {1, 3}
  Slack = 1
  MaxTime = 6
INVARIANTS MapsAgree WakesInTime
PROPERTIES NotEarly Expires AbstractTimer
CHECK_DEADLOCK FALSE
