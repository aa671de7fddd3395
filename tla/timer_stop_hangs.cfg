\* The timer's thread has read running_ when stop() clears it.
SPECIFICATION FairSpec
CONSTANTS
  Event = {e1}
  Timeouts = {1}
  Slack = 1
  MaxTime = 3
PROPERTIES StopReturns
CHECK_DEADLOCK FALSE
