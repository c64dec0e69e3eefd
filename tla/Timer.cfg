\* t3-rtx: exponential backoff up to a maximum, restarted for ever
CONSTANTS
  Durations = {1, 3}
  kMaxTimerDuration = 8
  MaxBackoffDuration = 6
  Exponential = TRUE
  MaxRestarts <- Unlimited
  Generations = 5
  MaxTimers = 2
  CountCap = 3
  Infinity = Infinity
SPECIFICATION FairSpec
INVARIANTS TypeOK OneTask Awake NeverEarly BackoffInBounds
PROPERTIES Triggers
CHECK_DEADLOCK FALSE
