SPECIFICATION Spec
CONSTANTS
  Delay = 1
  MaxPending = 2
  Limit = 0
  QueueHigh = 1
  MaxFrames = 3
  MaxRecorded = 2
  MaxSessions = 1
  MaxTurns = 3
  MaxParts = 2
  MaxDue = 1
  LateLoad = TRUE
CHECK_DEADLOCK FALSE
INVARIANT Continuous
