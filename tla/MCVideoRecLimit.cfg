SPECIFICATION Spec
CONSTANTS
  Delay = 1
  MaxPending = 2
  Limit = 2
  QueueHigh = 1
  MaxFrames = 3
  MaxRecorded = 3
  MaxSessions = 1
  MaxTurns = 2
  MaxParts = 2
  MaxDue = 1
  LateLoad = FALSE
CHECK_DEADLOCK FALSE
INVARIANT StopExact
