SPECIFICATION FairBusSpec
CONSTANTS
  Topic = {t1, t2}
  QueueSize = 3
  MaxPoll = 2
  MaxEvents = 6
  MaxSessions = 2
CHECK_DEADLOCK FALSE
INVARIANTS GapsExplained
PROPERTY WakeUpKept
