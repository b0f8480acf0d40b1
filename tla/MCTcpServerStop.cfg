SPECIFICATION FairSpec
CONSTANTS
  Fd = {f1}
  Reused = {f1}
  Client = {t1}
  None = None
CHECK_DEADLOCK FALSE
INVARIANT StopJoinsBoth
