SPECIFICATION FairSpec
CONSTANTS
  Transport = {t1}
  Worker = {w1}
  Job = {j1}
  Null = Null
CHECK_DEADLOCK FALSE
INVARIANT NothingAfterBusy
