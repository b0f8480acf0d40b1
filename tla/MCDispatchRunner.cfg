SPECIFICATION FairSpec
CONSTANTS
  Transport = {t1}
  Worker = {w1, w2}
  Job = {j1, j2}
  Null = Null
CHECK_DEADLOCK FALSE
INVARIANTS TypeOK JobAlive NothingLeaks OneAnswer TeardownSafe
PROPERTY Answered
