SPECIFICATION Spec
CONSTANTS
  Transport = {t1, t2}
  Worker = {w1, w2}
  Job = {j1, j2, j3}
  Null = Null
SYMMETRY Symmetry
CHECK_DEADLOCK FALSE
INVARIANTS TypeOK JobAlive NothingLeaks OneAnswer TeardownSafe
