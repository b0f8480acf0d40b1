SPECIFICATION FairSpec
CONSTANTS
  Fd = {f1, f2}
  Reused = {}
  Client = {t1, t2}
  None = None
CHECK_DEADLOCK FALSE
INVARIANTS TypeOK OneClient SocketsClosed
PROPERTIES StopReturns Admitted
