SPECIFICATION Spec
CONSTANTS
  Byte = 4
  Word = 256
  Late = 5
  Divider = 2
  NoEvent = NoEvent
  Mode = {0, 2, 3}
  Format = {"lsb"}
  Data = {0, 3}
  GateModes = {}
  AnySnapshot = TRUE
CHECK_DEADLOCK FALSE
INVARIANT SnapshotKeeps
