SPECIFICATION Spec
CONSTANTS
  Byte = 2
  Word = 32
  Late = 3
  Divider = 2
  NoEvent = NoEvent
  Mode = {1}
  Format = {"lsb"}
  Data = {0, 1}
  GateModes = {1}
  AnySnapshot = FALSE
CHECK_DEADLOCK FALSE
INVARIANTS TypeOK FastAgrees
PROPERTIES PeriodTrue
