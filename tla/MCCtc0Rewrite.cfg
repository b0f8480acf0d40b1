SPECIFICATION Spec
CONSTANTS
  Byte = 4
  Word = 256
  Late = 5
  Divider = 2
  NoEvent = NoEvent
  Mode = {3}
  Format = {"both"}
  Data = {0, 1}
  GateModes = {3}
  AnySnapshot = FALSE
CHECK_DEADLOCK FALSE
INVARIANT FastAlways
PROPERTY PeriodKept
