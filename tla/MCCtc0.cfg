SPECIFICATION Spec
CONSTANTS
  Byte = 4
  Word = 256
  Late = 5
  Divider = 2
  NoEvent = NoEvent
  Mode = {0, 2, 3}
  Format = {"lsb", "both"}
  Data = {0, 1}
  GateModes = {2, 3}
  AnySnapshot = FALSE
CONSTRAINT BeforeChance
CHECK_DEADLOCK FALSE
INVARIANT FastAgrees
PROPERTY PeriodTrue
