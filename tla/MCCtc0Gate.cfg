SPECIFICATION Spec
CONSTANTS
  Byte = 4
  Word = 256
  Late = 5
  Divider = 2
  NoEvent = NoEvent
  Mode = {0}
  Format = {"lsb"}
  Data = {0, 3}
  GateModes = {0}
  AnySnapshot = FALSE
CHECK_DEADLOCK FALSE
PROPERTY TakenWhateverGate
