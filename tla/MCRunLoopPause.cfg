SPECIFICATION Spec
CONSTANTS
  Client = {c1, c2}
  Frames = 1
  MaxRequests = 4
  Off = Off
  NoRun = NoRun
PROPERTY PauseOnlyThatRun
