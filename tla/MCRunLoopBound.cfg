SPECIFICATION Spec
CONSTANTS
  Client = {c1, c2}
  Frames = 1
  MaxRequests = 3
  Off = Off
  NoRun = NoRun
INVARIANT BoundEndsAtPause
