SPECIFICATION FairSpec
CONSTANTS
  Client = {c1, c2}
  Frames = 1
  MaxRequests = 3
  Off = Off
  NoRun = NoRun
INVARIANTS TypeOK StepIsOne TargetsEndAtPause DoneIsTrue
PROPERTY Served
