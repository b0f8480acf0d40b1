SPECIFICATION FairSpec
CONSTANTS
  MaxSeq = 4
  MaxClears = 2
  ResultsMax = 2
  None = None
INVARIANTS CountTrue NeverWhileDrawn
PROPERTY GuiReturns
