SPECIFICATION Spec
CONSTANTS
  Pin = {vbln}
  NoPort = NoPort
  Word <- MCWord
  Data <- MCData
INVARIANTS ChipAgrees LineTrue EiTakesAtOnce
