SPECIFICATION Spec
CONSTANTS
  Pin = {vbln}
  NoPort = NoPort
  Word <- MCWord
  Data <- MCData
INVARIANT InjectAfterEi
