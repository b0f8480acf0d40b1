SPECIFICATION FairSpec
CONSTANTS
  Client = {c1, c2}
  Command <- MCCommand
  Control <- MCControl
  Bus <- MCBus
  N = 3
  Nobody = Nobody
  EndingUsed = TRUE
INVARIANTS TypeOK DataAlive SlotKept StatusHonest RingSound
PROPERTIES NoLateDispatch ImplementsService SubmitReturns
