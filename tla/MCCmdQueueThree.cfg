SPECIFICATION Spec
CONSTANTS
  Client = {c1, c2, c3}
  Command <- MCCommand
  Control <- MCControl
  Bus <- MCBus
  N = 3
  Nobody = Nobody
  EndingUsed = FALSE
SYMMETRY Symmetry
INVARIANTS TypeOK DataAlive SlotKept StatusHonest RingSound
PROPERTIES NoLateDispatch ImplementsService
