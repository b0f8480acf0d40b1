CONSTANTS
  LastTrack = 1
  LastSector = 2
  Size = 2
  AddressBytes = 3
  Overhead = 1
  PollLimit = 2
  IntLimit = 1
  WaitWrap = 3
  GapLimit = 5
  EndLimit = 6
  Unread = {"UNREAD"}
  Eints = {FALSE}
  Loose = TRUE
SPECIFICATION Spec
INVARIANTS StatusTrue TransferWhole
