\* Headers that fit the window and headers that do not, a body longer than the
\* window, any declared length.
CONSTANTS
  Timeout = 3
  Wnd = 3
  MaxHead = 4
  MaxBody = 4
  NoLength = NoLength
SPECIFICATION FairSpec
INVARIANTS
  IdleTellsTransfer
  UnitsAccountedFor
PROPERTIES
  TransferEnds
