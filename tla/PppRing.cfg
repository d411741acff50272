CONSTANTS
  Size = 6
  MaxChunk = 4
  ReadLen = 3
  MaxBacklog = 5
  MaxBytes = 20
SPECIFICATION FairSpec
INVARIANTS
  TypeOK
  IndicesTellBacklog
  UnreadIntact
  InOrder
PROPERTIES
  ImplementsStream
  EveryByteReachesPpp
