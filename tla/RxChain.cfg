\* F4 port, bursts shorter than its DMA buffer, a ring smaller than two of them.
CONSTANTS
  Half = 3
  Port = "F4"
  MaxLag = 1
  MaxBurst = 4
  MaxBytes = 14
  RingSize = 7
  ReadLen = 2
  MaxUnread = 6
SPECIFICATION Spec
PROPERTIES
  ImplementsEndToEnd
  DrivesRing
  EveryByteReachesStack
