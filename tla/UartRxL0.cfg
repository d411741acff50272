\* STM32L083: half-transfer interrupt on, bursts without any pause.
CONSTANTS
  Half = 3
  Port = "L0"
  MaxLag = 2
  MaxBurst = 20
  MaxBytes = 20
SPECIFICATION UartFairSpec
INVARIANTS
  UartTypeOK
  EqualMeansNothingNew
  LineInOrder
PROPERTIES
  ImplementsLine
  EveryByteHandedOn
\* The line may go quiet for good.
CHECK_DEADLOCK FALSE
