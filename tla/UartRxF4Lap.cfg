\* STM32F429: a burst of one buffer length, handlers without any latency.
CONSTANTS
  Half = 3
  Port = "F4"
  MaxLag = 0
  MaxBurst = 12
  MaxBytes = 12
SPECIFICATION UartSpec
INVARIANTS
  EqualMeansNothingNew
CHECK_DEADLOCK FALSE
