\* The millisecond counter wraps around.
CONSTANTS
  SubPeriod = 3
  HeartBeat = 2
  Wrap = 8
  MaxErrors = 3
  MaxSubs = 2
SPECIFICATION Spec
PROPERTIES
  SubscribePaced
