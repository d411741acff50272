\* Bursts of errors, late DNS answers and a link that comes and goes.
CONSTANTS
  SubPeriod = 3
  HeartBeat = 2
  Wrap = 4
  MaxErrors = 3
  MaxSubs = 2
SPECIFICATION FairSpec
INVARIANTS
  TypeOK
  SessionAgrees
PROPERTIES
  ResetByOwnMessage
  ConnectsToFreshAddress
  HeartBeatPaced
  Reconnects
