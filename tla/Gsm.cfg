\* Both builds: Init chooses the module.
SPECIFICATION FairSpec
INVARIANTS
  TypeOK
  NeverStranded
  TalksToPoweredModule
  ConnectedMeansLink
PROPERTIES
  CommandNotOverwritten
  ResetCompletes
  ReachesPpp
\* In HardFault_Handler nothing moves.
CHECK_DEADLOCK FALSE
