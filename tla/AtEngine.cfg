CONSTANTS
  Cap = 4
  Commands <- MCCommands
  MaxCmds = 2
  MaxUrc = 1
  MaxLine = 3
SPECIFICATION FairSpec
INVARIANTS
  TypeOK
  SendsBounded
  AnswerAnnounced
  CallbackReadsAnswer
PROPERTIES
  OwnAnswer
  NoAnswerInPppMode
  ImplementsService
  EveryCommandEnds
\* The bounded model has a last command.
CHECK_DEADLOCK FALSE
