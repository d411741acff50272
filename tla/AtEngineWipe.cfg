\* An interrupt between the two statements that clear the receive buffer.
CONSTANTS
  Cap = 4
  Commands <- MCCommands
  MaxCmds = 2
  MaxUrc = 1
  MaxLine = 4
SPECIFICATION FairSpec
INVARIANTS
  BufferReadable
CHECK_DEADLOCK FALSE
