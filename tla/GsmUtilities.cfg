\* All answers of up to five characters: more digits than fit, names longer
\* than the buffer, more quotation marks than are noted, the longest answer one
\* less than the counter is wide.  As in the program only the CCID has a buffer
\* with a cell more than max_lenth.
CONSTANTS
  Digits = {d1, d2}
  Others = {x, q}
  Quote = q
  NUL = NUL
  MaxLen = 5
  CounterWrap = 6
  MarkCells = 3
  ImeiMax = 3
  CcidMax = 4
  NameMax = 3
  ImeiCells = 3
  CcidCells = 5
  NameCells = 3
SPECIFICATION FairSpec
INVARIANTS
  ParsersCorrect
PROPERTIES
  ParseEnds
\* A parser that has returned stops.
CHECK_DEADLOCK FALSE
