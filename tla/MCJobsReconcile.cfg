CONSTANTS
  MaxAssertions = 2
  MaxReads = 3
  MaxFaults = 2
SPECIFICATION Spec
CHECK_DEADLOCK FALSE
CONSTRAINT TwoReadsOfTheSecond
INVARIANTS
  TypeOK
  SettledIsTrue
  VerdictSticks
PROPERTY StatusCatchesUp
