CONSTANTS
  MaxAssertions = 1
  MaxReads = 3
  MaxFaults = 2
SPECIFICATION Spec
CHECK_DEADLOCK FALSE
PROPERTY StaleNeverOverwrites
