SPECIFICATION Spec
CONSTANTS
  Files = 1
  MaxFaults = 0
PROPERTY CleanupUnconditional
CHECK_DEADLOCK FALSE
