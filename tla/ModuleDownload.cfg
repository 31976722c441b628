SPECIFICATION Spec
CONSTANTS
  Files = 3
  MaxFaults = 2
INVARIANTS TypeOK SuccessMeansStored
PROPERTIES KeepsContract CallsReturn
CHECK_DEADLOCK FALSE
