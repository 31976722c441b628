SPECIFICATION Spec
CONSTANTS
  Artifacts = {"a", "b"}
  MaxScriptTries = 1
  MaxInstalls = 2
  MaxFaults = 3
  MaxKills = 1
INVARIANTS TypeOK NameIsTrue
CHECK_DEADLOCK FALSE
