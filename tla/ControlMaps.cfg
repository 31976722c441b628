SPECIFICATION Spec
CONSTANTS
  Deployment = "d"
  LocalKeys <- SomeKeys
  ServerPriorities <- SomePriorities
  Requests <- SomeRequests
  MaxTries = 1
  MaxMaps = 2
  MaxFaults = 1
INVARIANTS TypeOK HighestOpinionWins RestartAgrees NoMissedUpdate
PROPERTIES PauseEnds
CHECK_DEADLOCK FALSE
