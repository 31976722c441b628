CONSTANTS
  N = 2
  MaxStoreCount = 15
  MaxSend = 2
  MaxBackoff = 1
  RebootAnswers = {"none", "automatic", "custom"}
  RollbackAnswers = {TRUE, FALSE}
  FailingScripts <- AllScripts
  Faults = {"crash", "db"}
  MaxFaults = 1
  MaxPauses = 0
  MaxDeployments = 1
SPECIFICATION Spec
INVARIANT OutcomeConsistent
PROPERTY SuccessMeansCommitted
