CONSTANTS
  N = 1
  MaxStoreCount = 30
  MaxSend = 6
  MaxBackoff = 2
  RebootAnswers = {"none", "automatic"}
  RollbackAnswers = {TRUE, FALSE}
  FailingScripts = {"ArtifactInstall", "ArtifactCommit_Leave"}
  Faults = {"crash"}
  MaxFaults = 1
  MaxPauses = 1
  MaxDeployments = 1
SPECIFICATION Spec
INVARIANT OrderlyRunsFit
PROPERTY DeploymentEnds
