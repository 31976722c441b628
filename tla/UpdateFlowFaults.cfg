CONSTANTS
  N = 1
  MaxStoreCount = 15
  MaxSend = 2
  MaxBackoff = 1
  RebootAnswers = {"none", "automatic"}
  RollbackAnswers = {TRUE, FALSE}
  FailingScripts <- AllScripts
  Faults = {"crash", "db", "unreadable", "installers"}
  MaxFaults = 2
  MaxPauses = 0
  MaxDeployments = 1
SPECIFICATION Spec
INVARIANT TypeOK
INVARIANT OutcomeConsistent
INVARIANT DirtyIsRecorded
INVARIANT CommittedIsFinal
INVARIANT CleanupRuns
PROPERTY AbortNeverCommits
