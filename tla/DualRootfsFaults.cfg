CONSTANTS
  Boards = {"bootscr", "direct"}
  Scripts = {"absent", "present"}
  Images = {"good", "noagent", "panic"}
  Faults = {"power", "agent", "write", "script", "reboot"}
  MaxFaults = 3
  MaxDeployments = 3
  MaxBootRetries = 3
SPECIFICATION Spec
INVARIANT TypeOK
INVARIANT FailureRestores
INVARIANT BackupIsHome
INVARIANT BookkeepingRight
PROPERTY SuccessSwitches
PROPERTY ReadyMeansSwitched
