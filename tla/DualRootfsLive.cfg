CONSTANTS
  Boards = {"direct"}
  Scripts = {"absent", "present"}
  Images = {"good", "noagent"}
  Faults = {}
  MaxFaults = 0
  MaxDeployments = 3
  MaxBootRetries = 3
SPECIFICATION Spec
PROPERTY AgentReturns
