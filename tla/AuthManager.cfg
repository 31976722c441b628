SPECIFICATION Spec
CONSTANTS
  Servers <- TwoServers
  Apps = {"terminal"}
  MaxCalls = 2
  MaxFetches = 1
  MaxSockets = 1
  MaxRestarts = 1
  MaxFaults = 1
INVARIANTS TypeOK FreshAnswer ProxyAgrees OneIdentity
PROPERTIES DoReturns
CHECK_DEADLOCK FALSE
