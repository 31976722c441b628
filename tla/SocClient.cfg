SPECIFICATION Spec
CONSTANTS
  Requesters = {"api", "download"}
  Interval = 2
  MaxRotations = 2
  MaxClock = 3
  MaxFaults = 2
INVARIANTS OneReadPerInterval
PROPERTIES KeyIsKept RotationNoticed
