CONSTANTS
  Engine = {e1, e2}
  Nobody = Nobody
  Old = Old
  Missing = Missing
  Torn = Torn
  Request = {r1}
  Latest = 2
  MaxLaunches = 2
  MaxFaults = 0
  MaxSaves = 0
SPECIFICATION Spec
PROPERTIES IdentityNeverChanges
CHECK_DEADLOCK FALSE
