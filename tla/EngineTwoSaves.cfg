CONSTANTS
  Engine = {e1, e2}
  Nobody = Nobody
  Old = Old
  Missing = Missing
  Torn = Torn
  Request = {r1, r2}
  Latest = 2
  MaxLaunches = 1
  MaxFaults = 0
  MaxSaves = 2
SPECIFICATION Spec
INVARIANTS SettingsAgree
CHECK_DEADLOCK FALSE
