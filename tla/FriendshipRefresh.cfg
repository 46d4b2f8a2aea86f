CONSTANTS
  Device = {"A", "B"}
  Slot = {1, 2}
  MaxActs = 4
  MaxFaults = 0
SPECIFICATION Spec
PROPERTIES RefreshOnlyUpdates
CHECK_DEADLOCK FALSE
