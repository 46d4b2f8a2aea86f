CONSTANTS
  Device = {"A", "B"}
  Slot = {1, 2}
  MaxActs = 3
  MaxFaults = 0
SPECIFICATION Spec
PROPERTIES FriendsStayDialable
CHECK_DEADLOCK FALSE
