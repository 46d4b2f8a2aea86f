CONSTANTS
  Device = {"A", "B"}
  Slot = {1, 2, 3}
  MaxActs = 3
  MaxFaults = 1
SPECIFICATION Spec
INVARIANTS TypeOK TrustIsWanted TrustIsMutual
CHECK_DEADLOCK FALSE
