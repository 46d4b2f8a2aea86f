CONSTANTS
  Device = {"A", "B"}
  Slot = {1, 2}
  MaxActs = 4
  MaxFaults = 1
SPECIFICATION FairSpec
INVARIANTS TypeOK TrustIsWanted TrustIsMutual
PROPERTIES Settles
CHECK_DEADLOCK FALSE
