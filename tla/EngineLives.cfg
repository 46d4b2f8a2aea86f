CONSTANTS
  Engine = {e1, e2}
  Nobody = Nobody
  Old = Old
  Missing = Missing
  Torn = Torn
  Request = {r1}
  Latest = 2
  MaxLaunches = 2
  MaxFaults = 2
  MaxSaves = 2
SPECIFICATION FairSpec
INVARIANTS TypeOK SchemaWhole SettingsAgree
PROPERTIES IdentityKept ComesUp
CHECK_DEADLOCK FALSE
