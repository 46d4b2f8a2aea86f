CONSTANTS
  Path <- MCPath
  Deep <- MCDeep
  Content <- MCContent1
  Blank <- MCBlank
  MaxOps = 1
  MaxFaults = 0
SPECIFICATION EngineSpec
CHECK_DEADLOCK FALSE
PROPERTIES ChangesArrive
