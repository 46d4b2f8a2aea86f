CONSTANTS
  Path <- MCPath1
  Deep <- MCDeep1
  Content <- MCContent1
  Blank <- MCBlank
  MaxOps = 3
  MaxFaults = 1
SPECIFICATION EngineSpec
CHECK_DEADLOCK FALSE
INVARIANTS MTypeOK ConsumerFollows
PROPERTIES CatchesUp Stops
