CONSTANTS
  Path <- MCPath
  Deep <- MCDeep
  Content <- MCContent
  Blank <- MCBlank
  MaxOps = 2
  MaxFaults = 0
SPECIFICATION MSpec
CHECK_DEADLOCK FALSE
INVARIANTS MTypeOK ConsumerFollows
