CONSTANTS
  Byte <- MCByte
  Gear <- MCGear
  Edited <- MCEdited
  MinSize = 3
  AvgSize = 4
  MaxSize = 5
  MaxFile = 10
  MaxFrame = 3
  MaxPulled = 8
  MaxTrouble = 1
SPECIFICATION XFairSpec
INVARIANTS XTypeOK SameChunks OnlyAdvertised
PROPERTIES PullSucceeds
CHECK_DEADLOCK FALSE
