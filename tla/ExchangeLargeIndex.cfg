CONSTANTS
  Byte <- MCByte
  Gear <- MCGear
  Edited <- MCEdited
  MinSize = 3
  AvgSize = 4
  MaxSize = 5
  MaxFile = 10
  MaxFrame = 2
  MaxPulled = 7
  MaxTrouble = 0
SPECIFICATION XFairSpec
PROPERTIES PullSucceeds
CHECK_DEADLOCK FALSE
