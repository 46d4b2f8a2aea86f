CONSTANTS
  Txt = Txt
  NoExt = NoExt
  ExtPlace <- MCExtPlace
  Name <- TwoNames
  Keep = 1
  MaxSecond = 1
  MaxPrunes = 2
  MaxStops = 1
SPECIFICATION Spec
INVARIANTS TypeOK AtMostKeep
PROPERTIES DropsOldest DropsOnlyWhenFull
CHECK_DEADLOCK FALSE
