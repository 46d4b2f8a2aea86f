CONSTANTS
  Txt = Txt
  NoExt = NoExt
  ExtPlace <- MCExtPlace
  Name <- OneName
  Keep = 2
  MaxSecond = 2
  MaxPrunes = 6
  MaxStops = 1
SPECIFICATION Spec
PROPERTIES ReplacedIsStored
